---------------------------- MODULE Participation ---------------------------
(***************************************************************************)
(* The participation domain (internal/participation): participations,      *)
(* their publish attempts and the single-use handoff credentials, as the   *)
(* HTTP handlers drive them.                                               *)
(*                                                                         *)
(* No method of Service opens a transaction.  Each is a sequence of single *)
(* SQL statements with one outbound call in it, on a pool of one           *)
(* connection, so a request is a task that takes one step per statement    *)
(* and the steps of different requests interleave.  A task keeps what the  *)
(* method read: `seen` is its copy of the participation row.               *)
(*                                                                         *)
(* One tenant, store, campaign and link.  The rule version of a            *)
(* participation never changes and is frozen along with the content.       *)
(***************************************************************************)
EXTENDS Integers, Sequences, FiniteSets

CONSTANTS
    Visitors,         \* first-party visitor keys
    NoVisitor,        \* visitor_id = '' of an anonymised row
    StartKeys,        \* idempotency keys of the customers' starts
    Contents,         \* content-pack versions
    Refs,             \* fulfilment references
    NoRef,
    Requests,         \* concurrent requests
    Idle,             \* a request that is not running
    HasReserver,      \* whether a BenefitReserver is wired in
    MayAbort,         \* whether a request may die half-way (crash, database error)
    HandoffTTL, Grace, Retentions,
    WindowEnd,        \* expires_at of the campaign window
    MaxTime,          \* bound on the clock
    MaxAttempts, MaxCredentials   \* bounds on the rows created

ASSUME BoundsAssumption ==
    /\ {HandoffTTL, Grace, WindowEnd, MaxTime, MaxAttempts, MaxCredentials} \subseteq Nat
    /\ Retentions \subseteq Nat
    /\ HasReserver \in BOOLEAN /\ MayAbort \in BOOLEAN

ASSUME MarkersAssumption == NoVisitor \notin Visitors /\ NoRef \notin Refs

VARIABLES
    clock,
    participations,  \* sequence of rows; the position is the id and the benefit slot
    attempts,        \* sequence of attempt rows
    credentials,     \* sequence of credential rows
    reserved,        \* participations whose slot the reward domain has reserved
    task             \* task[r]: where request r is and what it has read

vars == <<clock, participations, attempts, credentials, reserved, task>>

Statuses     == {"pending", "in_progress", "awaiting_review", "fulfilled", "canceled"}
Reservations == {"not_requested", "pending", "confirmed", "failed"}
Purposes     == {"customer_resume", "staff_verify"}
NoAttempt    == 0

Row == [key : StartKeys, visitor : Visitors \cup {NoVisitor}, content : Contents,
        status : Statuses, reservation : Reservations, ref : Refs \cup {NoRef},
        updated : 0..MaxTime]

Attempt == [of : Nat \ {0}, content : Contents,
            status : {"prepared", "handed_off", "canceled"}]

\* `uses` counts the times used_at was claimed; `deleted` marks a row Cleanup
\* has removed.
Credential == [of : Nat \ {0}, attempt : Nat, purpose : Purposes, until : Nat,
               uses : Nat, revoked : BOOLEAN, deleted : BOOLEAN]

Participations == DOMAIN participations

\* The `transitions` table.
CanTransition(from, to) ==
    <<from, to>> \in {<<"pending", "in_progress">>, <<"pending", "awaiting_review">>,
                      <<"pending", "canceled">>, <<"in_progress", "awaiting_review">>,
                      <<"in_progress", "canceled">>, <<"awaiting_review", "fulfilled">>,
                      <<"awaiting_review", "canceled">>}

-----------------------------------------------------------------------------
(* What the statements read and write *)

WindowExpired == clock > WindowEnd

Owned(p, v) == v # NoVisitor /\ participations[p].visitor = v

Existing(key) == {p \in Participations : participations[p].key = key}

\* Statuses a handoff, and the redemption of its credential, may start from.
OpenFor(purpose) ==
    IF purpose = "customer_resume" THEN {"pending", "in_progress"}
                                   ELSE {"pending", "in_progress", "awaiting_review"}

Put(p, row) ==
    participations' = [participations EXCEPT ![p] = [row EXCEPT !.updated = clock]]

Enter(r, t) == task[r] = Idle /\ task' = [task EXCEPT ![r] = t]
At(r, step) == task[r] # Idle /\ task[r].at = step
Goto(r, t)  == task' = [task EXCEPT ![r] = t]
Return(r)   == Goto(r, Idle)

\* Requests that are about to create a row; they count towards the bounds.
Attempting == {r \in Requests : At(r, "attempt")}
HandingOff == {r \in Requests : /\ task[r] # Idle /\ "for" \in DOMAIN task[r]
                                /\ task[r].for = "handoff"}

-----------------------------------------------------------------------------
(* Start *)

\* A replay of the key is answered with the original row, to its visitor only.
StartReplay(r, v, key) ==
    \E p \in Existing(key) :
        /\ ~ WindowExpired
        /\ participations[p].visitor = v
        /\ Enter(r, [at |-> "answer", visitor |-> v, seen |-> participations[p]])
        /\ UNCHANGED <<clock, participations, attempts, credentials, reserved>>

StartRead(r, v, key, content) ==
    /\ ~ WindowExpired
    /\ Existing(key) = {}
    /\ Enter(r, [at |-> "insert", visitor |-> v, key |-> key, content |-> content])
    /\ UNCHANGED <<clock, participations, attempts, credentials, reserved>>

NewRow(t) ==
    [key |-> t.key, visitor |-> t.visitor, content |-> t.content, status |-> "pending",
     reservation |-> IF HasReserver THEN "pending" ELSE "not_requested",
     ref |-> NoRef, updated |-> clock]

\* The unique index refuses a second row of the key, and the row found then is
\* the answer, whoever started it.
StartInsert(r) ==
    /\ At(r, "insert")
    /\ \/ /\ Existing(task[r].key) = {}
          /\ participations' = Append(participations, NewRow(task[r]))
          /\ Goto(r, [at |-> "reserve", for |-> "start", p |-> Len(participations) + 1,
                      seen |-> NewRow(task[r])])
       \/ \E p \in Existing(task[r].key) :
          /\ Goto(r, [at |-> "answer", visitor |-> task[r].visitor,
                      seen |-> participations[p]])
          /\ UNCHANGED participations
    /\ UNCHANGED <<clock, attempts, credentials, reserved>>

Answer(r) ==
    /\ At(r, "answer")
    /\ Return(r)
    /\ UNCHANGED <<clock, participations, attempts, credentials, reserved>>

-----------------------------------------------------------------------------
(* The reservation, shared by Start and BeginHandoff *)

\* Mutant: a refusal is recorded as a reservation.
RecordedOptimistically(outcome) == IF outcome = "error" THEN "pending" ELSE "confirmed"

Recorded(outcome) ==
    CASE outcome = "error" -> "pending" [] outcome = "yes" -> "confirmed"
      [] outcome = "no" -> "failed"

\* The outbound call, idempotent on the slot.  A transport error says nothing
\* about whether the slot was reserved.
Reserve(r) ==
    /\ At(r, "reserve")
    /\ IF ~ HasReserver \/ task[r].seen.reservation = "confirmed"
       THEN /\ Goto(r, [task[r] EXCEPT !.at = "save"])
            /\ UNCHANGED reserved
       ELSE \E outcome \in {"error", "yes", "no"} :
            /\ reserved' \in CASE outcome = "yes" -> {reserved \cup {task[r].p}}
                               [] outcome = "no"  -> {reserved}
                               [] OTHER           -> {reserved, reserved \cup {task[r].p}}
            /\ Goto(r, [task[r] EXCEPT !.at = "save",
                                       !.seen.reservation = Recorded(outcome)])
    /\ UNCHANGED <<clock, participations, attempts, credentials>>

\* Mutant: a refused reservation ends the handoff after the freeze.
SaveReservationStateOrGiveUp(r) ==
    /\ At(r, "save")
    /\ Put(task[r].p, [participations[task[r].p] EXCEPT
                         !.reservation = task[r].seen.reservation])
    /\ IF task[r].for = "start" \/ task[r].seen.reservation = "failed"
       THEN Return(r) ELSE Goto(r, [task[r] EXCEPT !.at = "mint"])
    /\ UNCHANGED <<clock, attempts, credentials, reserved>>

SaveReservationState(r) ==
    /\ At(r, "save")
    /\ Put(task[r].p, [participations[task[r].p] EXCEPT
                         !.reservation = task[r].seen.reservation])
    /\ IF task[r].for = "start" THEN Return(r) ELSE Goto(r, [task[r] EXCEPT !.at = "mint"])
    /\ UNCHANGED <<clock, attempts, credentials, reserved>>

-----------------------------------------------------------------------------
(* Content, cancellation, attempts *)

UpdateContentRead(r, v, p, content) ==
    /\ Owned(p, v)
    /\ participations[p].status \in {"pending", "in_progress"}
    /\ Enter(r, [at |-> "content", visitor |-> v, p |-> p, content |-> content])
    /\ UNCHANGED <<clock, participations, attempts, credentials, reserved>>

UpdateContentWrite(r) ==
    /\ At(r, "content")
    /\ IF Owned(task[r].p, task[r].visitor)
       THEN Put(task[r].p, [participations[task[r].p] EXCEPT !.content = task[r].content])
       ELSE UNCHANGED participations
    /\ Return(r)
    /\ UNCHANGED <<clock, attempts, credentials, reserved>>

CancelRead(r, v, p) ==
    /\ Owned(p, v)
    /\ CanTransition(participations[p].status, "canceled")
    /\ Enter(r, [at |-> "cancel", visitor |-> v, p |-> p])
    /\ UNCHANGED <<clock, participations, attempts, credentials, reserved>>

\* The UPDATE names the visitor but no status, and its row count is ignored.
CancelWrite(r) ==
    /\ At(r, "cancel")
    /\ IF Owned(task[r].p, task[r].visitor)
       THEN Put(task[r].p, [participations[task[r].p] EXCEPT !.status = "canceled"])
       ELSE UNCHANGED participations
    /\ Goto(r, [task[r] EXCEPT !.at = "cancel_attempts"])
    /\ UNCHANGED <<clock, attempts, credentials, reserved>>

CanceledIfPrepared(a, p) ==
    IF a.of = p /\ a.status = "prepared" THEN [a EXCEPT !.status = "canceled"] ELSE a

CancelAttempts(r) ==
    /\ At(r, "cancel_attempts")
    /\ attempts' = [i \in DOMAIN attempts |-> CanceledIfPrepared(attempts[i], task[r].p)]
    /\ Return(r)
    /\ UNCHANGED <<clock, participations, credentials, reserved>>

CreateAttemptRead(r, v, p) ==
    /\ Owned(p, v)
    /\ ~ WindowExpired
    /\ participations[p].status \in {"pending", "in_progress"}
    /\ Len(attempts) + Cardinality(Attempting) < MaxAttempts
    /\ Enter(r, [at |-> "attempt", p |-> p, seen |-> participations[p]])
    /\ UNCHANGED <<clock, participations, attempts, credentials, reserved>>

CreateAttemptInsert(r) ==
    /\ At(r, "attempt")
    /\ attempts' = Append(attempts, [of |-> task[r].p, content |-> task[r].seen.content,
                                     status |-> "prepared"])
    /\ Return(r)
    /\ UNCHANGED <<clock, participations, credentials, reserved>>

-----------------------------------------------------------------------------
(* Handoff *)

BeginHandoff(r, v, p, a, purpose) ==
    /\ Owned(p, v)
    /\ ~ WindowExpired
    /\ participations[p].status \in OpenFor(purpose)
    /\ purpose = "customer_resume" => a # NoAttempt
    /\ Len(credentials) + Cardinality(HandingOff) < MaxCredentials
    /\ Enter(r, [at |-> IF a = NoAttempt THEN "mark" ELSE "freeze", for |-> "handoff",
                 p |-> p, a |-> a, purpose |-> purpose, seen |-> participations[p]])
    /\ UNCHANGED <<clock, participations, attempts, credentials, reserved>>

\* Mutant: an attempt is frozen whatever its status.
BelongsTo(a, p) == attempts[a].of = p

Freezable(a, p) == attempts[a].of = p /\ attempts[a].status = "prepared"

\* One UPDATE that matches the prepared attempt or no row at all (not found).
FreezeAttempt(r) ==
    /\ At(r, "freeze")
    /\ IF Freezable(task[r].a, task[r].p)
       THEN /\ attempts' = [attempts EXCEPT ![task[r].a] =
                    [@ EXCEPT !.content = task[r].seen.content, !.status = "handed_off"]]
            /\ Goto(r, [task[r] EXCEPT !.at = "mark"])
       ELSE Return(r) /\ UNCHANGED attempts
    /\ UNCHANGED <<clock, participations, credentials, reserved>>

StartsProgress(t) == t.purpose = "customer_resume" /\ t.seen.status = "pending"

\* Decided on the status that was read; the UPDATE names the id only.
MarkInProgress(r) ==
    /\ At(r, "mark")
    /\ IF StartsProgress(task[r])
       THEN Put(task[r].p, [participations[task[r].p] EXCEPT !.status = "in_progress"])
       ELSE UNCHANGED participations
    /\ Goto(r, [task[r] EXCEPT !.at = "reserve"])
    /\ UNCHANGED <<clock, attempts, credentials, reserved>>

MintCredential(r) ==
    /\ At(r, "mint")
    /\ credentials' = Append(credentials,
           [of |-> task[r].p, attempt |-> task[r].a, purpose |-> task[r].purpose,
            until |-> clock + HandoffTTL, uses |-> 0, revoked |-> FALSE, deleted |-> FALSE])
    /\ Return(r)
    /\ UNCHANGED <<clock, participations, attempts, reserved>>

-----------------------------------------------------------------------------
(* Redeem *)

Unspent(c) == credentials[c].uses = 0 /\ ~ credentials[c].revoked /\ ~ credentials[c].deleted

\* Both rows are read here: the claim looks at the credential again.  v is the
\* customer's new browser; a staff member's tenant was checked before the call.
RedeemRead(r, v, c) ==
    LET p == credentials[c].of IN
    /\ Unspent(c)
    /\ clock < credentials[c].until
    /\ participations[p].status \in OpenFor(credentials[c].purpose)
    /\ Enter(r, [at |-> "claim", visitor |-> v, c |-> c, p |-> p, seen |-> participations[p]])
    /\ UNCHANGED <<clock, participations, attempts, credentials, reserved>>

\* Mutant: the claim trusts what was read.
ClaimableAsRead(c) == TRUE

Claimable(c) == Unspent(c)

ClaimCredential(r) ==
    /\ At(r, "claim")
    /\ IF Claimable(task[r].c)
       THEN /\ credentials' = [credentials EXCEPT ![task[r].c].uses = @ + 1]
            /\ Goto(r, [task[r] EXCEPT !.at = "open"])
       ELSE Return(r) /\ UNCHANGED credentials
    /\ UNCHANGED <<clock, participations, attempts, reserved>>

\* The customer's participation moves to the new browser.
RebindVisitor(r) ==
    /\ At(r, "open")
    /\ credentials[task[r].c].purpose = "customer_resume"
    /\ Put(task[r].p, [participations[task[r].p] EXCEPT !.visitor = task[r].visitor])
    /\ Return(r)
    /\ UNCHANGED <<clock, attempts, credentials, reserved>>

\* Decided on the status that was read; the UPDATE names the id only.
MarkAwaitingReview(r) ==
    /\ At(r, "open")
    /\ credentials[task[r].c].purpose = "staff_verify"
    /\ IF task[r].seen.status # "awaiting_review"
       THEN Put(task[r].p, [participations[task[r].p] EXCEPT !.status = "awaiting_review"])
       ELSE UNCHANGED participations
    /\ Return(r)
    /\ UNCHANGED <<clock, attempts, credentials, reserved>>

RevokeRead(r, v, c) ==
    /\ Owned(credentials[c].of, v)
    /\ Enter(r, [at |-> "revoke", c |-> c])
    /\ UNCHANGED <<clock, participations, attempts, credentials, reserved>>

RevokeWrite(r) ==
    /\ At(r, "revoke")
    /\ credentials' = IF Unspent(task[r].c)
                      THEN [credentials EXCEPT ![task[r].c].revoked = TRUE] ELSE credentials
    /\ Return(r)
    /\ UNCHANGED <<clock, participations, attempts, reserved>>

-----------------------------------------------------------------------------
(* Fulfilment and retention *)

Fulfillable == {"awaiting_review"}

\* A participation that is fulfilled already is answered or refused: no change.
MarkFulfilledRead(r, p, ref) ==
    /\ participations[p].status \in Fulfillable
    /\ Enter(r, [at |-> "fulfil", p |-> p, ref |-> ref])
    /\ UNCHANGED <<clock, participations, attempts, credentials, reserved>>

MarkFulfilledWrite(r) ==
    /\ At(r, "fulfil")
    /\ IF participations[task[r].p].status \in Fulfillable
       THEN Put(task[r].p, [participations[task[r].p] EXCEPT !.status = "fulfilled",
                                                             !.ref = task[r].ref])
       ELSE UNCHANGED participations
    /\ Return(r)
    /\ UNCHANGED <<clock, attempts, credentials, reserved>>

\* Two statements on two tables that read nothing in between.
Cleanup(retention) ==
    /\ credentials' = [c \in DOMAIN credentials |->
           IF credentials[c].until < clock - Grace
           THEN [credentials[c] EXCEPT !.deleted = TRUE] ELSE credentials[c]]
    /\ participations' = [p \in Participations |->
           IF /\ participations[p].status = "canceled"
              /\ participations[p].updated < clock - retention
              /\ participations[p].visitor # NoVisitor
           THEN [participations[p] EXCEPT !.visitor = NoVisitor, !.updated = clock]
           ELSE participations[p]]
    /\ UNCHANGED <<clock, attempts, reserved, task>>

\* A request dies between two statements: the process, its connection or the
\* database fails it, and nothing is rolled back.
Abort(r) ==
    /\ MayAbort
    /\ task[r] # Idle
    /\ Return(r)
    /\ UNCHANGED <<clock, participations, attempts, credentials, reserved>>

Tick ==
    /\ clock < MaxTime
    /\ clock' = clock + 1
    /\ UNCHANGED <<participations, attempts, credentials, reserved, task>>

-----------------------------------------------------------------------------
Init ==
    /\ clock = 0
    /\ participations = <<>> /\ attempts = <<>> /\ credentials = <<>>
    /\ reserved = {}
    /\ task = [r \in Requests |-> Idle]

(* The handlers: a request arrives, is let through and makes its first read. *)
(* One whose body, link, session or scope is refused changes nothing.        *)

handleParticipationStart(r) ==
    \E v \in Visitors, key \in StartKeys :
        \/ StartReplay(r, v, key)
        \/ \E content \in Contents : StartRead(r, v, key, content)

handleParticipationContent(r) ==
    \E v \in Visitors, p \in Participations, content \in Contents :
        UpdateContentRead(r, v, p, content)

handleParticipationCancel(r) ==
    \E v \in Visitors, p \in Participations : CancelRead(r, v, p)

handleParticipationAttemptCreate(r) ==
    \E v \in Visitors, p \in Participations : CreateAttemptRead(r, v, p)

handleParticipationHandoff(r) ==
    \E v \in Visitors, p \in Participations, a \in DOMAIN attempts \cup {NoAttempt},
       purpose \in Purposes : BeginHandoff(r, v, p, a, purpose)

handleParticipationHandoffRevoke(r) ==
    \E v \in Visitors, c \in DOMAIN credentials : RevokeRead(r, v, c)

\* The customer's page opens "customer_resume" credentials only, in any browser.
handleParticipationRedeem(r) ==
    \E v \in Visitors, c \in DOMAIN credentials :
        credentials[c].purpose = "customer_resume" /\ RedeemRead(r, v, c)

\* The staff desk opens "staff_verify" credentials only.  What it peeks at first
\* decides the scope, which does not change; Redeem reads the rows again.
handleParticipationStaffRedeem(r) ==
    \E c \in DOMAIN credentials :
        credentials[c].purpose = "staff_verify" /\ RedeemRead(r, NoVisitor, c)

Arrive(r) ==
    \/ handleParticipationStart(r) \/ handleParticipationContent(r)
    \/ handleParticipationCancel(r) \/ handleParticipationAttemptCreate(r)
    \/ handleParticipationHandoff(r) \/ handleParticipationHandoffRevoke(r)
    \/ handleParticipationRedeem(r) \/ handleParticipationStaffRedeem(r)
    \/ \E p \in Participations, ref \in Refs : MarkFulfilledRead(r, p, ref)

\* A request that has arrived makes its next statement.
Step(r) ==
    \/ StartInsert(r) \/ Answer(r)
    \/ Reserve(r) \/ SaveReservationState(r)
    \/ UpdateContentWrite(r) \/ CancelWrite(r) \/ CancelAttempts(r) \/ CreateAttemptInsert(r)
    \/ FreezeAttempt(r) \/ MarkInProgress(r) \/ MintCredential(r)
    \/ ClaimCredential(r) \/ RebindVisitor(r) \/ MarkAwaitingReview(r) \/ RevokeWrite(r)
    \/ MarkFulfilledWrite(r)

Next ==
    \/ \E r \in Requests : Arrive(r) \/ Step(r) \/ Abort(r)
    \/ \E retention \in Retentions : Cleanup(retention)
    \/ Tick

Spec == Init /\ [][Next]_vars
-----------------------------------------------------------------------------
(* Properties *)

Steps == {"answer", "insert", "reserve", "save", "content", "cancel", "cancel_attempts",
          "attempt", "freeze", "mark", "mint", "claim", "open", "revoke", "fulfil"}

\* Rows stay in their column types, references point at rows that exist, and so
\* does whatever a running request refers to.
TypeOK ==
    /\ clock \in 0..MaxTime
    /\ participations \in Seq(Row)
    /\ attempts \in Seq(Attempt) /\ Len(attempts) <= MaxAttempts
    /\ credentials \in Seq(Credential) /\ Len(credentials) <= MaxCredentials
    /\ \A a \in DOMAIN attempts : attempts[a].of \in Participations
    /\ \A c \in DOMAIN credentials :
          /\ credentials[c].of \in Participations
          /\ credentials[c].attempt \in DOMAIN attempts \cup {NoAttempt}
    /\ reserved \subseteq Participations
    /\ \A r \in Requests : task[r] # Idle =>
          /\ task[r].at \in Steps
          /\ "p" \in DOMAIN task[r] => task[r].p \in Participations
          /\ "c" \in DOMAIN task[r] => task[r].c \in DOMAIN credentials
          /\ "seen" \in DOMAIN task[r] => task[r].seen \in Row

\* Concurrent starts under one key make one participation, and so occupy one
\* benefit slot.
OneStartPerKey ==
    \A p, q \in Participations : participations[p].key = participations[q].key => p = q

\* However many browsers and staff members present it, a credential opens its
\* participation once, and never after it was revoked.
SingleUse ==
    \A c \in DOMAIN credentials :
        credentials[c].uses <= 1 /\ (credentials[c].revoked => credentials[c].uses = 0)

\* A credential that carries an attempt carries a frozen attempt of its own
\* participation, and no other credential carries that attempt.
HandoffBindsAttempt ==
    \A c \in DOMAIN credentials : credentials[c].attempt # NoAttempt =>
        /\ attempts[credentials[c].attempt].of = credentials[c].of
        /\ attempts[credentials[c].attempt].status = "handed_off"
        /\ \A d \in DOMAIN credentials :
              credentials[d].attempt = credentials[c].attempt => d = c

\* Versions freeze at handoff: later content changes, handoffs and cancellations
\* leave an attempt that was handed off as it was.
FrozenAttemptsKeep ==
    [][\A a \in DOMAIN attempts :
          attempts[a].status = "handed_off" => attempts'[a] = attempts[a]]_vars

\* "Confirmed" is only ever recorded when the reward domain holds the slot,
\* whichever calls time out, repeat or overtake each other.
ConfirmedIsHonest ==
    \A p \in Participations : participations[p].reservation = "confirmed" => p \in reserved

\* A status has its cause on record, in every interleaving: progress needs an
\* attempt that left the page, review and fulfilment a staff code that was spent.
StatusHasCause ==
    \A p \in Participations :
        /\ participations[p].status = "in_progress" =>
              \E a \in DOMAIN attempts : attempts[a].of = p /\ attempts[a].status = "handed_off"
        /\ participations[p].status \in {"awaiting_review", "fulfilled"} =>
              \E c \in DOMAIN credentials : /\ credentials[c].of = p
                                            /\ credentials[c].purpose = "staff_verify"
                                            /\ credentials[c].uses > 0

\* Every status change is one of the transition table's.
LegalTransitions ==
    [][\A p \in Participations :
          \/ participations'[p].status = participations[p].status
          \/ CanTransition(participations[p].status, participations'[p].status)]_vars

\* A start is answered with a participation of the visitor who asked.
OwnerAnswered ==
    \A r \in Requests : At(r, "answer") => task[r].seen.visitor = task[r].visitor

\* Attempts are canceled with their participation only.
CanceledAttemptsBelong ==
    \A a \in DOMAIN attempts : attempts[a].status = "canceled" =>
        participations[attempts[a].of].status = "canceled"

\* A request that has arrived goes on to its end: its goroutine is scheduled and
\* its statements return.
FairSpec == Spec /\ \A r \in Requests : WF_vars(Step(r))

\* An attempt that was handed off gets its credential, unless the process dies
\* in between: the freeze is not left without the code that carries it.
HandoffCompletes ==
    \A a \in 1..MaxAttempts :
        (a \in DOMAIN attempts /\ attempts[a].status = "handed_off")
            ~> \E c \in DOMAIN credentials : credentials[c].attempt = a

-----------------------------------------------------------------------------
(* What the code's comments say and its interleavings do not do *)

\* "Terminal states never resurrect": a canceled participation stays canceled.
CanceledIsFinal ==
    [][\A p \in Participations :
          participations[p].status = "canceled" => participations'[p].status = "canceled"]_vars

\* "Late failures and out-of-order receipts never downgrade fulfillment".
FulfilledIsFinal ==
    [][\A p \in Participations :
          participations[p].status = "fulfilled" => participations'[p].status = "fulfilled"]_vars

=============================================================================

----------------------------- MODULE LeadsOutbox ----------------------------
(***************************************************************************)
(* Leads and their outbox (store/store_leads.go, leads/forwarder.go): a    *)
(* consumer's submission and its revocation, each one transaction that     *)
(* also writes the outbox, and the forwarder, one goroutine that posts the *)
(* outbox's facts to platform-notify and polls what became of them.        *)
(*                                                                         *)
(* The forwarder opens no transaction: it takes one step per statement or  *)
(* outbound call, and submissions and revocations come in between.  A      *)
(* restart starts it again from the tables.                                *)
(*                                                                         *)
(* A lead is its dedup key.  Audit rows, error texts and the lead's own    *)
(* attempt counter are written and never read back by this code: they are  *)
(* left out.                                                               *)
(***************************************************************************)
EXTENDS Integers, Sequences, FiniteSets

CONSTANTS
    Keys,        \* dedup keys: a contact, a campaign and a day
    Routes,      \* the subscriptions notify delivers an event to
    MaxTries,    \* MaxForwardAttempts
    BatchLimit,  \* the LIMIT of a pass's queries
    MaxRestarts  \* bound on the restarts of the process

ASSUME LimitsAssumption ==
    MaxTries \in Nat \ {0} /\ BatchLimit \in Nat \ {0} /\ MaxRestarts \in Nat

VARIABLES
    lead,      \* lead[k]: sync_state, "none" before the submission
    queue,     \* the outbox rows in creation order
    forwarded, \* forwarded[f]: pending (0), sent (1), withheld (2), none
    attempts,  \* attempts[f]: failed posts of an outbox row
    accepted,  \* the facts notify has persisted
    delivery,  \* delivery[f][r]: what notify reports of a route
    forwarder, \* where the forwarder is in its pass
    restarts

vars == <<lead, queue, forwarded, attempts, accepted, delivery, forwarder, restarts>>

LeadStates == {"accepted", "pending_sync", "crm_received", "rejected", "revoked"}
Facts      == Keys \X {"submit", "revoke"}
Key(f)     == f[1]
Submit(k)  == <<k, "submit">>
Revoke(k)  == <<k, "revoke">>

-----------------------------------------------------------------------------
(* The consumer *)

Enqueue(f) == /\ queue' = Append(queue, f)
              /\ forwarded' = [forwarded EXCEPT ![f] = "pending"]

\* A second submission of the key is answered with the first and writes nothing.
SubmitLead(k) ==
    /\ lead[k] = "none"
    /\ lead' = [lead EXCEPT ![k] = "accepted"]
    /\ Enqueue(Submit(k))
    /\ UNCHANGED <<attempts, accepted, delivery, forwarder, restarts>>

\* Mutant: the stop is sent whether or not the submission was.
RevokeAlwaysSends(k) ==
    /\ lead[k] \in LeadStates \ {"revoked"}
    /\ lead' = [lead EXCEPT ![k] = "revoked"]
    /\ Enqueue(Revoke(k))
    /\ UNCHANGED <<attempts, accepted, delivery, forwarder, restarts>>

RevokeLeadSubmission(k) ==
    /\ lead[k] \in LeadStates \ {"revoked"}
    /\ lead' = [lead EXCEPT ![k] = "revoked"]
    /\ IF forwarded[Submit(k)] = "sent"
       THEN Enqueue(Revoke(k))
       ELSE /\ forwarded' = [forwarded EXCEPT ![Submit(k)] = "withheld"]
            /\ UNCHANGED queue
    /\ UNCHANGED <<attempts, accepted, delivery, forwarder, restarts>>

-----------------------------------------------------------------------------
(* Posting *)

Off       == [at |-> "off", todo |-> <<>>, repair |-> FALSE]
At(point) == forwarder.at = point
Due(point) == forwarder.at = point /\ forwarder.todo # <<>>
Row       == Head(forwarder.todo)
Goto(point)    == forwarder' = [forwarder EXCEPT !.at = point]
Proceed(point) == forwarder' = [forwarder EXCEPT !.at = point, !.todo = Tail(@)]

FirstOf(rows) == SubSeq(rows, 1, IF Len(rows) < BatchLimit THEN Len(rows) ELSE BatchLimit)

\* The rows of a pass: the oldest pending ones, without those tried too often.
RowsOfPass ==
    LET Pending(f) == forwarded[f] = "pending"
        Untired(f) == attempts[f] < MaxTries
    IN SelectSeq(FirstOf(SelectSeq(queue, Pending)), Untired)

ListLeadsOutboxDue ==
    /\ At("off")
    /\ forwarder' = [at |-> "row", todo |-> RowsOfPass, repair |-> FALSE]
    /\ UNCHANGED <<lead, queue, forwarded, attempts, accepted, delivery, restarts>>

Withheld(f) == lead[Key(f)] = "revoked" /\ f = Submit(Key(f))

ReadLead ==
    /\ Due("row")
    /\ Goto(IF Withheld(Row) THEN "withhold" ELSE "post")
    /\ UNCHANGED <<lead, queue, forwarded, attempts, accepted, delivery, restarts>>

MarkOutboxSuppressed ==
    /\ Due("withhold")
    /\ forwarded' = IF forwarded[Row] = "pending"
                    THEN [forwarded EXCEPT ![Row] = "withheld"] ELSE forwarded
    /\ Proceed("row")
    /\ UNCHANGED <<lead, queue, attempts, accepted, delivery, restarts>>

\* Mutant: an error of the post is not looked at.
PostUnchecked ==
    /\ Due("post")
    /\ accepted' \in {accepted, accepted \cup {Row}}
    /\ Goto("mark")
    /\ UNCHANGED <<lead, queue, forwarded, attempts, delivery, restarts>>

\* Accepted and answered with notify's id (a repeated post counts), or an
\* error, which does not say whether notify has the fact.
PostEvent ==
    /\ Due("post")
    /\ \/ accepted' = accepted \cup {Row} /\ Goto("mark")
       \/ accepted' \in {accepted, accepted \cup {Row}} /\ Goto("fail")
    /\ UNCHANGED <<lead, queue, forwarded, attempts, delivery, restarts>>

RecordOutboxError ==
    /\ Due("fail")
    /\ attempts' = [attempts EXCEPT ![Row] = @ + 1]
    /\ Proceed("row")
    /\ UNCHANGED <<lead, queue, forwarded, accepted, delivery, restarts>>

\* The UPDATE names the event only.
MarkOutboxForwarded ==
    /\ Due("mark")
    /\ forwarded' = [forwarded EXCEPT ![Row] = "sent"]
    /\ IF Row = Submit(Key(Row)) THEN Goto("sync") ELSE Proceed("row")
    /\ UNCHANGED <<lead, queue, attempts, accepted, delivery, restarts>>

\* Mutant: a plain update.
moveLead(k, from, to) == lead' = [lead EXCEPT ![k] = to]

\* Compare and set.
transitionLead(k, from, to) ==
    lead' = IF lead[k] \in from THEN [lead EXCEPT ![k] = to] ELSE lead

MarkLeadSyncPending ==
    /\ Due("sync")
    /\ transitionLead(Key(Row), {"accepted", "pending_sync"}, "pending_sync")
    /\ Proceed("row")
    /\ UNCHANGED <<queue, forwarded, attempts, accepted, delivery, restarts>>

-----------------------------------------------------------------------------
(* Confirming *)

\* The oldest leads of a state, named by their submit facts.
LeadsIn(state) ==
    LET Waiting(f) == f = Submit(Key(f)) /\ lead[Key(f)] = state
    IN FirstOf(SelectSeq(queue, Waiting))

\* Mutant: rejected leads are not asked about again.
ConfirmWithoutRepair ==
    /\ forwarder.at \in {"row", "poll"} /\ forwarder.todo = <<>>
    /\ forwarder' = IF At("row")
                    THEN [at |-> "poll", todo |-> LeadsIn("pending_sync"), repair |-> FALSE]
                    ELSE Off
    /\ UNCHANGED <<lead, queue, forwarded, attempts, accepted, delivery, restarts>>

\* Leads that wait for confirmation, then rejected ones, then the pass is over.
confirmDeliveries ==
    /\ forwarder.at \in {"row", "poll"} /\ forwarder.todo = <<>>
    /\ forwarder' =
          CASE At("row") -> [at |-> "poll", todo |-> LeadsIn("pending_sync"), repair |-> FALSE]
            [] At("poll") /\ ~ forwarder.repair
                         -> [at |-> "poll", todo |-> LeadsIn("rejected"), repair |-> TRUE]
            [] OTHER     -> Off
    /\ UNCHANGED <<lead, queue, forwarded, attempts, accepted, delivery, restarts>>

\* One delivered route is a receipt; failing that, one dead route rejects.
resolveDeliveries(f) ==
    CASE \E r \in Routes : delivery[f][r] = "delivered" -> "delivered"
      [] \A r \in Routes : delivery[f][r] = "pending"   -> "waiting"
      [] OTHER                                          -> "dead"

\* The lead's submission has a notify id.
Polled == Due("poll") /\ forwarded[Submit(Key(Row))] = "sent"

\* Notify answers with the deliveries of the event.
PollAnswered(f) ==
    /\ Polled /\ f = Submit(Key(Row))
    /\ CASE resolveDeliveries(f) = "delivered" -> Goto("receive")
         [] resolveDeliveries(f) = "dead" /\ ~ forwarder.repair -> Goto("reject")
         [] OTHER -> Proceed("poll")
    /\ UNCHANGED <<lead, queue, forwarded, attempts, accepted, delivery, restarts>>

\* The fact has no notify id, or notify does not answer.
PollSkipped ==
    /\ Due("poll")
    /\ Proceed("poll")
    /\ UNCHANGED <<lead, queue, forwarded, attempts, accepted, delivery, restarts>>

MarkLeadDelivered ==
    /\ Due("receive")
    /\ transitionLead(Key(Row), {"pending_sync", "rejected", "crm_received"}, "crm_received")
    /\ Proceed("poll")
    /\ UNCHANGED <<queue, forwarded, attempts, accepted, delivery, restarts>>

MarkLeadRejected ==
    /\ Due("reject")
    /\ transitionLead(Key(Row), {"accepted", "pending_sync"}, "rejected")
    /\ Proceed("poll")
    /\ UNCHANGED <<queue, forwarded, attempts, accepted, delivery, restarts>>

-----------------------------------------------------------------------------
(* Notify, and restarts *)

Settle(f, r) ==
    /\ f \in accepted
    /\ delivery[f][r] = "pending"
    /\ \E outcome \in {"delivered", "dead"} : delivery' = [delivery EXCEPT ![f][r] = outcome]
    /\ UNCHANGED <<lead, queue, forwarded, attempts, accepted, forwarder, restarts>>

\* A dead delivery is redriven on notify's side.
Redrive(f, r) ==
    /\ delivery[f][r] = "dead"
    /\ delivery' = [delivery EXCEPT ![f][r] = "delivered"]
    /\ UNCHANGED <<lead, queue, forwarded, attempts, accepted, forwarder, restarts>>

Restart ==
    /\ restarts < MaxRestarts /\ ~ At("off")
    /\ restarts' = restarts + 1
    /\ forwarder' = Off
    /\ UNCHANGED <<lead, queue, forwarded, attempts, accepted, delivery>>

-----------------------------------------------------------------------------
Init ==
    /\ lead = [k \in Keys |-> "none"]
    /\ queue = <<>>
    /\ forwarded = [f \in Facts |-> "none"]
    /\ attempts = [f \in Facts |-> 0]
    /\ accepted = {}
    /\ delivery = [f \in Facts |-> [r \in Routes |-> "pending"]]
    /\ forwarder = Off
    /\ restarts = 0

Tick ==
    \/ ListLeadsOutboxDue \/ ReadLead \/ MarkOutboxSuppressed
    \/ PostEvent \/ RecordOutboxError \/ MarkOutboxForwarded \/ MarkLeadSyncPending
    \/ confirmDeliveries \/ PollSkipped \/ (\E f \in Facts : PollAnswered(f))
    \/ MarkLeadDelivered \/ MarkLeadRejected

Next ==
    \/ \E k \in Keys : SubmitLead(k) \/ RevokeLeadSubmission(k)
    \/ Tick
    \/ \E f \in Facts, r \in Routes : Settle(f, r) \/ Redrive(f, r)
    \/ Restart

Spec == Init /\ [][Next]_vars

\* The ticker starts pass after pass, and a pass goes on to its end; notify
\* settles what it accepted, and answers a query that is repeated for ever.
FairSpec ==
    /\ Spec
    /\ WF_vars(Tick)
    /\ \A f \in Facts : SF_vars(PollAnswered(f))
    /\ \A f \in Facts, r \in Routes : WF_vars(Settle(f, r))

-----------------------------------------------------------------------------
(* Properties *)

Points == {"off", "row", "withhold", "post", "fail", "mark", "sync",
           "poll", "receive", "reject"}

\* Every column keeps to its CHECK, the queue holds the rows that exist, and the
\* forwarder works on rows that exist.
TypeOK ==
    /\ lead \in [Keys -> LeadStates \cup {"none"}]
    /\ queue \in Seq(Facts)
    /\ forwarded \in [Facts -> {"none", "pending", "sent", "withheld"}]
    /\ attempts \in [Facts -> Nat]
    /\ accepted \in SUBSET Facts
    /\ delivery \in [Facts -> [Routes -> {"pending", "delivered", "dead"}]]
    /\ forwarder \in [at : Points, todo : Seq(Facts), repair : BOOLEAN]
    /\ restarts \in Nat

\* No receipt is made up: a lead counts as received only when notify delivered
\* its submission to some route.
ReceiptIsReal ==
    \A k \in Keys : lead[k] = "crm_received" =>
        \E r \in Routes : delivery[Submit(k)][r] = "delivered"

\* The outbox never runs ahead of notify: what counts as handed over, and a lead
\* that waits for confirmation, is a fact notify has.
SentIsAccepted ==
    /\ \A f \in Facts : forwarded[f] = "sent" => f \in accepted
    /\ \A k \in Keys : lead[k] = "pending_sync" => Submit(k) \in accepted

\* A stop is queued once, for a revoked lead whose submission notify has.
StopFollowsSubmission ==
    \A i \in DOMAIN queue : queue[i] = Revoke(Key(queue[i])) =>
        /\ lead[Key(queue[i])] = "revoked"
        /\ Submit(Key(queue[i])) \in accepted
        /\ \A j \in DOMAIN queue : queue[j] = queue[i] => j = i

\* A revocation is final, whatever the forwarder had read before it.
RevokedIsFinal ==
    [][\A k \in Keys : lead[k] = "revoked" => lead'[k] = "revoked"]_vars

Exhausted(f) == attempts[f] >= MaxTries

\* A row is handed over, across restarts, unless it has failed as often as it
\* may.  Only a submission may be withheld instead: a stop must reach notify.
RowHandedOver ==
    \A f \in Facts :
        forwarded[f] = "pending" ~> \/ forwarded[f] = "sent"
                                    \/ forwarded[f] = "withheld" /\ f = Submit(Key(f))
                                    \/ Exhausted(f)

\* A lead that waits for confirmation does not wait for ever.
WaitingSettles ==
    \A k \in Keys :
        lead[k] = "pending_sync" ~> lead[k] \in {"crm_received", "rejected", "revoked"}

\* In front of a rejected k stand BatchLimit older leads that are rejected as well.
CrowdedOut(k) ==
    LET Before(j) == \E m, n \in DOMAIN queue :
                        m < n /\ queue[m] = Submit(j) /\ queue[n] = Submit(k)
    IN /\ lead[k] = "rejected"
       /\ Cardinality({j \in Keys : Before(j) /\ lead[j] = "rejected"}) >= BatchLimit

\* A delivery is learnt of, also after the lead was closed as rejected, unless the lead
\* stays for ever behind so many older rejected ones that no poll reaches it.
DeliveryIsLearnt ==
    \A k \in Keys :
        (lead[k] \in {"pending_sync", "rejected"}
           /\ \E r \in Routes : delivery[Submit(k)][r] = "delivered")
        ~> (lead[k] \in {"crm_received", "revoked"} \/ []CrowdedOut(k))

-----------------------------------------------------------------------------
(* What the comments say and the code does not do *)

\* "When the submit fact was already handed to notify, enqueues the revocation
\* event ... so the target converges".
SentIsStopped ==
    \A k \in Keys :
        lead[k] = "revoked" /\ forwarded[Submit(k)] = "sent" =>
            \E i \in DOMAIN queue : queue[i] = Revoke(k)

\* "Accepted by notify is the confirmed source: the lead waits": a lead does not
\* stay in the air, unless its row has failed as often as it may.
LeadSettles ==
    \A k \in Keys :
        lead[k] = "accepted" ~> \/ lead[k] \in {"crm_received", "rejected", "revoked"}
                                \/ Exhausted(Submit(k))

\* "A row already marked rejected is polled again only so a later delivered status ...
\* can repair it."
RejectedIsRepaired ==
    \A k \in Keys :
        (lead[k] = "rejected" /\ \E r \in Routes : delivery[Submit(k)][r] = "delivered")
        ~> lead[k] \in {"crm_received", "revoked"}

\* "One bad row must not starve the others": a pending row is tried, unless it is
\* withheld.
EveryRowIsTried ==
    \A f \in Facts :
        forwarded[f] = "pending" ~>
            f \in accepted \/ attempts[f] > 0 \/ forwarded[f] = "withheld"

=============================================================================

-------------------------- MODULE LeadsOutboxProofs -------------------------
(***************************************************************************)
(* Theorems about the leads' outbox for every value of its constants: any  *)
(* number of leads, routes, retries and restarts.                          *)
(***************************************************************************)
EXTENDS LeadsOutbox, TLAPS, SequenceTheorems

\* The columns the arguments below look at.  What is in the forwarder's list is
\* not needed: a step only relates its head to the tables.
Columns ==
    /\ lead \in [Keys -> LeadStates \cup {"none"}]
    /\ queue \in Seq(Facts)
    /\ forwarded \in [Facts -> {"none", "pending", "sent", "withheld"}]
    /\ delivery \in [Facts -> [Routes -> {"pending", "delivered", "dead"}]]
    /\ DOMAIN forwarder = {"at", "todo", "repair"}

Delivered(f) == \E r \in Routes : delivery[f][r] = "delivered"

\* What the forwarder has learnt of the row it works on.
Learnt ==
    /\ At("mark") \/ At("sync") => Row \in accepted
    /\ At("sync") => Row = Submit(Key(Row))
    /\ At("receive") => Submit(Key(Row)) \in Facts /\ Delivered(Submit(Key(Row)))

IInv == /\ Columns
        /\ Learnt
        /\ SentIsAccepted
        /\ ReceiptIsReal
        /\ StopFollowsSubmission

\* The two facts of a key are facts, and tell their key.
LEMMA FactsOfKey ==
    ASSUME NEW k \in Keys
    PROVE  /\ Submit(k) \in Facts /\ Revoke(k) \in Facts
           /\ Key(Submit(k)) = k /\ Key(Revoke(k)) = k
           /\ Submit(k) # Revoke(k)
BY DEF Submit, Revoke, Facts, Key

\* Every fact is one of the two of its key.
LEMMA KeyOfFact ==
    ASSUME NEW f \in Facts
    PROVE  Key(f) \in Keys /\ (f = Submit(Key(f)) \/ f = Revoke(Key(f)))
BY DEF Submit, Revoke, Facts, Key

\* A move of a pass writes the record's fields and no other.
LEMMA Moves ==
    ASSUME NEW point, DOMAIN forwarder = {"at", "todo", "repair"},
           Goto(point) \/ Proceed(point)
    PROVE  DOMAIN forwarder' = {"at", "todo", "repair"} /\ forwarder'.at = point
BY DEF Goto, Proceed

\* Going on within a row keeps the row.
LEMMA GotoKeepsRow ==
    ASSUME NEW point, DOMAIN forwarder = {"at", "todo", "repair"}, Goto(point)
    PROVE  forwarder'.todo = forwarder.todo
BY DEF Goto

\* A fact's deliveries are read after it was delivered to some route.
LEMMA ResolvedDelivered ==
    ASSUME NEW f, resolveDeliveries(f) = "delivered"
    PROVE  Delivered(f)
BY DEF resolveDeliveries, Delivered

\* Initially nothing was submitted and the forwarder rests.
LEMMA InitInv == Init => IInv
BY EmptySeq DEF Init, IInv, Columns, Learnt, SentIsAccepted, ReceiptIsReal,
      StopFollowsSubmission, Off, At

\* A submission opens a lead and queues its fact.
LEMMA SubmitStep ==
    ASSUME IInv, NEW k \in Keys, SubmitLead(k)
    PROVE  IInv'
<1> USE FactsOfKey
<1>1. Columns'
  <2>1. lead' \in [Keys -> LeadStates \cup {"none"}]
    BY DEF IInv, Columns, SubmitLead, LeadStates
  <2> QED  BY <2>1 DEF IInv, Columns, SubmitLead, Enqueue
<1>2. Learnt'
  BY DEF IInv, Learnt, SubmitLead, At, Row, Delivered
<1>3. SentIsAccepted' /\ ReceiptIsReal'
  BY DEF IInv, Columns, SentIsAccepted, ReceiptIsReal, SubmitLead, Enqueue
<1>4. StopFollowsSubmission'
  <2>1. queue' = Append(queue, Submit(k)) /\ queue \in Seq(Facts)
    BY DEF SubmitLead, Enqueue, IInv, Columns
  <2>2. lead' = [lead EXCEPT ![k] = "accepted"] /\ lead[k] = "none" /\ accepted' = accepted
    BY DEF SubmitLead
  <2>3. ASSUME NEW i \in DOMAIN queue', queue'[i] = Revoke(Key(queue'[i]))
        PROVE  i \in DOMAIN queue /\ queue'[i] = queue[i]
    BY <2>1, <2>3
  <2>4. \A i \in DOMAIN queue : queue[i] \in Facts
    BY <2>1
  <2> QED  BY <2>2, <2>3, <2>4, KeyOfFact DEF IInv, Columns, StopFollowsSubmission
<1> QED  BY <1>1, <1>2, <1>3, <1>4 DEF IInv

\* A revocation queues the stop once, and only when the submission was sent.
LEMMA RevokeStep ==
    ASSUME IInv, NEW k \in Keys, RevokeLeadSubmission(k)
    PROVE  IInv'
<1> USE FactsOfKey
<1>0. lead' = [lead EXCEPT ![k] = "revoked"] /\ lead[k] # "revoked" /\ lead[k] # "none"
      /\ UNCHANGED <<accepted, delivery, forwarder>>
  BY DEF RevokeLeadSubmission, LeadStates
<1>1. Columns'
  <2>1. lead' \in [Keys -> LeadStates \cup {"none"}]
    BY <1>0 DEF IInv, Columns, LeadStates
  <2>2. queue' \in Seq(Facts) /\ forwarded' \in [Facts -> {"none", "pending", "sent", "withheld"}]
    <3>1. CASE forwarded[Submit(k)] = "sent"
      <4>1. queue' = Append(queue, Revoke(k))
            /\ forwarded' = [forwarded EXCEPT ![Revoke(k)] = "pending"]
        BY <3>1 DEF RevokeLeadSubmission, Enqueue
      <4> QED  BY <4>1 DEF IInv, Columns
    <3>2. CASE forwarded[Submit(k)] # "sent"
      BY <3>2 DEF RevokeLeadSubmission, IInv, Columns
    <3> QED  BY <3>1, <3>2
  <2> QED  BY <1>0, <2>1, <2>2 DEF IInv, Columns
<1>2. Learnt'
  BY <1>0 DEF IInv, Learnt, At, Row, Delivered
<1>3. \A f \in Facts : forwarded'[f] = "sent" => forwarded[f] = "sent"
  BY DEF RevokeLeadSubmission, Enqueue, IInv, Columns
<1>4. SentIsAccepted' /\ ReceiptIsReal'
  BY <1>0, <1>3 DEF IInv, Columns, SentIsAccepted, ReceiptIsReal
<1>5. StopFollowsSubmission'
  <2>0. \A i \in DOMAIN queue : queue[i] \in Facts /\ queue[i] # Revoke(k)
    BY <1>0 DEF IInv, Columns, StopFollowsSubmission
  <2>1. CASE forwarded[Submit(k)] = "sent"
    <3>1. queue' = Append(queue, Revoke(k)) /\ queue \in Seq(Facts)
      BY <2>1 DEF RevokeLeadSubmission, Enqueue, IInv, Columns
    <3>2. Submit(k) \in accepted
      BY <2>1 DEF IInv, SentIsAccepted
    <3>3. ASSUME NEW i \in DOMAIN queue'
          PROVE  \/ i \in DOMAIN queue /\ queue'[i] = queue[i]
                 \/ i = Len(queue) + 1 /\ queue'[i] = Revoke(k)
      BY <3>1, <3>3
    <3>4. \A i \in DOMAIN queue' : queue'[i] = Revoke(k) => i = Len(queue) + 1
      BY <2>0, <3>3
    <3> QED  BY <1>0, <2>0, <3>2, <3>3, <3>4, KeyOfFact DEF IInv, Columns, StopFollowsSubmission
  <2>2. CASE forwarded[Submit(k)] # "sent"
    <3>1. queue' = queue
      BY <2>2 DEF RevokeLeadSubmission
    <3> QED  BY <1>0, <2>0, <3>1, KeyOfFact DEF IInv, Columns, StopFollowsSubmission
  <2> QED  BY <2>1, <2>2
<1> QED  BY <1>1, <1>2, <1>4, <1>5 DEF IInv

\* Steps that move the forwarder and nothing the invariant speaks of.
LEMMA QuietStep ==
    ASSUME IInv, UNCHANGED <<lead, queue, forwarded, accepted, delivery>>,
           DOMAIN forwarder' = {"at", "todo", "repair"},
           forwarder'.at \notin {"mark", "sync", "receive"}
    PROVE  IInv'
BY DEF IInv, Columns, Learnt, SentIsAccepted, ReceiptIsReal, StopFollowsSubmission, At

\* A post that succeeds marks a fact notify has; a failed one may have reached it.
LEMMA PostStep ==
    ASSUME IInv, PostEvent
    PROVE  IInv'
<1>1. UNCHANGED <<lead, queue, forwarded, delivery>> /\ accepted \subseteq accepted'
  BY DEF PostEvent
<1>2. DOMAIN forwarder' = {"at", "todo", "repair"}
  BY Moves DEF PostEvent, IInv, Columns
<1>3. Learnt'
  <2>1. CASE Goto("mark") /\ Row \in accepted'
    BY <2>1, <1>2, Moves, GotoKeepsRow DEF Learnt, IInv, Columns, At, Row
  <2>2. CASE Goto("fail")
    BY <2>2, Moves DEF Learnt, IInv, Columns, At
  <2> QED  BY <2>1, <2>2 DEF PostEvent
<1> QED  BY <1>1, <1>2, <1>3 DEF IInv, Columns, SentIsAccepted, ReceiptIsReal, StopFollowsSubmission

\* Withholding a row touches pending rows only.
LEMMA WithholdStep ==
    ASSUME IInv, MarkOutboxSuppressed
    PROVE  IInv'
<1>1. UNCHANGED <<lead, queue, accepted, delivery>>
  BY DEF MarkOutboxSuppressed
<1>2. DOMAIN forwarder' = {"at", "todo", "repair"} /\ forwarder'.at = "row"
  BY Moves DEF MarkOutboxSuppressed, IInv, Columns
<1>3. /\ forwarded' \in [Facts -> {"none", "pending", "sent", "withheld"}]
      /\ \A f \in Facts : forwarded'[f] = "sent" => forwarded[f] = "sent"
  BY DEF MarkOutboxSuppressed, IInv, Columns
<1> QED  BY <1>1, <1>2, <1>3
         DEF IInv, Columns, Learnt, At, SentIsAccepted, ReceiptIsReal, StopFollowsSubmission

\* The mark is set on the row that was just accepted.
LEMMA MarkStep ==
    ASSUME IInv, MarkOutboxForwarded
    PROVE  IInv'
<1>1. UNCHANGED <<lead, queue, accepted, delivery>> /\ Row \in accepted
  BY DEF MarkOutboxForwarded, IInv, Learnt, Due, At
<1>2. /\ forwarded' \in [Facts -> {"none", "pending", "sent", "withheld"}]
      /\ \A f \in Facts : forwarded'[f] = "sent" => forwarded[f] = "sent" \/ f = Row
  BY DEF MarkOutboxForwarded, IInv, Columns
<1>3. DOMAIN forwarder' = {"at", "todo", "repair"}
  BY Moves DEF MarkOutboxForwarded, IInv, Columns
<1>4. Learnt'
  <2>1. CASE Row = Submit(Key(Row))
    BY <2>1, <1>1, Moves, GotoKeepsRow DEF MarkOutboxForwarded, IInv, Columns, Learnt, At, Row
  <2>2. CASE Row # Submit(Key(Row))
    BY <2>2, Moves DEF MarkOutboxForwarded, IInv, Columns, Learnt, At
  <2> QED  BY <2>1, <2>2
<1> QED  BY <1>1, <1>2, <1>3, <1>4
         DEF IInv, Columns, SentIsAccepted, ReceiptIsReal, StopFollowsSubmission

\* A compare and set changes one lead at most, from one of `from` to `to`.
LEMMA Transition ==
    ASSUME NEW k, NEW from, NEW to \in LeadStates,
           lead \in [Keys -> LeadStates \cup {"none"}], transitionLead(k, from, to)
    PROVE  /\ lead' \in [Keys -> LeadStates \cup {"none"}]
           /\ \A j \in Keys : lead'[j] # lead[j] => j = k /\ lead[j] \in from /\ lead'[j] = to
BY DEF transitionLead

\* The forwarder writes its verdict: the lead's state moves, the tables stay.
LEMMA VerdictStep ==
    ASSUME IInv, NEW from, NEW to \in {"pending_sync", "crm_received", "rejected"},
           "revoked" \notin from,
           transitionLead(Key(Row), from, to),
           to = "pending_sync" => Submit(Key(Row)) \in accepted,
           to = "crm_received" => Delivered(Submit(Key(Row))),
           NEW point \in {"row", "poll"}, Proceed(point),
           UNCHANGED <<queue, forwarded, accepted, delivery>>
    PROVE  IInv' /\ \A k \in Keys : lead[k] = "revoked" => lead'[k] = "revoked"
<1>1. to \in LeadStates
  BY DEF LeadStates
<1>2. /\ lead' \in [Keys -> LeadStates \cup {"none"}]
      /\ \A j \in Keys : lead'[j] # lead[j] =>
            j = Key(Row) /\ lead[j] \in from /\ lead'[j] = to
  BY <1>1, Transition DEF IInv, Columns
<1>3. \A k \in Keys : lead[k] = "revoked" => lead'[k] = "revoked"
  BY <1>2
<1>4. Columns' /\ Learnt'
  BY <1>2, Moves DEF IInv, Columns, Learnt, At
<1>5. SentIsAccepted' /\ ReceiptIsReal'
  BY <1>2 DEF IInv, SentIsAccepted, ReceiptIsReal, Delivered
<1>6. StopFollowsSubmission'
  <2>1. \A i \in DOMAIN queue : queue[i] \in Facts
    BY DEF IInv, Columns
  <2> QED  BY <1>3, <2>1, KeyOfFact DEF IInv, StopFollowsSubmission
<1> QED  BY <1>3, <1>4, <1>5, <1>6 DEF IInv

\* The three verdicts.
LEMMA VerdictSteps ==
    ASSUME IInv, MarkLeadSyncPending \/ MarkLeadDelivered \/ MarkLeadRejected
    PROVE  IInv' /\ \A k \in Keys : lead[k] = "revoked" => lead'[k] = "revoked"
<1>1. CASE MarkLeadSyncPending
  <2>1. Submit(Key(Row)) \in accepted
    BY <1>1 DEF MarkLeadSyncPending, Due, At, IInv, Learnt
  <2> QED  BY <1>1, <2>1, VerdictStep DEF MarkLeadSyncPending
<1>2. CASE MarkLeadDelivered
  <2>1. Delivered(Submit(Key(Row)))
    BY <1>2 DEF MarkLeadDelivered, Due, At, IInv, Learnt
  <2> QED  BY <1>2, <2>1, VerdictStep DEF MarkLeadDelivered
<1>3. CASE MarkLeadRejected
  BY <1>3, VerdictStep DEF MarkLeadRejected
<1> QED  BY <1>1, <1>2, <1>3

\* A poll reports a delivery only when there is one.
LEMMA PollStep ==
    ASSUME IInv, NEW f \in Facts, PollAnswered(f)
    PROVE  IInv'
<1>1. UNCHANGED <<lead, queue, forwarded, accepted, delivery>> /\ f = Submit(Key(Row))
  BY DEF PollAnswered
<1>2. CASE resolveDeliveries(f) = "delivered"
  <2>1. Goto("receive") /\ Delivered(f)
    BY <1>2, ResolvedDelivered DEF PollAnswered
  <2>2. DOMAIN forwarder' = {"at", "todo", "repair"} /\ forwarder'.at = "receive"
        /\ forwarder'.todo = forwarder.todo
    BY <2>1, Moves, GotoKeepsRow DEF IInv, Columns
  <2>3. Learnt'
    BY <1>1, <2>1, <2>2 DEF Learnt, At, Row, Delivered
  <2> QED  BY <1>1, <2>2, <2>3
           DEF IInv, Columns, SentIsAccepted, ReceiptIsReal, StopFollowsSubmission
<1>3. CASE resolveDeliveries(f) # "delivered"
  <2>1. Goto("reject") \/ Proceed("poll")
    BY <1>3 DEF PollAnswered
  <2>2. DOMAIN forwarder' = {"at", "todo", "repair"} /\ forwarder'.at \in {"reject", "poll"}
    BY <2>1, Moves DEF IInv, Columns
  <2> QED  BY <1>1, <2>2, QuietStep
<1> QED  BY <1>2, <1>3

\* Notify's side only ever adds deliveries.
LEMMA NotifyStep ==
    ASSUME IInv, NEW f \in Facts, NEW r \in Routes, Settle(f, r) \/ Redrive(f, r)
    PROVE  IInv'
<1>1. /\ delivery' \in [Facts -> [Routes -> {"pending", "delivered", "dead"}]]
      /\ \A g \in Facts, q \in Routes : delivery[g][q] = "delivered" => delivery'[g][q] = "delivered"
  <2>1. PICK to \in {"delivered", "dead"} :
           /\ delivery' = [delivery EXCEPT ![f][r] = to]
           /\ delivery[f][r] = "delivered" => to = "delivered"
    BY DEF Settle, Redrive
  <2>2. delivery \in [Facts -> [Routes -> {"pending", "delivered", "dead"}]]
    BY DEF IInv, Columns
  <2>3. [delivery[f] EXCEPT ![r] = to] \in [Routes -> {"pending", "delivered", "dead"}]
    BY <2>2
  <2>4. delivery' = [delivery EXCEPT ![f] = [delivery[f] EXCEPT ![r] = to]]
    BY <2>1, <2>2
  <2>5. delivery' \in [Facts -> [Routes -> {"pending", "delivered", "dead"}]]
    BY <2>2, <2>3, <2>4
  <2>6. ASSUME NEW g \in Facts, NEW q \in Routes, delivery[g][q] = "delivered"
        PROVE  delivery'[g][q] = "delivered"
    BY <2>1, <2>2, <2>4, <2>6
  <2> QED  BY <2>5, <2>6
<1>2. UNCHANGED <<lead, queue, forwarded, accepted, forwarder>>
  BY DEF Settle, Redrive
<1>3. ReceiptIsReal'
  BY <1>1, <1>2, FactsOfKey DEF IInv, ReceiptIsReal
<1>4. ASSUME NEW g \in Facts, Delivered(g)
      PROVE  \E q \in Routes : delivery'[g][q] = "delivered"
  BY <1>1, <1>4 DEF Delivered
<1>5. Learnt'
  <2>1. At("receive")' => Submit(Key(Row)) \in Facts /\ Delivered(Submit(Key(Row)))
    BY <1>2 DEF IInv, Learnt, At
  <2>2. At("receive")' => \E q \in Routes : delivery'[Submit(Key(Row))][q] = "delivered"
    BY <1>4, <2>1
  <2> QED  BY <1>2, <2>1, <2>2 DEF IInv, Learnt, At, Row, Delivered
<1> QED  BY <1>1, <1>2, <1>3, <1>5 DEF IInv, Columns, SentIsAccepted, StopFollowsSubmission

-----------------------------------------------------------------------------
\* Every step keeps the invariant.
LEMMA NextInv == IInv /\ [Next]_vars => IInv'
<1> SUFFICES ASSUME IInv, [Next]_vars
             PROVE  IInv'
  OBVIOUS
<1>1. ASSUME NEW k \in Keys, SubmitLead(k) \/ RevokeLeadSubmission(k)
      PROVE  IInv'
  BY <1>1, SubmitStep, RevokeStep
<1>2. CASE Tick
  <2>1. CASE ListLeadsOutboxDue \/ ReadLead \/ RecordOutboxError \/ confirmDeliveries \/ PollSkipped
    <3>1. UNCHANGED <<lead, queue, forwarded, accepted, delivery>>
      BY <2>1 DEF ListLeadsOutboxDue, ReadLead, RecordOutboxError, confirmDeliveries, PollSkipped
    <3>2. DOMAIN forwarder' = {"at", "todo", "repair"}
          /\ forwarder'.at \notin {"mark", "sync", "receive"}
      <4>1. CASE ListLeadsOutboxDue
        BY <4>1 DEF ListLeadsOutboxDue
      <4>2. CASE ReadLead
        BY <4>2, Moves DEF ReadLead, IInv, Columns
      <4>3. CASE RecordOutboxError \/ PollSkipped
        BY <4>3, Moves DEF RecordOutboxError, PollSkipped, IInv, Columns
      <4>4. CASE confirmDeliveries
        <5>1. CASE At("row")
          BY <4>4, <5>1 DEF confirmDeliveries
        <5>2. CASE At("poll") /\ ~ At("row") /\ ~ forwarder.repair
          BY <4>4, <5>2 DEF confirmDeliveries
        <5>3. CASE ~ At("row") /\ ~ (At("poll") /\ ~ forwarder.repair)
          <6>1. forwarder' = Off
            BY <4>4, <5>3 DEF confirmDeliveries
          <6> QED  BY <6>1 DEF Off
        <5> QED  BY <5>1, <5>2, <5>3
      <4> QED  BY <2>1, <4>1, <4>2, <4>3, <4>4
    <3> QED  BY <3>1, <3>2, QuietStep
  <2>2. CASE MarkOutboxSuppressed
    BY <2>2, WithholdStep
  <2>3. CASE PostEvent
    BY <2>3, PostStep
  <2>4. CASE MarkOutboxForwarded
    BY <2>4, MarkStep
  <2>5. CASE MarkLeadSyncPending \/ MarkLeadDelivered \/ MarkLeadRejected
    BY <2>5, VerdictSteps
  <2>6. CASE \E f \in Facts : PollAnswered(f)
    BY <2>6, PollStep
  <2> QED  BY <1>2, <2>1, <2>2, <2>3, <2>4, <2>5, <2>6 DEF Tick
<1>3. ASSUME NEW f \in Facts, NEW r \in Routes, Settle(f, r) \/ Redrive(f, r)
      PROVE  IInv'
  BY <1>3, NotifyStep
<1>4. CASE Restart
  <2>1. forwarder' = Off /\ UNCHANGED <<lead, queue, forwarded, accepted, delivery>>
    BY <1>4 DEF Restart
  <2> QED  BY <2>1, QuietStep DEF Off
<1>5. CASE UNCHANGED vars
  <2>1. UNCHANGED <<lead, queue, forwarded, accepted, delivery, forwarder>>
    BY <1>5 DEF vars
  <2> QED  BY <2>1 DEF IInv, Columns, Learnt, At, Row, Delivered, SentIsAccepted, ReceiptIsReal,
                       StopFollowsSubmission
<1> QED  BY <1>1, <1>2, <1>3, <1>4, <1>5 DEF Next

\* The invariant holds in every reachable state.
LEMMA Invariant == Spec => []IInv
<1> QED  BY InitInv, NextInv, PTL DEF Spec

\* A lead counts as received only when notify delivered its submission.
THEOREM NoReceiptIsMadeUp == Spec => []ReceiptIsReal
<1>1. IInv => ReceiptIsReal
  BY DEF IInv
<1> QED  BY <1>1, Invariant, PTL

\* What counts as handed over, or waits for confirmation, is a fact notify has:
\* over any number of restarts, failed posts and revocations.
THEOREM OutboxNeverAhead == Spec => []SentIsAccepted
<1>1. IInv => SentIsAccepted
  BY DEF IInv
<1> QED  BY <1>1, Invariant, PTL

\* A stop is queued once, for a revoked lead whose submission notify has.
THEOREM StopsAreJustified == Spec => []StopFollowsSubmission
<1>1. IInv => StopFollowsSubmission
  BY DEF IInv
<1> QED  BY <1>1, Invariant, PTL

\* Nothing the forwarder read before a revocation brings the lead back.
THEOREM RevocationIsFinal == Spec => RevokedIsFinal
<1>1. IInv /\ [Next]_vars => [\A k \in Keys : lead[k] = "revoked" => lead'[k] = "revoked"]_vars
  <2> SUFFICES ASSUME IInv, Next
               PROVE  \A k \in Keys : lead[k] = "revoked" => lead'[k] = "revoked"
    OBVIOUS
  <2>1. ASSUME NEW k \in Keys, SubmitLead(k) \/ RevokeLeadSubmission(k)
        PROVE  \A j \in Keys : lead[j] = "revoked" => lead'[j] = "revoked"
    BY <2>1 DEF SubmitLead, RevokeLeadSubmission, IInv, Columns
  <2>2. CASE MarkLeadSyncPending \/ MarkLeadDelivered \/ MarkLeadRejected
    BY <2>2, VerdictSteps
  <2>3. CASE \/ ListLeadsOutboxDue \/ ReadLead \/ MarkOutboxSuppressed \/ PostEvent
             \/ RecordOutboxError \/ MarkOutboxForwarded \/ confirmDeliveries \/ PollSkipped
             \/ \E f \in Facts : PollAnswered(f)
    BY <2>3 DEF ListLeadsOutboxDue, ReadLead, MarkOutboxSuppressed, PostEvent, RecordOutboxError,
               MarkOutboxForwarded, confirmDeliveries, PollSkipped, PollAnswered
  <2>4. CASE Restart \/ \E f \in Facts, r \in Routes : Settle(f, r) \/ Redrive(f, r)
    BY <2>4 DEF Restart, Settle, Redrive
  <2> QED  BY <2>1, <2>2, <2>3, <2>4 DEF Next, Tick
<1> QED  BY <1>1, Invariant, PTL DEF Spec, RevokedIsFinal
=============================================================================

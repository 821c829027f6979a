------------------------- MODULE RewardLedgerProofs -------------------------
(***************************************************************************)
(* Theorems about the reward ledger for every value of its constants.      *)
(***************************************************************************)
EXTENDS RewardLedger, TLAPS, FiniteSetTheorems, WellFoundedInduction,
        SequenceTheorems

\* What a swept transaction starts from: the same rows, some reserved ones now
\* expired, and the trail with one operation more for each of those.
LEMMA SweepTyped ==
    ASSUME TypeOK, NEW t \in RequestTimes
    PROVE  /\ DOMAIN SweptRows(t) = DOMAIN rows
           /\ \A k \in DOMAIN rows :
                 /\ SweptRows(t)[k] \in Row
                 /\ SweptRows(t)[k].batch = rows[k].batch
           /\ SweptTrail(t) \in [Keys -> Seq(Op)]
<1>1. \A k \in DOMAIN rows : rows[k] \in Row
  BY DEF TypeOK
<1>2. DOMAIN SweptRows(t) = DOMAIN rows
  BY DEF SweptRows
<1>3. ASSUME NEW k \in DOMAIN rows
      PROVE  SweptRows(t)[k] \in Row /\ SweptRows(t)[k].batch = rows[k].batch
  BY <1>1, <1>3 DEF SweptRows, Row, BenefitStatuses
<1>4. [op |-> "expire", event |-> NoEvent] \in Op
  BY DEF Op, OpNames
<1>5. SweptTrail(t) \in [Keys -> Seq(Op)]
  BY <1>4 DEF SweptTrail, TypeOK
<1> QED  BY <1>2, <1>3, <1>5

\* The trail stays typed when a transaction posts typed operations.
LEMMA PostTyped ==
    ASSUME NEW tr \in [Keys -> Seq(Op)], NEW k \in Keys, NEW ops \in Seq(Op)
    PROVE  PostOps(tr, k, ops) \in [Keys -> Seq(Op)]
BY DEF PostOps

\* A posted operation is one of the five of reward_operations.
LEMMA OneOpTyped ==
    ASSUME NEW name \in OpNames, NEW e \in Events \cup {NoEvent}
    PROVE  <<[op |-> name, event |-> e]>> \in Seq(Op)
BY DEF Op

\* So are the one or two operations of a grant.
LEMMA IssueOpsTyped ==
    ASSUME NEW e \in Events, NEW fulfil \in BOOLEAN
    PROVE  IssueOps(e, fulfil) \in Seq(Op)
<1>1. [op |-> "issue", event |-> e] \in Op /\ [op |-> "redeem", event |-> NoEvent] \in Op
  BY DEF Op, OpNames
<1> QED  BY <1>1 DEF IssueOps

\* A non-empty set of naturals has a least element.
LEMMA NatMinimum ==
    ASSUME NEW C \in SUBSET Nat, C # {}
    PROVE  \E m \in C : \A d \in C : m <= d
<1>1. PICK m \in C : \A d \in C : ~ (<<d, m>> \in OpToRel(<, Nat))
  BY NatLessThanWellFounded, WFMin
<1>2. \A d \in C : ~ (d < m)
  BY <1>1 DEF OpToRel
<1> QED  BY <1>2

\* The batch that is picked is an active batch of the line.
LEMMA Picked ==
    ASSUME TypeOK, NEW c, NEW s, NEW v, Candidates(c, s, v) # {}
    PROVE  PickInventory(c, s, v) \in Candidates(c, s, v)
<1> DEFINE C == Candidates(c, s, v)
<1>1. C \subseteq Nat
  BY DEF Candidates, Batches, TypeOK
<1>2. PICK m \in C : \A d \in C : m <= d
  BY <1>1, NatMinimum
<1> QED  BY <1>2 DEF PickInventory

\* The code a batch hands out and the pool it leaves are typed.
LEMMA CodeTyped ==
    ASSUME TypeOK, NEW b \in Batches
    PROVE  AllocatedCode(b) \in Nat \X Nat
BY DEF AllocatedCode, TypeOK, Batches, NoCode

\* The code pool stays aligned with the batches when a code is allocated.
LEMMA PoolTyped ==
    ASSUME TypeOK, NEW b \in Batches, NEW owner \in Owners, AllocateCode(b, owner)
    PROVE  pool' \in Seq(Seq(Owners)) /\ Len(pool') = Len(batches)
<1>1. CASE batches[b].kind # "imported_code"
  BY <1>1 DEF AllocateCode, TypeOK
<1>2. CASE batches[b].kind = "imported_code"
  <2>1. b \in 1..Len(pool) /\ pool \in Seq(Seq(Owners))
    BY DEF TypeOK, Batches
  <2>2. Append(pool[b], owner) \in Seq(Owners)
    BY <2>1
  <2>3. pool' = [pool EXCEPT ![b] = Append(pool[b], owner)]
    BY <1>2 DEF AllocateCode
  <2> QED  BY <2>1, <2>2, <2>3, ExceptSeq DEF TypeOK
<1> QED  BY <1>1, <1>2

\* Both ids the store makes up for a key may own a code or a fact.
LEMMA KeyIds ==
    ASSUME NEW k \in Keys
    PROVE  RowId(k) \in Owners /\ StagingId(k) \in Owners
BY DEF RowId, StagingId, Owners

\* What an update of a row leaves typed and what it leaves alone.
LEMMA StatusUpdate ==
    ASSUME NEW r \in Row, NEW s \in BenefitStatuses
    PROVE  LET q == [r EXCEPT !.status = s] IN
           /\ q \in Row /\ q.status = s /\ q.until = r.until
           /\ q.campaign = r.campaign /\ q.batch = r.batch
           /\ q.code = r.code /\ q.evidence = r.evidence
BY DEF Row

\* A row stays a row when its reservation is renewed.
LEMMA HoldUpdate ==
    ASSUME NEW r \in Row, NEW u \in Nat
    PROVE  LET q == [r EXCEPT !.status = "reserved", !.until = u] IN
           /\ q \in Row /\ q.status = "reserved" /\ q.until = u
           /\ q.campaign = r.campaign /\ q.batch = r.batch
           /\ q.code = r.code /\ q.evidence = r.evidence
BY DEF Row, BenefitStatuses

\* A row stays a row when it is granted on some evidence.
LEMMA GrantTyped ==
    ASSUME NEW r \in Row, r.batch \in Batches, NEW s, s \in {"issued", "redeemed"},
           NEW ev \in Evidences
    PROVE  /\ [r EXCEPT !.status = s, !.evidence = ev] \in Row
           /\ [r EXCEPT !.status = s, !.evidence = ev].batch \in Batches
BY DEF Row, BenefitStatuses

\* A new reservation on an existing batch is a row.
LEMMA NewRowTyped ==
    ASSUME TypeOK, NEW c \in Campaigns, NEW b \in Batches, NEW u \in Nat
    PROVE  NewReservedBenefit(c, b, u, AllocatedCode(b)) \in Row
BY CodeTyped DEF NewReservedBenefit, Row, BenefitStatuses, Batches

\* Rows stay typed when one typed row is put.
LEMMA PutTyped ==
    ASSUME NEW rs, NEW k \in Keys, NEW r \in Row, r.batch \in Batches,
           DOMAIN rs \subseteq Keys,
           \A j \in DOMAIN rs : rs[j] \in Row /\ rs[j].batch \in Batches
    PROVE  /\ DOMAIN PutRow(rs, k, r) = DOMAIN rs \cup {k}
           /\ DOMAIN PutRow(rs, k, r) \subseteq Keys
           /\ \A j \in DOMAIN PutRow(rs, k, r) :
                 /\ PutRow(rs, k, r)[j] \in Row
                 /\ PutRow(rs, k, r)[j].batch \in Batches
BY DEF PutRow

\* Init satisfies the type invariant.
LEMMA InitTyped == Init => TypeOK
<1> SUFFICES ASSUME Init PROVE TypeOK
  OBVIOUS
<1>1. /\ batches \in Seq(BatchInputs) /\ Len(batches) = 0
      /\ batchStatus \in Seq(BatchStatuses) /\ Len(batchStatus) = 0
      /\ pool \in Seq(Seq(Owners)) /\ Len(pool) = 0
  BY EmptySeq DEF Init
<1>2. DOMAIN rows = {}
  BY DEF Init
<1>3. trail \in [Keys -> Seq(Op)]
  BY DEF Init
<1>4. factOwner \in [Facts -> Owners \cup {NoOwner}]
  BY DEF Init
<1>5. request \in [Requests -> [batch : Batches, to : BatchStatuses] \cup {Idle}]
  BY DEF Init
<1>6. clock \in 0..MaxTime /\ Len(batches) <= MaxBatches
  BY <1>1, BoundsAssumption DEF Init
<1> QED  BY <1>1, <1>2, <1>3, <1>4, <1>5, <1>6 DEF TypeOK

\* One proof step per action: a step of the ledger keeps every column typed.
LEMMA StepTyped == TypeOK /\ [Next]_vars => TypeOK'
<1> SUFFICES ASSUME TypeOK, [Next]_vars PROVE TypeOK'
  OBVIOUS
<1>1. ASSUME NEW in \in BatchInputs, CreateRewardInventory(in) PROVE TypeOK'
  <2>1. /\ batches' \in Seq(BatchInputs) /\ Len(batches') = Len(batches) + 1
        /\ batchStatus' \in Seq(BatchStatuses) /\ Len(batchStatus') = Len(batches')
        /\ pool' \in Seq(Seq(Owners)) /\ Len(pool') = Len(batches')
    BY <1>1 DEF CreateRewardInventory, TypeOK, BatchStatuses
  <2>2. Len(batches') <= MaxBatches
    BY <1>1, <2>1, BoundsAssumption DEF CreateRewardInventory, TypeOK
  <2>3. Batches \subseteq Batches'
    BY <2>1 DEF Batches, TypeOK
  <2>4. request' \in [Requests -> [batch : Batches', to : BatchStatuses] \cup {Idle}]
    <3>1. [batch : Batches, to : BatchStatuses] \subseteq [batch : Batches', to : BatchStatuses]
      BY <2>3
    <3> QED  BY <1>1, <3>1 DEF CreateRewardInventory, TypeOK
  <2>5. \A k \in DOMAIN rows' : rows'[k] \in Row /\ rows'[k].batch \in Batches'
    BY <1>1, <2>3 DEF CreateRewardInventory, TypeOK
  <2> QED  BY <1>1, <2>1, <2>2, <2>4, <2>5 DEF CreateRewardInventory, TypeOK
<1>2. ASSUME NEW r \in Requests, NEW b \in Batches, NEW s \in BatchStatuses,
             ReadInventoryStatus(r, b, s)
      PROVE  TypeOK'
  BY <1>2 DEF ReadInventoryStatus, TypeOK, Batches
<1>3. ASSUME NEW r \in Requests, WriteInventoryStatus(r) PROVE TypeOK'
  <2>1. request[r] \in [batch : Batches, to : BatchStatuses]
    BY <1>3 DEF WriteInventoryStatus, TypeOK
  <2>2. request[r].batch \in 1..Len(batchStatus) /\ request[r].to \in BatchStatuses
    BY <2>1 DEF TypeOK, Batches
  <2>3. batchStatus' \in Seq(BatchStatuses) /\ Len(batchStatus') = Len(batches')
    BY <1>3, <2>2, ExceptSeq DEF WriteInventoryStatus, TypeOK
  <2> QED  BY <1>3, <2>3 DEF WriteInventoryStatus, TypeOK, Batches
<1>4. CASE Tick
  BY <1>4, BoundsAssumption DEF Tick, TypeOK, Batches
<1>5. CASE UNCHANGED vars
  BY <1>5 DEF vars, TypeOK, Batches
<1>6. ASSUME NEW t \in RequestTimes, ExpireDueRewardReservations(t) PROVE TypeOK'
  BY <1>6, SweepTyped DEF ExpireDueRewardReservations, TypeOK, Batches
<1>7. ASSUME NEW k \in Keys, NEW e \in Events, ReverseRewardBenefit(k, e) PROVE TypeOK'
  <2>1. trail' \in [Keys -> Seq(Op)]
    BY <1>7, OneOpTyped, PostTyped DEF ReverseRewardBenefit, OpNames, TypeOK
  <2>2. rows[k] \in Row /\ "reversed" \in BenefitStatuses
    BY <1>7 DEF ReverseRewardBenefit, TypeOK, BenefitStatuses
  <2> DEFINE r == [rows[k] EXCEPT !.status = "reversed"]
  <2>3. r \in Row /\ r.batch \in Batches
    BY <1>7, <2>2, StatusUpdate DEF ReverseRewardBenefit, TypeOK
  <2>4. rows' = PutRow(rows, k, r)
    BY <1>7 DEF ReverseRewardBenefit
  <2> HIDE DEF r
  <2>5. /\ DOMAIN rows' \subseteq Keys
        /\ \A j \in DOMAIN rows' : rows'[j] \in Row /\ rows'[j].batch \in Batches
    BY <2>3, <2>4, PutTyped DEF TypeOK
  <2> QED  BY <1>7, <2>1, <2>5 DEF ReverseRewardBenefit, TypeOK, Batches
<1>8. ASSUME NEW k \in Keys, NEW e \in Events, NEW t \in RequestTimes,
             RedeemRewardBenefit(k, e, t)
      PROVE  TypeOK'
  <2>1. trail' \in [Keys -> Seq(Op)]
    BY <1>8, SweepTyped, OneOpTyped, PostTyped DEF RedeemRewardBenefit, OpNames
  <2>2. /\ SweptRows(t)[k] \in Row /\ "redeemed" \in BenefitStatuses
        /\ SweptRows(t)[k].batch \in Batches
    BY <1>8, SweepTyped DEF RedeemRewardBenefit, BenefitStatuses, TypeOK
  <2> DEFINE r == [SweptRows(t)[k] EXCEPT !.status = "redeemed"]
  <2>3. r \in Row /\ r.batch \in Batches
    BY <2>2, StatusUpdate
  <2>4. rows' = PutRow(SweptRows(t), k, r)
    BY <1>8 DEF RedeemRewardBenefit
  <2> HIDE DEF r
  <2>5. /\ DOMAIN rows' \subseteq Keys
        /\ \A j \in DOMAIN rows' : rows'[j] \in Row /\ rows'[j].batch \in Batches
    BY <2>3, <2>4, PutTyped, SweepTyped DEF TypeOK
  <2> QED  BY <1>8, <2>1, <2>5 DEF RedeemRewardBenefit, TypeOK, Batches
<1>9. ASSUME NEW k \in Keys, NEW c \in Campaigns, NEW v \in Versions, NEW e \in Events,
             NEW ttl \in TTLs, NEW t \in RequestTimes,
             ReserveRewardBenefit(k, c, v, e, ttl, t)
      PROVE  TypeOK'
  <2> DEFINE b == PickInventory(c, Slot(k), v)
  <2>1. trail' \in [Keys -> Seq(Op)]
    <3>1. <<[op |-> "reserve", event |-> e]>> \in Seq(Op)
      BY OneOpTyped DEF OpNames
    <3>2. trail' = PostOps(SweptTrail(t), k, <<[op |-> "reserve", event |-> e]>>)
      BY <1>9 DEF ReserveRewardBenefit, ReserveNew, ReserveAgain
    <3> QED  BY <3>1, <3>2, SweepTyped, PostTyped
  <2>2. b \in Batches
    BY <1>9, Picked DEF ReserveRewardBenefit, ReserveNew, ReserveAgain, Admits, Candidates
  <2>3. t + ttl \in Nat
    BY InputsAssumption DEF RequestTimes, TypeOK
  <2>4. CASE ReserveNew(k, c, v, e, ttl, t)
    <3> DEFINE r == NewReservedBenefit(c, b, t + ttl, AllocatedCode(b))
    <3>1. r \in Row /\ r.batch \in Batches
      BY <2>2, <2>3, NewRowTyped DEF NewReservedBenefit
    <3>2. rows' = PutRow(SweptRows(t), k, r)
      BY <2>4 DEF ReserveNew
    <3>3. pool' \in Seq(Seq(Owners)) /\ Len(pool') = Len(batches)
      BY <2>2, <2>4, PoolTyped, KeyIds DEF ReserveNew
    <3> HIDE DEF r, b
    <3>4. /\ DOMAIN rows' \subseteq Keys
          /\ \A j \in DOMAIN rows' : rows'[j] \in Row /\ rows'[j].batch \in Batches
      BY <3>1, <3>2, PutTyped, SweepTyped DEF TypeOK
    <3> QED  BY <2>1, <2>4, <3>3, <3>4 DEF ReserveNew, TypeOK, Batches
  <2>5. CASE ReserveAgain(k, c, v, e, ttl, t)
    <3> DEFINE r == [SweptRows(t)[k] EXCEPT !.status = "reserved", !.until = t + ttl]
    <3>1. SweptRows(t)[k] \in Row /\ SweptRows(t)[k].batch \in Batches
      BY <2>5, SweepTyped DEF ReserveAgain, TypeOK
    <3>2. r \in Row /\ r.batch \in Batches
      BY <2>3, <3>1, HoldUpdate
    <3>3. rows' = PutRow(SweptRows(t), k, r)
      BY <2>5 DEF ReserveAgain
    <3> HIDE DEF r
    <3>4. /\ DOMAIN rows' \subseteq Keys
          /\ \A j \in DOMAIN rows' : rows'[j] \in Row /\ rows'[j].batch \in Batches
      BY <3>2, <3>3, PutTyped, SweepTyped DEF TypeOK
    <3> QED  BY <2>1, <2>5, <3>4 DEF ReserveAgain, TypeOK, Batches
  <2> QED  BY <1>9, <2>4, <2>5 DEF ReserveRewardBenefit
<1>10. ASSUME NEW k \in Keys, NEW c \in Campaigns, NEW v \in Versions, NEW e \in Events,
              NEW ev \in Evidences, NEW f \in Facts, NEW store \in Stores,
              NEW fulfil \in BOOLEAN, NEW t \in RequestTimes,
              ConfirmRewardBenefit(k, c, v, e, ev, f, store, fulfil, t)
       PROVE  TypeOK'
  <2> DEFINE b == PickInventory(c, Slot(k), v)
  <2>1. trail' \in [Keys -> Seq(Op)]
    <3>1. trail' = PostOps(SweptTrail(t), k, IssueOps(e, fulfil))
      BY <1>10 DEF ConfirmRewardBenefit, ConfirmNew, ConfirmExisting
    <3> QED  BY <3>1, SweepTyped, IssueOpsTyped, PostTyped
  <2>2. b \in Batches
    BY <1>10, Picked
       DEF ConfirmRewardBenefit, ConfirmNew, ConfirmExisting, Admits, Candidates
  <2>3. factOwner' \in [Facts -> Owners \cup {NoOwner}]
    BY <1>10, KeyIds
       DEF ConfirmRewardBenefit, ConfirmNew, ConfirmExisting, ClaimOfficialFact, TypeOK
  <2>4. IssuedStatus(fulfil) \in {"issued", "redeemed"}
    BY DEF IssuedStatus
  <2>5. CASE ConfirmNew(k, c, v, e, ev, f, store, fulfil, t)
    <3> DEFINE n == NewReservedBenefit(c, b, NoTTL, AllocatedCode(b))
               r == [n EXCEPT !.status = IssuedStatus(fulfil), !.evidence = ev]
    <3>1. n \in Row /\ n.batch \in Batches
      BY <2>2, NewRowTyped DEF NewReservedBenefit, NoTTL
    <3>2. rows' = PutRow(SweptRows(t), k, r)
      BY <2>5 DEF ConfirmNew
    <3>3. pool' \in Seq(Seq(Owners)) /\ Len(pool') = Len(batches)
      BY <2>2, <2>5, PoolTyped, KeyIds DEF ConfirmNew
    <3> HIDE DEF n, b
    <3>4. r \in Row /\ r.batch \in Batches
      BY <2>4, <3>1, GrantTyped
    <3> HIDE DEF r
    <3>5. /\ DOMAIN rows' \subseteq Keys
          /\ \A j \in DOMAIN rows' : rows'[j] \in Row /\ rows'[j].batch \in Batches
      BY <3>2, <3>4, PutTyped, SweepTyped DEF TypeOK
    <3> QED  BY <2>1, <2>3, <2>5, <3>3, <3>5 DEF ConfirmNew, TypeOK, Batches
  <2>6. CASE ConfirmExisting(k, c, v, e, ev, f, store, fulfil, t)
    <3> DEFINE r == [SweptRows(t)[k] EXCEPT !.status = IssuedStatus(fulfil), !.evidence = ev]
    <3>1. SweptRows(t)[k] \in Row /\ SweptRows(t)[k].batch \in Batches
      BY <2>6, SweepTyped DEF ConfirmExisting, TypeOK
    <3>2. r \in Row /\ r.batch \in Batches
      BY <2>4, <3>1, GrantTyped
    <3>3. rows' = PutRow(SweptRows(t), k, r)
      BY <2>6 DEF ConfirmExisting
    <3> HIDE DEF r
    <3>4. /\ DOMAIN rows' \subseteq Keys
          /\ \A j \in DOMAIN rows' : rows'[j] \in Row /\ rows'[j].batch \in Batches
      BY <3>2, <3>3, PutTyped, SweepTyped DEF TypeOK
    <3> QED  BY <2>1, <2>3, <2>6, <3>4 DEF ConfirmExisting, TypeOK, Batches
  <2> QED  BY <1>10, <2>5, <2>6 DEF ConfirmRewardBenefit
<1> QED
  BY <1>1, <1>2, <1>3, <1>4, <1>5, <1>6, <1>7, <1>8, <1>9, <1>10
     DEF Next, InventoryNext, BenefitNext

\* Type correctness of the ledger: every column keeps its CHECK constraint and
\* every benefit keeps naming a batch that exists.
THEOREM LedgerTypeCorrect == Spec => []TypeOK
BY InitTyped, StepTyped, PTL DEF Spec

-----------------------------------------------------------------------------
(***************************************************************************)
(* The trail and the rows tell the same story.                             *)
(*                                                                         *)
(* TrailAgreesWithStatus and GrantedOnce are not inductive: that a second  *)
(* issue is impossible rests on a reserved or expired benefit having no    *)
(* issue, redeem or reverse behind it, and so on down the state machine.   *)
(* Story says so of one key; the lemmas below extend a story by each kind  *)
(* of operation the ledger posts.                                          *)
(***************************************************************************)
Named(tr, name) == {i \in DOMAIN tr : tr[i].op = name}

AtMostOne(S) == \A i, j \in S : i = j

Story(tr, status, evidence) ==
    /\ tr # <<>>
    /\ status = StatusOf(tr[Len(tr)].op)
    /\ AtMostOne(Named(tr, "issue"))
    /\ AtMostOne(Named(tr, "redeem"))
    /\ AtMostOne(Named(tr, "reverse"))
    /\ \A i \in Named(tr, "redeem") : \E j \in Named(tr, "issue") : j < i
    /\ (evidence # "") <=> Named(tr, "issue") # {}
    /\ status \in {"reserved", "expired"} => Named(tr, "issue") = {}
    /\ status \in {"reserved", "expired", "issued"} => Named(tr, "redeem") = {}
    /\ status # "reversed" => Named(tr, "reverse") = {}

StoryOf(rs, tr) ==
    \A k \in Keys : IF k \in DOMAIN rs THEN Story(tr[k], rs[k].status, rs[k].evidence)
                                       ELSE tr[k] = <<>>

StoryInv == StoryOf(rows, trail)

\* Appending an operation keeps the positions of the other operations and adds
\* one to its own.
LEMMA NamedOther ==
    ASSUME NEW tr \in Seq(Op), NEW o \in Op, NEW name, o.op # name
    PROVE  Named(Append(tr, o), name) = Named(tr, name)
BY DEF Named

\* An appended operation is the latest of its name.
LEMMA NamedOwn ==
    ASSUME NEW tr \in Seq(Op), NEW o \in Op
    PROVE  Named(Append(tr, o), o.op) = Named(tr, o.op) \cup {Len(tr) + 1}
BY DEF Named

\* Positions in a trail are bounded by its length.
LEMMA NamedBound ==
    ASSUME NEW tr \in Seq(Op), NEW name, NEW i \in Named(tr, name)
    PROVE  i \in Nat /\ i <= Len(tr)
BY DEF Named

\* The operation appended last is the last one of the trail.
LEMMA LastAppended ==
    ASSUME NEW tr \in Seq(Op), NEW o \in Op
    PROVE  /\ Append(tr, o) # <<>> /\ Append(tr, o) \in Seq(Op)
           /\ Append(tr, o)[Len(Append(tr, o))] = o
<1>1. Len(Append(tr, o)) = Len(tr) + 1
  OBVIOUS
<1> QED  BY <1>1

\* No grant behind it yet: a new key, a hold or a lapsed hold.
Clean(tr) == \A name \in {"issue", "redeem", "reverse"} : Named(tr, name) = {}

\* The trail of a key that has no row is clean.
LEMMA EmptyIsClean == Clean(<<>>)
BY DEF Clean, Named

\* The trail of a hold, live or lapsed, is clean and carries no evidence.
LEMMA OpenIsClean ==
    ASSUME NEW tr, NEW status \in {"reserved", "expired"}, NEW ev, Story(tr, status, ev)
    PROVE  Clean(tr) /\ ev = ""
BY DEF Story, Clean

\* A hold is taken, refreshed, taken up again or lapses.
LEMMA StoryHolds ==
    ASSUME NEW tr \in Seq(Op), Clean(tr), NEW o \in Op, o.op \in {"reserve", "expire"}
    PROVE  Story(Append(tr, o), StatusOf(o.op), "")
<1>1. ASSUME NEW name \in {"issue", "redeem", "reverse"}
      PROVE  Named(Append(tr, o), name) = {}
  <2>1. o.op # name
    OBVIOUS
  <2> QED  BY <2>1, NamedOther DEF Clean
<1> DEFINE q == Append(tr, o)
<1>2. /\ q # <<>> /\ StatusOf(o.op) = StatusOf(q[Len(q)].op)
      /\ StatusOf(o.op) # "reversed"
  BY LastAppended DEF StatusOf
<1>3. Named(q, "issue") = {} /\ Named(q, "redeem") = {} /\ Named(q, "reverse") = {}
  BY <1>1
<1> HIDE DEF q
<1>4. Story(q, StatusOf(o.op), "")
  BY <1>2, <1>3 DEF Story, AtMostOne
<1> QED  BY <1>4 DEF q

\* A grant.
LEMMA StoryIssues ==
    ASSUME NEW tr \in Seq(Op), Clean(tr), NEW o \in Op, o.op = "issue", NEW ev, ev # ""
    PROVE  Story(Append(tr, o), "issued", ev)
<1> DEFINE q == Append(tr, o)
<1>1. Named(q, "issue") = {Len(tr) + 1}
  BY NamedOwn DEF Clean
<1>2. Named(q, "redeem") = {}
  BY NamedOther, o.op # "redeem" DEF Clean
<1>3. Named(q, "reverse") = {}
  BY NamedOther, o.op # "reverse" DEF Clean
<1>4. q # <<>> /\ "issued" = StatusOf(q[Len(q)].op)
  BY LastAppended DEF StatusOf
<1>5. AtMostOne(Named(q, "issue")) /\ Named(q, "issue") # {}
  BY <1>1 DEF AtMostOne
<1>6. AtMostOne(Named(q, "redeem")) /\ AtMostOne(Named(q, "reverse"))
  BY <1>2, <1>3 DEF AtMostOne
<1> HIDE DEF q
<1>7. Story(q, "issued", ev)
  BY <1>2, <1>3, <1>4, <1>5, <1>6 DEF Story
<1> QED  BY <1>7 DEF q

\* A redemption of an issued benefit.
LEMMA StoryRedeems ==
    ASSUME NEW tr \in Seq(Op), NEW ev, Story(tr, "issued", ev), NEW o \in Op, o.op = "redeem"
    PROVE  Story(Append(tr, o), "redeemed", ev)
<1> DEFINE q == Append(tr, o)
<1>1. Named(q, "issue") = Named(tr, "issue")
  BY NamedOther, o.op # "issue"
<1>2. Named(q, "reverse") = {}
  BY NamedOther, o.op # "reverse" DEF Story
<1>3. Named(q, "redeem") = {Len(tr) + 1}
  BY NamedOwn DEF Story
<1>4. PICK j \in Named(tr, "issue") : TRUE
  <2>0. Len(tr) \in DOMAIN tr
    <3>1. tr # <<>>
      BY DEF Story
    <3> QED  BY <3>1, EmptySeq, LenProperties
  <2>1. tr[Len(tr)].op = "issue"
    <3>1. tr[Len(tr)].op \in OpNames
      <4>1. tr[Len(tr)] \in Op
        BY <2>0, LenProperties
      <4> QED  BY <4>1 DEF Op
    <3>2. StatusOf(tr[Len(tr)].op) = "issued"
      BY DEF Story
    <3> QED  BY <3>1, <3>2 DEF StatusOf, OpNames
  <2> QED  BY <2>0, <2>1 DEF Named
<1>5. j < Len(tr) + 1
  BY NamedBound
<1>6. q # <<>> /\ "redeemed" = StatusOf(q[Len(q)].op)
  BY LastAppended DEF StatusOf
<1>7. /\ AtMostOne(Named(q, "issue")) /\ AtMostOne(Named(q, "redeem"))
      /\ AtMostOne(Named(q, "reverse")) /\ Named(q, "issue") # {} /\ ev # ""
  BY <1>1, <1>2, <1>3, <1>4 DEF Story, AtMostOne
<1>8. \A i \in Named(q, "redeem") : \E m \in Named(q, "issue") : m < i
  BY <1>1, <1>3, <1>4, <1>5
<1> HIDE DEF q
<1>9. Story(q, "redeemed", ev)
  BY <1>2, <1>6, <1>7, <1>8 DEF Story
<1> QED  BY <1>9 DEF q

\* A correction of anything that is not reversed yet.
LEMMA StoryReverses ==
    ASSUME NEW tr \in Seq(Op), NEW status, NEW ev, status # "reversed",
           Story(tr, status, ev), NEW o \in Op, o.op = "reverse"
    PROVE  Story(Append(tr, o), "reversed", ev)
<1> DEFINE q == Append(tr, o)
<1>1. Named(q, "issue") = Named(tr, "issue")
  BY NamedOther, o.op # "issue"
<1>2. Named(q, "redeem") = Named(tr, "redeem")
  BY NamedOther, o.op # "redeem"
<1>3. Named(q, "reverse") = {Len(tr) + 1}
  BY NamedOwn DEF Story
<1>4. q # <<>> /\ "reversed" = StatusOf(q[Len(q)].op)
  BY LastAppended DEF StatusOf
<1>5. AtMostOne(Named(q, "reverse"))
  BY <1>3 DEF AtMostOne
<1>6. /\ AtMostOne(Named(q, "issue")) /\ AtMostOne(Named(q, "redeem"))
      /\ (ev # "") <=> Named(q, "issue") # {}
      /\ \A i \in Named(q, "redeem") : \E j \in Named(q, "issue") : j < i
  BY <1>1, <1>2 DEF Story
<1> HIDE DEF q
<1>7. Story(q, "reversed", ev)
  BY <1>4, <1>5, <1>6 DEF Story
<1> QED  BY <1>7 DEF q

\* Posting one operation appends it; posting a fulfilled grant appends two.
LEMMA PostOne ==
    ASSUME NEW tr \in Seq(Op), NEW o \in Op
    PROVE  tr \o <<o>> = Append(tr, o)
OBVIOUS

\* The operations of a grant that is fulfilled on the spot, one after the other.
LEMMA PostTwo ==
    ASSUME NEW tr \in Seq(Op), NEW o \in Op, NEW p \in Op
    PROVE  tr \o <<o, p>> = Append(Append(tr, o), p)
OBVIOUS

\* A reservation that lapses in a sweep leaves every story true.
LEMMA StorySwept ==
    ASSUME TypeOK, StoryInv, NEW t \in RequestTimes
    PROVE  StoryOf(SweptRows(t), SweptTrail(t))
<1> DEFINE o == [op |-> "expire", event |-> NoEvent]
<1>1. SUFFICES ASSUME NEW k \in Keys
               PROVE  IF k \in DOMAIN SweptRows(t)
                      THEN Story(SweptTrail(t)[k], SweptRows(t)[k].status,
                                 SweptRows(t)[k].evidence)
                      ELSE SweptTrail(t)[k] = <<>>
  BY DEF StoryOf
<1>2. DOMAIN SweptRows(t) = DOMAIN rows
  BY DEF SweptRows
<1>3. CASE k \in DOMAIN rows /\ Due(k, t)
  <2>1. /\ rows[k].status = "reserved"
        /\ Story(trail[k], rows[k].status, rows[k].evidence)
    BY <1>3 DEF Due, StoryInv, StoryOf
  <2>2. Clean(trail[k]) /\ rows[k].evidence = ""
    BY <2>1, OpenIsClean
  <2>3. trail[k] \in Seq(Op) /\ o \in Op /\ rows[k] \in Row
    BY <1>3 DEF TypeOK, Op, OpNames
  <2>4. Story(Append(trail[k], o), StatusOf(o.op), "")
    BY <2>2, <2>3, StoryHolds
  <2>5. /\ SweptTrail(t)[k] = Append(trail[k], o)
        /\ SweptRows(t)[k].status = "expired" /\ SweptRows(t)[k].evidence = ""
    BY <1>3, <2>2, <2>3 DEF SweptTrail, SweptRows, Row
  <2> QED  BY <1>2, <1>3, <2>4, <2>5 DEF StatusOf
<1>4. CASE k \in DOMAIN rows /\ ~ Due(k, t)
  <2>1. SweptRows(t)[k] = rows[k] /\ SweptTrail(t)[k] = trail[k]
    BY <1>4 DEF SweptRows, SweptTrail
  <2> QED  BY <1>2, <1>4, <2>1 DEF StoryInv, StoryOf
<1>5. CASE k \notin DOMAIN rows
  <2>1. SweptTrail(t)[k] = <<>>
    BY <1>5 DEF SweptTrail, StoryInv, StoryOf
  <2> QED  BY <1>2, <1>5, <2>1
<1> QED  BY <1>3, <1>4, <1>5

\* A transaction that writes one row and posts its operations needs a look at
\* that row's story only.
LEMMA StoryPut ==
    ASSUME NEW rs, NEW tr \in [Keys -> Seq(Op)], StoryOf(rs, tr),
           NEW k \in Keys, NEW r, NEW ops,
           Story(tr[k] \o ops, r.status, r.evidence)
    PROVE  StoryOf(PutRow(rs, k, r), PostOps(tr, k, ops))
<1>1. SUFFICES ASSUME NEW x \in Keys
               PROVE  IF x \in DOMAIN PutRow(rs, k, r)
                      THEN Story(PostOps(tr, k, ops)[x], PutRow(rs, k, r)[x].status,
                                 PutRow(rs, k, r)[x].evidence)
                      ELSE PostOps(tr, k, ops)[x] = <<>>
  BY DEF StoryOf
<1>2. CASE x = k
  <2>1. /\ x \in DOMAIN PutRow(rs, k, r) /\ PutRow(rs, k, r)[x] = r
        /\ PostOps(tr, k, ops)[x] = tr[k] \o ops
    BY <1>2 DEF PutRow, PostOps
  <2> QED  BY <2>1
<1>3. CASE x # k
  <2>1. /\ x \in DOMAIN PutRow(rs, k, r) <=> x \in DOMAIN rs
        /\ x \in DOMAIN rs => PutRow(rs, k, r)[x] = rs[x]
        /\ PostOps(tr, k, ops)[x] = tr[x]
    BY <1>3 DEF PutRow, PostOps
  <2> QED  BY <2>1 DEF StoryOf
<1> QED  BY <1>2, <1>3

\* A grant of an open key, on the spot fulfilled or not.
LEMMA StoryGrants ==
    ASSUME NEW tr \in Seq(Op), Clean(tr), NEW e \in Events, NEW fulfil \in BOOLEAN,
           NEW ev, ev # ""
    PROVE  Story(tr \o IssueOps(e, fulfil), IssuedStatus(fulfil), ev)
<1> DEFINE i == [op |-> "issue", event |-> e]
           r == [op |-> "redeem", event |-> NoEvent]
<1>1. i \in Op /\ r \in Op /\ i.op = "issue" /\ r.op = "redeem"
  BY DEF Op, OpNames
<1> HIDE DEF i, r
<1>2. Story(Append(tr, i), "issued", ev)
  BY <1>1, StoryIssues
<1>3. CASE fulfil
  <2>1. Append(tr, i) \in Seq(Op)
    BY <1>1, LastAppended
  <2>2. Story(Append(Append(tr, i), r), "redeemed", ev)
    BY <1>1, <1>2, <2>1, StoryRedeems
  <2>3. IssueOps(e, fulfil) = <<i, r>> /\ IssuedStatus(fulfil) = "redeemed"
    BY <1>3 DEF IssueOps, IssuedStatus, i, r
  <2> QED  BY <1>1, <2>2, <2>3, PostTwo
<1>4. CASE ~ fulfil
  <2>1. IssueOps(e, fulfil) = <<i>> /\ IssuedStatus(fulfil) = "issued"
    BY <1>4 DEF IssueOps, IssuedStatus, i
  <2> QED  BY <1>1, <1>2, <2>1, PostOne
<1> QED  BY <1>3, <1>4

\* Before the first benefit every trail is empty.
LEMMA StoryInit == Init => StoryInv
BY DEF Init, StoryInv, StoryOf, Keys

\* Every transaction keeps every story true: it sweeps, and then continues the
\* story of the one benefit it is about.
LEMMA StoryStep == TypeOK /\ StoryInv /\ [Next]_vars => StoryInv'
<1> SUFFICES ASSUME TypeOK, StoryInv, [Next]_vars
             PROVE  StoryInv'
  OBVIOUS
<1>0. /\ trail \in [Keys -> Seq(Op)] /\ Keys = Keys'
      /\ \A k \in DOMAIN rows : k \in Keys /\ rows[k] \in Row
  BY DEF TypeOK
<1>1. ASSUME UNCHANGED <<rows, trail>>
      PROVE  StoryInv'
  BY <1>1 DEF StoryInv, StoryOf
<1>2. CASE InventoryNext \/ Tick \/ UNCHANGED vars
  BY <1>1, <1>2 DEF InventoryNext, Tick, vars, CreateRewardInventory,
     ReadInventoryStatus, WriteInventoryStatus
<1>3. ASSUME NEW rs, NEW tr \in [Keys -> Seq(Op)], StoryOf(rs, tr),
             NEW k \in Keys, NEW r, NEW ops,
             rows' = PutRow(rs, k, r), trail' = PostOps(tr, k, ops),
             Story(tr[k] \o ops, r.status, r.evidence)
      PROVE  StoryInv'
  <2>1. StoryOf(PutRow(rs, k, r), PostOps(tr, k, ops))
    BY <1>3, StoryPut
  <2> QED  BY <2>1, <1>3 DEF StoryInv, StoryOf
<1>4. ASSUME NEW t \in RequestTimes
      PROVE  /\ SweptTrail(t) \in [Keys -> Seq(Op)]
             /\ StoryOf(SweptRows(t), SweptTrail(t))
             /\ DOMAIN SweptRows(t) = DOMAIN rows
             /\ \A k \in DOMAIN rows : SweptRows(t)[k] \in Row
  BY SweepTyped, StorySwept
<1>5. ASSUME NEW k \in Keys, NEW t \in RequestTimes, k \notin DOMAIN rows
      PROVE  Clean(SweptTrail(t)[k]) /\ SweptTrail(t)[k] \in Seq(Op)
  <2>1. SweptTrail(t)[k] = <<>>
    BY <1>4, <1>5 DEF StoryOf
  <2> QED  BY <2>1, <1>4, EmptyIsClean
<1>6. ASSUME NEW k \in Keys, NEW t \in RequestTimes, k \in DOMAIN rows
      PROVE  /\ Story(SweptTrail(t)[k], SweptRows(t)[k].status, SweptRows(t)[k].evidence)
             /\ SweptRows(t)[k].status \in {"reserved", "expired"} =>
                   Clean(SweptTrail(t)[k]) /\ SweptRows(t)[k].evidence = ""
             /\ SweptTrail(t)[k] \in Seq(Op) /\ SweptRows(t)[k] \in Row
  <2>1. Story(SweptTrail(t)[k], SweptRows(t)[k].status, SweptRows(t)[k].evidence)
    BY <1>4, <1>6 DEF StoryOf
  <2> QED  BY <2>1, <1>4, <1>6, OpenIsClean
<1>7. ASSUME NEW e \in Events \cup {NoEvent}, NEW name \in OpNames
      PROVE  [op |-> name, event |-> e] \in Op
  BY DEF Op
<1>8. ASSUME NEW k \in Keys, NEW c \in Campaigns, NEW v \in Versions, NEW e \in Events,
             NEW ttl \in TTLs, NEW t \in RequestTimes, ReserveNew(k, c, v, e, ttl, t)
      PROVE  StoryInv'
  <2> DEFINE b == PickInventory(c, Slot(k), v)
             r == NewReservedBenefit(c, b, t + ttl, AllocatedCode(b))
             o == [op |-> "reserve", event |-> e]
  <2>1. /\ k \notin DOMAIN rows /\ rows' = PutRow(SweptRows(t), k, r)
        /\ trail' = PostOps(SweptTrail(t), k, <<o>>)
    BY <1>8 DEF ReserveNew
  <2>2. o \in Op /\ o.op = "reserve" /\ StatusOf(o.op) = "reserved"
    BY <1>7 DEF OpNames, StatusOf
  <2>3. r.status = "reserved" /\ r.evidence = ""
    BY DEF NewReservedBenefit
  <2> HIDE DEF r, o
  <2>4. Story(SweptTrail(t)[k] \o <<o>>, r.status, r.evidence)
    <3>1. Story(Append(SweptTrail(t)[k], o), StatusOf(o.op), "")
      BY <1>5, <2>1, <2>2, StoryHolds
    <3> QED  BY <1>5, <2>1, <2>2, <2>3, <3>1, PostOne
  <2> QED  BY <1>3, <1>4, <2>1, <2>4
<1>9. ASSUME NEW k \in Keys, NEW c \in Campaigns, NEW v \in Versions, NEW e \in Events,
             NEW ttl \in TTLs, NEW t \in RequestTimes, ReserveAgain(k, c, v, e, ttl, t)
      PROVE  StoryInv'
  <2> DEFINE r == [SweptRows(t)[k] EXCEPT !.status = "reserved", !.until = t + ttl]
             o == [op |-> "reserve", event |-> e]
  <2>1. /\ k \in DOMAIN rows /\ SweptRows(t)[k].status \in {"reserved", "expired"}
        /\ rows' = PutRow(SweptRows(t), k, r)
        /\ trail' = PostOps(SweptTrail(t), k, <<o>>)
    BY <1>9 DEF ReserveAgain, OpenStatuses
  <2>2. o \in Op /\ o.op = "reserve" /\ StatusOf(o.op) = "reserved"
    BY <1>7 DEF OpNames, StatusOf
  <2>3. r.status = "reserved" /\ r.evidence = ""
    BY <1>6, <2>1 DEF Row
  <2> HIDE DEF r, o
  <2>4. Story(SweptTrail(t)[k] \o <<o>>, r.status, r.evidence)
    <3>1. Story(Append(SweptTrail(t)[k], o), StatusOf(o.op), "")
      BY <1>6, <2>1, <2>2, StoryHolds
    <3> QED  BY <1>6, <2>1, <2>2, <2>3, <3>1, PostOne
  <2> QED  BY <1>3, <1>4, <2>1, <2>4
<1>10. ASSUME NEW k \in Keys, NEW c \in Campaigns, NEW v \in Versions, NEW e \in Events,
              NEW ev \in Evidences, NEW f \in Facts, NEW store \in Stores,
              NEW fulfil \in BOOLEAN, NEW t \in RequestTimes,
              ConfirmNew(k, c, v, e, ev, f, store, fulfil, t)
       PROVE  StoryInv'
  <2> DEFINE b == PickInventory(c, Slot(k), v)
             r == [NewReservedBenefit(c, b, NoTTL, AllocatedCode(b))
                     EXCEPT !.status = IssuedStatus(fulfil), !.evidence = ev]
  <2>1. /\ k \notin DOMAIN rows /\ rows' = PutRow(SweptRows(t), k, r)
        /\ trail' = PostOps(SweptTrail(t), k, IssueOps(e, fulfil))
    BY <1>10 DEF ConfirmNew
  <2>2. r.status = IssuedStatus(fulfil) /\ r.evidence = ev /\ ev # ""
    BY DEF NewReservedBenefit, Evidences
  <2> HIDE DEF r
  <2>3. Story(SweptTrail(t)[k] \o IssueOps(e, fulfil), r.status, r.evidence)
    BY <1>5, <2>1, <2>2, StoryGrants
  <2> QED  BY <1>3, <1>4, <2>1, <2>3
<1>11. ASSUME NEW k \in Keys, NEW c \in Campaigns, NEW v \in Versions, NEW e \in Events,
              NEW ev \in Evidences, NEW f \in Facts, NEW store \in Stores,
              NEW fulfil \in BOOLEAN, NEW t \in RequestTimes,
              ConfirmExisting(k, c, v, e, ev, f, store, fulfil, t)
       PROVE  StoryInv'
  <2> DEFINE r == [SweptRows(t)[k] EXCEPT !.status = IssuedStatus(fulfil), !.evidence = ev]
  <2>1. /\ k \in DOMAIN rows /\ SweptRows(t)[k].status \in {"reserved", "expired"}
        /\ rows' = PutRow(SweptRows(t), k, r)
        /\ trail' = PostOps(SweptTrail(t), k, IssueOps(e, fulfil))
    BY <1>11 DEF ConfirmExisting, OpenStatuses
  <2>2. r.status = IssuedStatus(fulfil) /\ r.evidence = ev /\ ev # ""
    BY <1>6, <2>1 DEF Row, Evidences
  <2> HIDE DEF r
  <2>3. Story(SweptTrail(t)[k] \o IssueOps(e, fulfil), r.status, r.evidence)
    BY <1>6, <2>1, <2>2, StoryGrants
  <2> QED  BY <1>3, <1>4, <2>1, <2>3
<1>12. ASSUME NEW k \in Keys, NEW e \in Events, NEW t \in RequestTimes,
              RedeemRewardBenefit(k, e, t)
       PROVE  StoryInv'
  <2> DEFINE r == [SweptRows(t)[k] EXCEPT !.status = "redeemed"]
             o == [op |-> "redeem", event |-> e]
  <2>1. /\ k \in DOMAIN rows /\ rows[k].status = "issued"
        /\ rows' = PutRow(SweptRows(t), k, r)
        /\ trail' = PostOps(SweptTrail(t), k, <<o>>)
    BY <1>12 DEF RedeemRewardBenefit
  <2>2. SweptRows(t)[k].status = "issued"
    BY <2>1 DEF SweptRows, Due
  <2>3. o \in Op /\ o.op = "redeem"
    BY <1>7 DEF OpNames
  <2>4. r.status = "redeemed" /\ r.evidence = SweptRows(t)[k].evidence
    BY <1>6, <2>1 DEF Row
  <2> HIDE DEF r, o
  <2>5. Story(SweptTrail(t)[k] \o <<o>>, r.status, r.evidence)
    <3>1. Story(Append(SweptTrail(t)[k], o), "redeemed", SweptRows(t)[k].evidence)
      BY <1>6, <2>1, <2>2, <2>3, StoryRedeems
    <3> QED  BY <1>6, <2>1, <2>3, <2>4, <3>1, PostOne
  <2> QED  BY <1>3, <1>4, <2>1, <2>5
<1>13. ASSUME NEW k \in Keys, NEW e \in Events, ReverseRewardBenefit(k, e)
       PROVE  StoryInv'
  <2> DEFINE r == [rows[k] EXCEPT !.status = "reversed"]
             o == [op |-> "reverse", event |-> e]
  <2>1. /\ k \in DOMAIN rows /\ rows[k].status # "reversed"
        /\ rows' = PutRow(rows, k, r) /\ trail' = PostOps(trail, k, <<o>>)
    BY <1>13 DEF ReverseRewardBenefit
  <2>2. Story(trail[k], rows[k].status, rows[k].evidence) /\ StoryOf(rows, trail)
    BY <2>1 DEF StoryInv, StoryOf
  <2>3. o \in Op /\ o.op = "reverse" /\ trail[k] \in Seq(Op)
    BY <1>0, <1>7 DEF OpNames
  <2>4. r.status = "reversed" /\ r.evidence = rows[k].evidence
    BY <1>0, <2>1 DEF Row
  <2> HIDE DEF r, o
  <2>5. Story(trail[k] \o <<o>>, r.status, r.evidence)
    <3>1. Story(Append(trail[k], o), "reversed", rows[k].evidence)
      BY <2>1, <2>2, <2>3, StoryReverses
    <3> QED  BY <2>3, <2>4, <3>1, PostOne
  <2> QED  BY <1>0, <1>3, <2>1, <2>2, <2>5
<1>14. ASSUME NEW t \in RequestTimes, ExpireDueRewardReservations(t)
       PROVE  StoryInv'
  <2>1. StoryOf(SweptRows(t), SweptTrail(t))
    BY <1>4
  <2> QED  BY <1>14, <2>1 DEF ExpireDueRewardReservations, StoryInv, StoryOf
<1>15. CASE BenefitNext
  BY <1>8, <1>9, <1>10, <1>11, <1>12, <1>13, <1>14, <1>15
  DEF BenefitNext, ReserveRewardBenefit, ConfirmRewardBenefit
<1> QED  BY <1>2, <1>15 DEF Next

\* Every reachable trail tells a story: the inductive invariant behind the two
\* theorems below.
LEMMA LedgerStory == Spec => []StoryInv
<1>1. TypeOK /\ StoryInv /\ [Next]_vars => StoryInv'
  BY StoryStep
<1> QED  BY <1>1, StoryInit, LedgerTypeCorrect, PTL DEF Spec

\* Recomputing a benefit from its operations gives its row, in every
\* interleaving of reservations, grants, redemptions, corrections and sweeps.
THEOREM TrailIsTheBooks == Spec => []TrailAgreesWithStatus
<1>1. StoryInv => TrailAgreesWithStatus
  BY DEF StoryInv, StoryOf, Story, TrailAgreesWithStatus
<1> QED  BY <1>1, LedgerStory, PTL

\* However many participations, slots, batches and retries there are, a slot is
\* issued, redeemed and reversed at most once each.
THEOREM EverySlotGrantedOnce == Spec => []GrantedOnce
<1>1. StoryInv => GrantedOnce
  <2> SUFFICES ASSUME StoryInv, NEW k \in Keys
               PROVE  /\ \A name \in {"issue", "redeem", "reverse"} :
                            \A i, j \in Ops(k, name) : i = j
                      /\ \A i \in Ops(k, "redeem") : \E j \in Ops(k, "issue") : j < i
                      /\ k \in DOMAIN rows =>
                            (rows[k].evidence # "" <=> Ops(k, "issue") # {})
    BY DEF GrantedOnce
  <2>1. \A name : Ops(k, name) = Named(trail[k], name)
    BY DEF Ops, Named
  <2>2. CASE k \in DOMAIN rows
    <3>1. Story(trail[k], rows[k].status, rows[k].evidence)
      BY <2>2 DEF StoryInv, StoryOf
    <3> QED  BY <2>1, <3>1 DEF Story, AtMostOne
  <2>3. CASE k \notin DOMAIN rows
    <3>1. \A name : Named(trail[k], name) = {}
      BY <2>3 DEF StoryInv, StoryOf, Named
    <3> QED  BY <2>1, <2>3, <3>1
  <2> QED  BY <2>2, <2>3
<1> QED  BY <1>1, LedgerStory, PTL

-----------------------------------------------------------------------------
(***************************************************************************)
(* Grants, their evidence and the facts that pay for them.                 *)
(*                                                                         *)
(* OneGrantPerStep says what a step may do to the rows: nothing that       *)
(* counts, or exactly one grant, whose row, evidence and fact are written  *)
(* together.  EvidenceJustified and FactFundsOneBenefit are inductive      *)
(* beside TypeOK and StoryInv, which knows that a row that may still be    *)
(* granted has no evidence yet.                                            *)
(***************************************************************************)

\* A sweep changes the status of the rows that are due and no other column.
LEMMA SweptRow ==
    ASSUME TypeOK, NEW t \in RequestTimes, NEW k \in DOMAIN rows
    PROVE  /\ SweptRows(t)[k] \in Row
           /\ SweptRows(t)[k].campaign = rows[k].campaign
           /\ SweptRows(t)[k].batch = rows[k].batch
           /\ SweptRows(t)[k].code = rows[k].code
           /\ SweptRows(t)[k].evidence = rows[k].evidence
           /\ SweptRows(t)[k].status = IF Due(k, t) THEN "expired" ELSE rows[k].status
<1>1. rows[k] \in Row
  BY DEF TypeOK
<1>2. CASE Due(k, t)
  <2>1. SweptRows(t)[k] = [rows[k] EXCEPT !.status = "expired"]
    BY <1>2 DEF SweptRows
  <2>2. "expired" \in BenefitStatuses
    BY DEF BenefitStatuses
  <2> QED  BY <1>1, <1>2, <2>1, <2>2, StatusUpdate
<1>3. CASE ~ Due(k, t)
  BY <1>1, <1>3 DEF SweptRows
<1> QED  BY <1>2, <1>3

\* Only a held reservation is due.
LEMMA DueIsReserved ==
    ASSUME NEW t, NEW k, Due(k, t)
    PROVE  rows[k].status = "reserved"
BY DEF Due

\* A benefit row keeps what it was granted for, and a burnt one stays burnt.
Keeps(j) ==
    /\ j \in DOMAIN rows'
    /\ rows'[j].campaign = rows[j].campaign
    /\ rows'[j].batch = rows[j].batch
    /\ rows'[j].code = rows[j].code
    /\ rows'[j].evidence = rows[j].evidence
    /\ rows[j].status = "reversed" => rows'[j].status = "reversed"

\* A step that grants nothing: every row keeps its facts, new ones have none.
GrantsNothing ==
    /\ factOwner' = factOwner
    /\ \A j \in DOMAIN rows : Keeps(j)
    /\ \A j \in DOMAIN rows' \ DOMAIN rows : rows'[j].evidence = ""

\* A grant of k under campaign c on evidence ev, admitted by batch b and, when
\* it is official, paid for with the fact f, bound to the id o of that key.
Grants(k, c, ev, b, f, o) ==
    /\ DOMAIN rows' = DOMAIN rows \cup {k}
    /\ \A j \in DOMAIN rows \ {k} : Keeps(j)
    /\ k \in DOMAIN rows => /\ rows[k].campaign = c
                            /\ rows[k].evidence = ""
                            /\ rows[k].status # "reversed"
                            /\ rows'[k].batch = rows[k].batch
                            /\ rows'[k].code = rows[k].code
    /\ rows'[k].campaign = c /\ rows'[k].evidence = ev
    /\ batches[b].campaign = c /\ batches[b].slot = Slot(k) /\ ev \in batches[b].allowed
    /\ o.key = k
    /\ ev = Official => FactCampaign[f] = c
    /\ IF ev = Official
       THEN factOwner[f] = NoOwner /\ factOwner' = [factOwner EXCEPT ![f] = o]
       ELSE factOwner' = factOwner

\* Sweeping and writing back one row under its own facts grants nothing.
LEMMA RewriteGrantsNothing ==
    ASSUME TypeOK, NEW t \in RequestTimes, NEW k \in DOMAIN rows, NEW r,
           r.campaign = rows[k].campaign, r.batch = rows[k].batch,
           r.code = rows[k].code, r.evidence = rows[k].evidence,
           rows[k].status # "reversed",
           rows' = PutRow(SweptRows(t), k, r), factOwner' = factOwner
    PROVE  GrantsNothing
<1>1. DOMAIN SweptRows(t) = DOMAIN rows
  BY DEF SweptRows
<1>2. DOMAIN rows' = DOMAIN rows /\ rows'[k] = r
  BY <1>1 DEF PutRow
<1>3. ASSUME NEW j \in DOMAIN rows PROVE Keeps(j)
  <2>1. CASE j = k
    BY <1>2, <2>1 DEF Keeps
  <2>2. CASE j # k
    <3>1. rows'[j] = SweptRows(t)[j]
      BY <1>1, <2>2 DEF PutRow
    <3> QED  BY <1>2, <3>1, SweptRow, DueIsReserved DEF Keeps
  <2> QED  BY <2>1, <2>2
<1> QED  BY <1>2, <1>3 DEF GrantsNothing

\* What a row that is written says of the others: they are swept, no more.
LEMMA OthersKeep ==
    ASSUME TypeOK, NEW t \in RequestTimes, NEW k, NEW r,
           rows' = PutRow(SweptRows(t), k, r), NEW j \in DOMAIN rows \ {k}
    PROVE  Keeps(j)
<1>1. DOMAIN SweptRows(t) = DOMAIN rows
  BY DEF SweptRows
<1>2. j \in DOMAIN rows' /\ rows'[j] = SweptRows(t)[j]
  BY <1>1 DEF PutRow
<1> QED  BY <1>2, SweptRow, DueIsReserved DEF Keeps

\* Every step either grants nothing or is one grant: the fact, the evidence and
\* the row of a grant are written together.
LEMMA OneGrantPerStep ==
    ASSUME TypeOK, StoryInv, [Next]_vars
    PROVE  \/ GrantsNothing
           \/ \E k \in Keys, c \in Campaigns, ev \in Evidences, b \in Batches, f \in Facts :
                \E o \in Owners : Grants(k, c, ev, b, f, o)
<1>0. \A k \in DOMAIN rows : k \in Keys /\ rows[k] \in Row
  BY DEF TypeOK
<1>1. CASE InventoryNext \/ Tick \/ UNCHANGED vars
  <2>1. rows' = rows /\ factOwner' = factOwner
    BY <1>1 DEF InventoryNext, Tick, vars, CreateRewardInventory,
       ReadInventoryStatus, WriteInventoryStatus
  <2> QED  BY <2>1 DEF GrantsNothing, Keeps
<1>2. ASSUME NEW t \in RequestTimes, ExpireDueRewardReservations(t)
      PROVE  GrantsNothing
  <2>1. rows' = SweptRows(t) /\ factOwner' = factOwner /\ DOMAIN rows' = DOMAIN rows
    BY <1>2 DEF ExpireDueRewardReservations, SweptRows
  <2> QED  BY <2>1, SweptRow, DueIsReserved DEF GrantsNothing, Keeps
<1>3. ASSUME NEW k \in Keys, NEW e \in Events, ReverseRewardBenefit(k, e)
      PROVE  GrantsNothing
  <2>1. PICK r : r = [rows[k] EXCEPT !.status = "reversed"]
    OBVIOUS
  <2>2. k \in DOMAIN rows /\ rows' = PutRow(rows, k, r) /\ factOwner' = factOwner
    BY <1>3, <2>1 DEF ReverseRewardBenefit
  <2>3. "reversed" \in BenefitStatuses /\ rows[k] \in Row
    BY <1>0, <2>2 DEF BenefitStatuses
  <2>4. /\ r.status = "reversed" /\ r.campaign = rows[k].campaign
        /\ r.batch = rows[k].batch /\ r.code = rows[k].code
        /\ r.evidence = rows[k].evidence
    BY <2>1, <2>3, StatusUpdate
  <2>5. /\ DOMAIN rows' = DOMAIN rows /\ rows'[k] = r
        /\ \A j \in DOMAIN rows \ {k} : rows'[j] = rows[j]
    BY <2>2 DEF PutRow
  <2> QED  BY <2>2, <2>4, <2>5 DEF GrantsNothing, Keeps
<1>4. ASSUME NEW k \in Keys, NEW e \in Events, NEW t \in RequestTimes,
             RedeemRewardBenefit(k, e, t)
      PROVE  GrantsNothing
  <2>1. PICK r : r = [SweptRows(t)[k] EXCEPT !.status = "redeemed"]
    OBVIOUS
  <2>2. /\ k \in DOMAIN rows /\ rows[k].status = "issued"
        /\ rows' = PutRow(SweptRows(t), k, r) /\ factOwner' = factOwner
    BY <1>4, <2>1 DEF RedeemRewardBenefit
  <2>3. SweptRows(t)[k] \in Row /\ "redeemed" \in BenefitStatuses
    BY <2>2, SweptRow DEF BenefitStatuses
  <2>4. /\ r.campaign = rows[k].campaign /\ r.batch = rows[k].batch
        /\ r.code = rows[k].code /\ r.evidence = rows[k].evidence
    BY <2>1, <2>2, <2>3, StatusUpdate, SweptRow
  <2> QED  BY <2>2, <2>4, RewriteGrantsNothing
<1>5. ASSUME NEW k \in Keys, NEW c \in Campaigns, NEW v \in Versions, NEW e \in Events,
             NEW ttl \in TTLs, NEW t \in RequestTimes, ReserveNew(k, c, v, e, ttl, t)
      PROVE  GrantsNothing
  <2>1. PICK b : b = PickInventory(c, Slot(k), v)
    OBVIOUS
  <2>2. PICK r : r = NewReservedBenefit(c, b, t + ttl, AllocatedCode(b))
    OBVIOUS
  <2>3. k \notin DOMAIN rows /\ rows' = PutRow(SweptRows(t), k, r) /\ factOwner' = factOwner
    BY <1>5, <2>1, <2>2 DEF ReserveNew
  <2>4. DOMAIN SweptRows(t) = DOMAIN rows
    BY DEF SweptRows
  <2>5. rows'[k] = r /\ DOMAIN rows' = DOMAIN rows \cup {k} /\ r.evidence = ""
    BY <2>2, <2>3, <2>4 DEF NewReservedBenefit, PutRow
  <2>6. \A j \in DOMAIN rows : Keeps(j)
    BY <2>3, OthersKeep
  <2> QED  BY <2>3, <2>5, <2>6 DEF GrantsNothing
<1>6. ASSUME NEW k \in Keys, NEW c \in Campaigns, NEW v \in Versions, NEW e \in Events,
             NEW ttl \in TTLs, NEW t \in RequestTimes, ReserveAgain(k, c, v, e, ttl, t)
      PROVE  GrantsNothing
  <2>1. PICK r : r = [SweptRows(t)[k] EXCEPT !.status = "reserved", !.until = t + ttl]
    OBVIOUS
  <2>2. /\ k \in DOMAIN rows /\ SweptRows(t)[k].status \in {"reserved", "expired"}
        /\ rows' = PutRow(SweptRows(t), k, r) /\ factOwner' = factOwner
    BY <1>6, <2>1 DEF ReserveAgain, OpenStatuses
  <2>3. SweptRows(t)[k] \in Row /\ t + ttl \in Nat
    BY <2>2, SweptRow, InputsAssumption DEF RequestTimes, TypeOK
  <2>4. /\ r.campaign = rows[k].campaign /\ r.batch = rows[k].batch
        /\ r.code = rows[k].code /\ r.evidence = rows[k].evidence
    <3>1. /\ r.campaign = SweptRows(t)[k].campaign /\ r.batch = SweptRows(t)[k].batch
          /\ r.code = SweptRows(t)[k].code /\ r.evidence = SweptRows(t)[k].evidence
      BY <2>1, <2>3, HoldUpdate
    <3> QED  BY <2>2, <3>1, SweptRow
  <2>5. rows[k].status # "reversed"
    BY <2>2, SweptRow, DueIsReserved
  <2> QED  BY <2>2, <2>4, <2>5, RewriteGrantsNothing
<1>7. ASSUME NEW k \in Keys, NEW c \in Campaigns, NEW v \in Versions, NEW e \in Events,
             NEW ev \in Evidences, NEW f \in Facts, NEW store \in Stores,
             NEW fulfil \in BOOLEAN, NEW t \in RequestTimes,
             ConfirmRewardBenefit(k, c, v, e, ev, f, store, fulfil, t)
      PROVE  \E b \in Batches, o \in Owners : Grants(k, c, ev, b, f, o)
  <2>1. PICK b : b = PickInventory(c, Slot(k), v)
    OBVIOUS
  <2>2. b \in Candidates(c, Slot(k), v)
    BY <1>7, <2>1, Picked DEF ConfirmRewardBenefit, ConfirmNew, ConfirmExisting, Admits
  <2>3. /\ b \in Batches /\ batches[b].campaign = c /\ batches[b].slot = Slot(k)
        /\ ev \in batches[b].allowed /\ (ev = Official => FactCampaign[f] = c)
    BY <1>7, <2>1, <2>2
       DEF ConfirmRewardBenefit, ConfirmNew, ConfirmExisting, Adjudicated, Candidates
  <2>4. IssuedStatus(fulfil) \in BenefitStatuses
    BY DEF IssuedStatus, BenefitStatuses
  <2>5. DOMAIN SweptRows(t) = DOMAIN rows
    BY DEF SweptRows
  <2>6. CASE ConfirmNew(k, c, v, e, ev, f, store, fulfil, t)
    <3>1. PICK r : r = [NewReservedBenefit(c, b, NoTTL, AllocatedCode(b))
                          EXCEPT !.status = IssuedStatus(fulfil), !.evidence = ev]
      OBVIOUS
    <3>2. /\ k \notin DOMAIN rows /\ rows' = PutRow(SweptRows(t), k, r)
          /\ ClaimOfficialFact(ev, f, StagingId(k))
      BY <2>1, <2>6, <3>1 DEF ConfirmNew
    <3>3. r.campaign = c /\ r.evidence = ev
      BY <3>1 DEF NewReservedBenefit
    <3>4. StagingId(k) \in Owners /\ StagingId(k).key = k
      BY KeyIds DEF StagingId
    <3>5. \A j \in DOMAIN rows \ {k} : Keeps(j)
      BY <3>2, OthersKeep
    <3>6. rows'[k] = r /\ DOMAIN rows' = DOMAIN rows \cup {k}
      BY <2>5, <3>2 DEF PutRow
    <3>7. Grants(k, c, ev, b, f, StagingId(k))
      BY <2>3, <3>2, <3>3, <3>4, <3>5, <3>6 DEF Grants, ClaimOfficialFact
    <3> QED  BY <2>3, <3>4, <3>7
  <2>7. CASE ConfirmExisting(k, c, v, e, ev, f, store, fulfil, t)
    <3>1. PICK q : q = SweptRows(t)[k]
      OBVIOUS
    <3>2. PICK r : r = [q EXCEPT !.status = IssuedStatus(fulfil), !.evidence = ev]
      OBVIOUS
    <3>3. /\ k \in DOMAIN rows /\ rows' = PutRow(SweptRows(t), k, r)
          /\ rows[k].campaign = c /\ q.status \in {"reserved", "expired"}
          /\ ClaimOfficialFact(ev, f, RowId(k))
      BY <2>7, <3>1, <3>2 DEF ConfirmExisting, OpenStatuses
    <3>4. /\ q \in Row /\ q.campaign = rows[k].campaign /\ q.batch = rows[k].batch
          /\ q.code = rows[k].code /\ q.evidence = rows[k].evidence
          /\ rows[k].status \in {"reserved", "expired"}
      BY <3>1, <3>3, SweptRow, DueIsReserved
    <3>5. r.campaign = c /\ r.evidence = ev /\ r.batch = rows[k].batch /\ r.code = rows[k].code
      BY <3>2, <3>3, <3>4 DEF Row
    <3>6. rows[k].evidence = ""
      <4>1. Story(trail[k], rows[k].status, rows[k].evidence)
        BY <3>3 DEF StoryInv, StoryOf
      <4> QED  BY <3>4, <4>1, OpenIsClean
    <3>7. RowId(k) \in Owners /\ RowId(k).key = k
      BY KeyIds DEF RowId
    <3>8. \A j \in DOMAIN rows \ {k} : Keeps(j)
      BY <3>3, OthersKeep
    <3>9. rows'[k] = r /\ DOMAIN rows' = DOMAIN rows \cup {k}
      BY <2>5, <3>3 DEF PutRow
    <3>10. Grants(k, c, ev, b, f, RowId(k))
      BY <2>3, <3>3, <3>4, <3>5, <3>6, <3>7, <3>8, <3>9 DEF Grants, ClaimOfficialFact
    <3> QED  BY <2>3, <3>7, <3>10
  <2> QED  BY <1>7, <2>6, <2>7 DEF ConfirmRewardBenefit
<1>8. CASE BenefitNext
  BY <1>2, <1>3, <1>4, <1>5, <1>6, <1>7, <1>8 DEF BenefitNext, ReserveRewardBenefit
<1> QED  BY <1>1, <1>8 DEF Next

\* Batches are only ever added, and their terms never change.
LEMMA BatchesStay ==
    ASSUME TypeOK, [Next]_vars, NEW b \in Batches
    PROVE  b \in Batches' /\ batches'[b] = batches[b]
<1>1. CASE \E in \in BatchInputs : CreateRewardInventory(in)
  BY <1>1 DEF CreateRewardInventory, Batches, TypeOK
<1>2. CASE batches' = batches
  BY <1>2 DEF Batches
<1>3. ASSUME Tick \/ UNCHANGED vars PROVE batches' = batches
  BY <1>3 DEF Tick, vars
<1>4. ASSUME BenefitNext PROVE batches' = batches
  <2>1. \A k, c, v, e, ttl, t : ReserveRewardBenefit(k, c, v, e, ttl, t) => batches' = batches
    BY DEF ReserveRewardBenefit, ReserveNew, ReserveAgain
  <2>2. \A k, c, v, e, ev, f, store, fulfil, t :
           ConfirmRewardBenefit(k, c, v, e, ev, f, store, fulfil, t) => batches' = batches
    BY DEF ConfirmRewardBenefit, ConfirmNew, ConfirmExisting
  <2>3. \A k, e, t : RedeemRewardBenefit(k, e, t) => batches' = batches
    BY DEF RedeemRewardBenefit
  <2>4. \A k, e, t : \/ ReverseRewardBenefit(k, e) \/ ExpireDueRewardReservations(t)
                       => batches' = batches
    BY DEF ReverseRewardBenefit, ExpireDueRewardReservations
  <2> QED  BY <1>4, <2>1, <2>2, <2>3, <2>4 DEF BenefitNext
<1>5. ASSUME InventoryNext
      PROVE  \/ batches' = batches
             \/ \E in \in BatchInputs : CreateRewardInventory(in)
  BY <1>5 DEF InventoryNext, ReadInventoryStatus, WriteInventoryStatus
<1> QED  BY <1>1, <1>2, <1>3, <1>4, <1>5 DEF Next

\* What admits the evidence of one benefit.
Justified(k, row) ==
    row.evidence # "" =>
        \E b \in Batches : /\ batches[b].campaign = row.campaign
                           /\ batches[b].slot = Slot(k)
                           /\ row.evidence \in batches[b].allowed

\* A justification outlives the step, whatever is done to the batch.
LEMMA JustifiedStays ==
    ASSUME TypeOK, [Next]_vars, NEW k, NEW row, Justified(k, row)
    PROVE  row.evidence # "" =>
             \E b \in Batches' : /\ batches'[b].campaign = row.campaign
                                 /\ batches'[b].slot = Slot(k)
                                 /\ row.evidence \in batches'[b].allowed
<1> SUFFICES ASSUME row.evidence # ""
             PROVE  \E b \in Batches' : /\ batches'[b].campaign = row.campaign
                                        /\ batches'[b].slot = Slot(k)
                                        /\ row.evidence \in batches'[b].allowed
  OBVIOUS
<1>1. PICK b \in Batches : /\ batches[b].campaign = row.campaign
                           /\ batches[b].slot = Slot(k)
                           /\ row.evidence \in batches[b].allowed
  BY DEF Justified
<1>2. b \in Batches' /\ batches'[b] = batches[b]
  BY BatchesStay
<1> QED  BY <1>1, <1>2

\* No interleaving of status changes, refills and retries grants a benefit on
\* evidence that no batch of its campaign and slot accepts.
THEOREM EvidenceIsJustified == Spec => []EvidenceJustified
<1>1. Init => EvidenceJustified
  BY DEF Init, EvidenceJustified
<1>2. TypeOK /\ StoryInv /\ EvidenceJustified /\ [Next]_vars => EvidenceJustified'
  <2> SUFFICES ASSUME TypeOK, StoryInv, EvidenceJustified, [Next]_vars
               PROVE  EvidenceJustified'
    OBVIOUS
  <2>1. ASSUME NEW j \in DOMAIN rows PROVE Justified(j, rows[j])
    BY DEF EvidenceJustified, Justified
  <2> DEFINE Fine(j) == rows'[j].evidence # "" =>
                          \E b \in Batches' : /\ batches'[b].campaign = rows'[j].campaign
                                              /\ batches'[b].slot = Slot(j)
                                              /\ rows'[j].evidence \in batches'[b].allowed
  <2>2. ASSUME NEW j \in DOMAIN rows, Keeps(j) PROVE Fine(j)
    <3>1. PICK row : row = rows[j]
      OBVIOUS
    <3>2. rows'[j].evidence = row.evidence /\ rows'[j].campaign = row.campaign
      BY <2>2, <3>1 DEF Keeps
    <3>3. Justified(j, row)
      BY <2>1, <3>1
    <3>4. row.evidence # "" =>
            \E b \in Batches' : /\ batches'[b].campaign = row.campaign
                                /\ batches'[b].slot = Slot(j)
                                /\ row.evidence \in batches'[b].allowed
      BY <3>3, JustifiedStays
    <3> QED  BY <3>2, <3>4
  <2>3. CASE GrantsNothing
    <3>1. \A j \in DOMAIN rows' : Fine(j)
      BY <2>2, <2>3 DEF GrantsNothing
    <3> QED  BY <3>1 DEF EvidenceJustified
  <2>4. ASSUME NEW k \in Keys, NEW c \in Campaigns, NEW ev \in Evidences, NEW b \in Batches,
               NEW f \in Facts, NEW o \in Owners, Grants(k, c, ev, b, f, o)
        PROVE  EvidenceJustified'
    <3>1. Fine(k)
      <4>1. b \in Batches' /\ batches'[b] = batches[b]
        BY BatchesStay
      <4> QED  BY <2>4, <4>1 DEF Grants
    <3>2. \A j \in DOMAIN rows \ {k} : Fine(j)
      BY <2>2, <2>4 DEF Grants
    <3>3. DOMAIN rows' = DOMAIN rows \cup {k}
      BY <2>4 DEF Grants
    <3>4. \A j \in DOMAIN rows' : Fine(j)
      BY <3>1, <3>2, <3>3
    <3> QED  BY <3>4 DEF EvidenceJustified
  <2> QED  BY <2>3, <2>4, OneGrantPerStep
<1> QED  BY <1>1, <1>2, LedgerTypeCorrect, LedgerStory, PTL DEF Spec

\* One official fact pays for one official grant of its own campaign and never
\* for a second, also when grants of one key race, fail half-way and are retried
\* or when a benefit is reversed.
THEOREM OneFactOneGrant == Spec => []FactFundsOneBenefit
<1>1. Init => FactFundsOneBenefit
  BY DEF Init, FactFundsOneBenefit
<1>2. TypeOK /\ StoryInv /\ FactFundsOneBenefit /\ [Next]_vars => FactFundsOneBenefit'
  <2> SUFFICES ASSUME TypeOK, StoryInv, FactFundsOneBenefit, [Next]_vars
               PROVE  FactFundsOneBenefit'
    OBVIOUS
  <2>1. CASE GrantsNothing
    <3>1. factOwner' = factOwner /\ \A j \in DOMAIN rows : Keeps(j)
      BY <2>1 DEF GrantsNothing
    <3>2. \A f \in Facts : factOwner'[f] # NoOwner =>
             /\ factOwner'[f].key \in DOMAIN rows'
             /\ rows'[factOwner'[f].key].evidence = Official
             /\ rows'[factOwner'[f].key].campaign = FactCampaign[f]
      BY <3>1 DEF FactFundsOneBenefit, Keeps
    <3>3. \A j \in DOMAIN rows' : rows'[j].evidence = Official =>
             \E f \in Facts : Funds(f, j) /\ \A g \in Facts : Funds(g, j) => g = f
      BY <2>1, <3>1 DEF FactFundsOneBenefit, GrantsNothing, Keeps, Official
    <3> QED  BY <3>1, <3>2, <3>3 DEF FactFundsOneBenefit, Funds
  <2>2. ASSUME NEW k \in Keys, NEW c \in Campaigns, NEW ev \in Evidences, NEW b \in Batches,
               NEW f \in Facts, NEW o \in Owners, Grants(k, c, ev, b, f, o)
        PROVE  FactFundsOneBenefit'
    <3>1. /\ DOMAIN rows' = DOMAIN rows \cup {k} /\ rows'[k].evidence = ev
          /\ rows'[k].campaign = c /\ o.key = k
          /\ \A j \in DOMAIN rows \ {k} : Keeps(j)
          /\ k \in DOMAIN rows => rows[k].evidence = ""
      BY <2>2 DEF Grants
    <3>2. \A g \in Facts : ~ Funds(g, k)
      BY <3>1 DEF FactFundsOneBenefit, Funds, Official
    <3>3. ASSUME NEW g \in Facts, factOwner[g] # NoOwner
          PROVE  /\ factOwner[g].key \in DOMAIN rows' /\ factOwner[g].key # k
                 /\ rows'[factOwner[g].key].evidence = Official
                 /\ rows'[factOwner[g].key].campaign = FactCampaign[g]
      <4>1. factOwner[g].key \in DOMAIN rows \ {k}
        BY <3>2, <3>3 DEF FactFundsOneBenefit, Funds
      <4> QED  BY <3>1, <3>3, <4>1 DEF FactFundsOneBenefit, Keeps
    <3>4. CASE ev # Official
      <4>1. factOwner' = factOwner
        BY <2>2, <3>4 DEF Grants
      <4>2. \A j \in DOMAIN rows' : rows'[j].evidence = Official =>
               \E g \in Facts : Funds(g, j) /\ \A h \in Facts : Funds(h, j) => h = g
        BY <3>1, <3>4 DEF FactFundsOneBenefit, Keeps
      <4> QED  BY <3>3, <4>1, <4>2 DEF FactFundsOneBenefit, Funds
    <3>5. CASE ev = Official
      <4>1. /\ FactCampaign[f] = c /\ factOwner[f] = NoOwner
            /\ factOwner' = [factOwner EXCEPT ![f] = o]
        BY <2>2, <3>5 DEF Grants
      <4>2. o # NoOwner
        BY MarkersAssumption DEF Owners, Keys
      <4>3. factOwner'[f] = o /\ \A g \in Facts \ {f} : factOwner'[g] = factOwner[g]
        BY <4>1 DEF TypeOK
      <4>4. \A g \in Facts : factOwner'[g] # NoOwner =>
               /\ factOwner'[g].key \in DOMAIN rows'
               /\ rows'[factOwner'[g].key].evidence = Official
               /\ rows'[factOwner'[g].key].campaign = FactCampaign[g]
        BY <3>1, <3>3, <3>5, <4>1, <4>3
      <4>5. \A g \in Facts, j \in DOMAIN rows' :
               Funds(g, j)' <=> IF j = k THEN g = f ELSE Funds(g, j)
        BY <3>1, <3>2, <4>1, <4>2, <4>3 DEF Funds
      <4>6. ASSUME NEW j \in DOMAIN rows', rows'[j].evidence = Official
            PROVE  \E g \in Facts : Funds(g, j)' /\ \A h \in Facts : Funds(h, j)' => h = g
        <5>1. CASE j = k
          BY <4>5, <5>1
        <5>2. CASE j # k
          <6>1. j \in DOMAIN rows /\ rows[j].evidence = Official
            BY <3>1, <4>6, <5>2 DEF Keeps
          <6> QED  BY <4>5, <5>2, <6>1 DEF FactFundsOneBenefit
        <5> QED  BY <5>1, <5>2
      <4> QED  BY <4>4, <4>6 DEF FactFundsOneBenefit
    <3> QED  BY <3>4, <3>5
  <2> QED  BY <2>1, <2>2, OneGrantPerStep
<1> QED  BY <1>1, <1>2, LedgerTypeCorrect, LedgerStory, PTL DEF Spec

\* The original facts of a benefit survive every later step, a correction
\* included.
THEOREM GrantsAreNeverRewritten == Spec => FactsSurvive
<1>1. TypeOK /\ StoryInv /\ [Next]_vars =>
        [\A k \in DOMAIN rows :
           /\ k \in DOMAIN rows'
           /\ rows'[k].campaign = rows[k].campaign
           /\ rows'[k].batch = rows[k].batch
           /\ rows'[k].code = rows[k].code
           /\ rows[k].evidence # "" => rows'[k].evidence = rows[k].evidence
           /\ rows[k].status = "reversed" => rows'[k].status = "reversed"]_vars
  <2> SUFFICES ASSUME TypeOK, StoryInv, [Next]_vars, NEW k \in DOMAIN rows
               PROVE  /\ k \in DOMAIN rows'
                      /\ rows'[k].campaign = rows[k].campaign
                      /\ rows'[k].batch = rows[k].batch
                      /\ rows'[k].code = rows[k].code
                      /\ rows[k].evidence # "" => rows'[k].evidence = rows[k].evidence
                      /\ rows[k].status = "reversed" => rows'[k].status = "reversed"
    OBVIOUS
  <2>1. CASE Keeps(k)
    BY <2>1 DEF Keeps
  <2>2. ASSUME NEW j \in Keys, NEW c \in Campaigns, NEW ev \in Evidences, NEW b \in Batches,
               NEW f \in Facts, NEW o \in Owners, Grants(j, c, ev, b, f, o), ~ Keeps(k)
        PROVE  /\ k \in DOMAIN rows'
               /\ rows'[k].campaign = rows[k].campaign
               /\ rows'[k].batch = rows[k].batch
               /\ rows'[k].code = rows[k].code
               /\ rows[k].evidence = ""
               /\ rows[k].status # "reversed"
    BY <2>2 DEF Grants
  <2> QED  BY <2>1, <2>2, OneGrantPerStep DEF GrantsNothing
<1> QED  BY <1>1, LedgerTypeCorrect, LedgerStory, PTL DEF Spec, FactsSurvive

-----------------------------------------------------------------------------
(***************************************************************************)
(* A slot with one batch is never oversold.                                *)
(*                                                                         *)
(* Stock is counted in the transaction that promises, but of the batch     *)
(* that is picked: taking up a lapsed hold again occupies the hold's own   *)
(* batch, which need not be that one.  The two are the same batch when the *)
(* slot has only one, because a row never leaves its slot: this is the     *)
(* strengthening SlotsMatch.                                               *)
(***************************************************************************)
SlotsMatch == \A k \in DOMAIN rows : batches[rows[k].batch].slot = Slot(k)

Sole(b) == \A d \in Batches \ {b} : batches[d].slot # batches[b].slot

Fits(b) == Cardinality(Occupants(rows, b)) <= batches[b].total

\* Occupancy is counted over finitely many keys.
LEMMA KeysFinite == IsFiniteSet(Keys)
BY FinitenessAssumption, FS_Product DEF Keys

\* The occupants of a batch are finitely many.
LEMMA OccupantsFinite ==
    ASSUME NEW rs, DOMAIN rs \subseteq Keys, NEW b
    PROVE  /\ IsFiniteSet(Occupants(rs, b))
           /\ Cardinality(Occupants(rs, b)) \in Nat
<1>1. Occupants(rs, b) \subseteq Keys
  BY DEF Occupants
<1> QED  BY <1>1, KeysFinite, FS_Subset, FS_CardinalityType

\* Fewer occupants count for no more.
LEMMA FewerOccupants ==
    ASSUME NEW rs, NEW qs, DOMAIN rs \subseteq Keys, NEW b,
           Occupants(qs, b) \subseteq Occupants(rs, b)
    PROVE  Cardinality(Occupants(qs, b)) <= Cardinality(Occupants(rs, b))
BY OccupantsFinite, FS_Subset

\* A batch's quantity is a natural number.
LEMMA TotalTyped ==
    ASSUME TypeOK, NEW b \in Batches
    PROVE  batches[b].total \in Nat
BY InputsAssumption DEF TypeOK, Batches, BatchInput

\* A sweep frees stock and never takes any.
LEMMA SweepFrees ==
    ASSUME TypeOK, NEW t \in RequestTimes, NEW b
    PROVE  /\ Occupants(SweptRows(t), b) \subseteq Occupants(rows, b)
           /\ DOMAIN SweptRows(t) \subseteq Keys /\ DOMAIN rows \subseteq Keys
BY SweptRow, DueIsReserved DEF Occupants, OccupiedStatuses, SweptRows, TypeOK

\* A swept transaction that writes the row of k keeps b within its quantity when
\* k was an occupant already, or b had stock.
LEMMA OccupancyStep ==
    ASSUME TypeOK, NEW t \in RequestTimes, NEW k \in Keys, NEW r,
           rows' = PutRow(SweptRows(t), k, r), NEW b \in Batches, Fits(b),
           r.batch = b => HasStock(SweptRows(t), b) \/ k \in Occupants(SweptRows(t), b)
    PROVE  Cardinality(Occupants(rows', b)) <= batches[b].total
<1>1. PICK rs : rs = SweptRows(t)
  OBVIOUS
<1>2. PICK qs : qs = PutRow(rs, k, r)
  OBVIOUS
<1>3. /\ Occupants(rs, b) \subseteq Occupants(rows, b)
      /\ DOMAIN rs \subseteq Keys /\ DOMAIN rows \subseteq Keys
  BY <1>1, SweepFrees
<1>4. rows' = qs
  BY <1>1, <1>2
<1>5. DOMAIN qs \subseteq Keys /\ Occupants(qs, b) \subseteq Occupants(rs, b) \cup {k}
  BY <1>2, <1>3 DEF Occupants, PutRow
<1>6. /\ IsFiniteSet(Occupants(rs, b)) /\ Cardinality(Occupants(rs, b)) \in Nat
      /\ Cardinality(Occupants(qs, b)) \in Nat /\ Cardinality(Occupants(rows, b)) \in Nat
      /\ batches[b].total \in Nat
  BY <1>3, <1>5, OccupantsFinite, TotalTyped
<1>7. Cardinality(Occupants(rs, b)) <= batches[b].total
  BY <1>3, <1>6, FewerOccupants DEF Fits
<1>8. CASE r.batch # b \/ k \in Occupants(rs, b)
  <2>1. Occupants(qs, b) \subseteq Occupants(rs, b)
    BY <1>2, <1>5, <1>8 DEF Occupants, PutRow
  <2> QED  BY <1>3, <1>4, <1>6, <1>7, <2>1, FewerOccupants
<1>9. CASE HasStock(rs, b)
  <2>1. /\ IsFiniteSet(Occupants(rs, b) \cup {k})
        /\ Cardinality(Occupants(rs, b) \cup {k}) \in Nat
        /\ Cardinality(Occupants(rs, b) \cup {k}) <= Cardinality(Occupants(rs, b)) + 1
    <3>1. PICK O : O = Occupants(rs, b)
      OBVIOUS
    <3>2. IsFiniteSet(O) /\ Cardinality(O) \in Nat
      BY <1>6, <3>1
    <3>3. /\ IsFiniteSet(O \cup {k})
          /\ Cardinality(O \cup {k}) = IF k \in O THEN Cardinality(O) ELSE Cardinality(O) + 1
      BY <3>2, FS_AddElement
    <3> QED  BY <3>1, <3>2, <3>3
  <2>2. Cardinality(Occupants(qs, b)) <= Cardinality(Occupants(rs, b) \cup {k})
    BY <1>5, <2>1, FS_Subset
  <2>3. Cardinality(Occupants(rs, b)) < batches[b].total
    BY <1>9 DEF HasStock
  <2> QED  BY <1>4, <1>6, <2>1, <2>2, <2>3
<1> QED  BY <1>1, <1>8, <1>9

\* What the proof carries from state to state: every row is of its batch's slot,
\* and the only batch of a slot is within its quantity.
StockInv == SlotsMatch /\ \A b \in Batches : Sole(b) => Fits(b)

\* A transaction on the row of k keeps the stock right when it writes a batch of
\* k's slot, and one that has stock unless k occupied it already.
LEMMA StockAfterPut ==
    ASSUME TypeOK, StockInv, NEW t \in RequestTimes, NEW k \in Keys, NEW r,
           rows' = PutRow(SweptRows(t), k, r), batches' = batches,
           batches[r.batch].slot = Slot(k),
           Sole(r.batch) =>
              HasStock(SweptRows(t), r.batch) \/ k \in Occupants(SweptRows(t), r.batch)
    PROVE  StockInv'
<1>1. SlotsMatch'
  <2>1. \A j \in DOMAIN rows : SweptRows(t)[j].batch = rows[j].batch
    BY SweptRow
  <2>2. DOMAIN SweptRows(t) = DOMAIN rows
    BY DEF SweptRows
  <2>3. \A j \in DOMAIN rows' : batches[rows'[j].batch].slot = Slot(j)
    BY <2>1, <2>2 DEF PutRow, StockInv, SlotsMatch
  <2> QED  BY <2>3 DEF SlotsMatch
<1>2. ASSUME NEW b \in Batches', Sole(b)' PROVE Fits(b)'
  <2>1. b \in Batches /\ Sole(b) /\ Fits(b)
    BY <1>2 DEF Batches, Sole, StockInv
  <2>2. r.batch = b => HasStock(SweptRows(t), b) \/ k \in Occupants(SweptRows(t), b)
    BY <2>1
  <2>3. Cardinality(Occupants(rows', b)) <= batches[b].total
    BY <2>1, <2>2, OccupancyStep
  <2> QED  BY <2>3 DEF Fits, Occupants
<1> QED  BY <1>1, <1>2 DEF StockInv

\* The batch that is picked is of the slot, and it is the batch of a row of the
\* slot when the slot has no other.
LEMMA PickedOfSlot ==
    ASSUME TypeOK, StockInv, NEW c, NEW k \in Keys, NEW v, NEW b,
           b = PickInventory(c, Slot(k), v), Candidates(c, Slot(k), v) # {}
    PROVE  /\ b \in Batches /\ batches[b].slot = Slot(k)
           /\ k \in DOMAIN rows /\ Sole(rows[k].batch) => b = rows[k].batch
<1>1. b \in Batches /\ batches[b].slot = Slot(k)
  BY Picked DEF Candidates
<1>2. ASSUME k \in DOMAIN rows, Sole(rows[k].batch), b # rows[k].batch PROVE FALSE
  BY <1>1, <1>2 DEF StockInv, SlotsMatch, Sole
<1> QED  BY <1>1, <1>2

\* A row that is taken up again occupies what it occupied, or stock its slot's
\* only batch has.
LEMMA TakenUpFits ==
    ASSUME TypeOK, StockInv, NEW t \in RequestTimes, NEW k \in DOMAIN rows, NEW b,
           SweptRows(t)[k].status \in {"reserved", "expired"},
           SweptRows(t)[k].status = "expired" => HasStock(SweptRows(t), b),
           Sole(rows[k].batch) => b = rows[k].batch
    PROVE  Sole(rows[k].batch) =>
              \/ HasStock(SweptRows(t), rows[k].batch)
              \/ k \in Occupants(SweptRows(t), rows[k].batch)
<1>1. k \in DOMAIN SweptRows(t) /\ SweptRows(t)[k].batch = rows[k].batch
  BY SweptRow DEF SweptRows
<1> QED  BY <1>1 DEF Occupants, OccupiedStatuses

\* No step oversells the only batch of a slot, or moves a row out of its slot.
LEMMA StockStep ==
    ASSUME TypeOK, StockInv, [Next]_vars
    PROVE  StockInv'
<1>0. \A k \in DOMAIN rows : /\ k \in Keys /\ rows[k] \in Row /\ rows[k].batch \in Batches
                             /\ batches[rows[k].batch].slot = Slot(k)
  BY DEF TypeOK, StockInv, SlotsMatch
<1>1. ASSUME UNCHANGED <<rows, batches>> PROVE StockInv'
  BY <1>1 DEF StockInv, SlotsMatch, Sole, Fits, Occupants, Batches
<1>2. CASE Tick \/ UNCHANGED vars
  BY <1>1, <1>2 DEF Tick, vars
<1>3. CASE \E r \in Requests : \/ WriteInventoryStatus(r)
                             \/ \E b \in Batches, s \in BatchStatuses : ReadInventoryStatus(r, b, s)
  BY <1>1, <1>3 DEF WriteInventoryStatus, ReadInventoryStatus
<1>4. ASSUME NEW in \in BatchInputs, CreateRewardInventory(in) PROVE StockInv'
  <2>1. /\ rows' = rows /\ Len(batches) \in Nat /\ Len(batches') = Len(batches) + 1
        /\ batches'[Len(batches) + 1] = in /\ in.total >= 1
        /\ \A b \in Batches : b \in Batches' /\ batches'[b] = batches[b]
    BY <1>4 DEF CreateRewardInventory, TypeOK, Batches
  <2>2. SlotsMatch'
    BY <1>0, <2>1 DEF SlotsMatch
  <2>3. ASSUME NEW b \in Batches', Sole(b)' PROVE Fits(b)'
    <3>1. CASE b \in Batches
      <4>1. Sole(b)
        BY <2>1, <2>3, <3>1 DEF Sole
      <4>2. Fits(b)
        BY <3>1, <4>1 DEF StockInv
      <4> QED  BY <2>1, <3>1, <4>2 DEF Fits, Occupants
    <3>2. CASE b \notin Batches
      <4>1. b = Len(batches) + 1
        BY <2>1, <2>3, <3>2 DEF Batches
      <4>2. Occupants(rows', b) = {}
        BY <1>0, <2>1, <3>2 DEF Occupants
      <4>3. Cardinality(Occupants(rows', b)) = 0
        BY <4>2, FS_EmptySet
      <4>4. in.total \in Nat
        BY InputsAssumption DEF BatchInput
      <4>5. Cardinality(Occupants(rows', b)) <= batches'[b].total
        BY <2>1, <4>1, <4>3, <4>4
      <4> QED  BY <4>5 DEF Fits, Occupants
    <3> QED  BY <3>1, <3>2
  <2> QED  BY <2>2, <2>3 DEF StockInv
<1>5. ASSUME NEW rs, DOMAIN rs = DOMAIN rows, rows' = rs, batches' = batches,
             \A k \in DOMAIN rows : rs[k].batch = rows[k].batch,
             \A b \in Batches : Occupants(rs, b) \subseteq Occupants(rows, b)
      PROVE  StockInv'
  <2>1. SlotsMatch'
    BY <1>0, <1>5 DEF SlotsMatch
  <2>2. ASSUME NEW b \in Batches', Sole(b)' PROVE Fits(b)'
    <3>1. b \in Batches /\ Sole(b) /\ Fits(b)
      BY <1>5, <2>2 DEF Batches, Sole, StockInv
    <3>2. DOMAIN rows \subseteq Keys /\ DOMAIN rs \subseteq Keys
      BY <1>0, <1>5
    <3>3. Cardinality(Occupants(rs, b)) <= Cardinality(Occupants(rows, b))
      BY <1>5, <3>1, <3>2, FewerOccupants
    <3>4. /\ Cardinality(Occupants(rs, b)) \in Nat /\ Cardinality(Occupants(rows, b)) \in Nat
          /\ batches[b].total \in Nat
      BY <3>1, <3>2, OccupantsFinite, TotalTyped
    <3>5. Cardinality(Occupants(rs, b)) <= batches[b].total
      BY <3>1, <3>3, <3>4 DEF Fits
    <3> QED  BY <1>5, <3>5 DEF Fits, Occupants
  <2> QED  BY <2>1, <2>2 DEF StockInv
<1>6. ASSUME NEW t \in RequestTimes, ExpireDueRewardReservations(t) PROVE StockInv'
  <2>1. PICK rs : rs = SweptRows(t)
    OBVIOUS
  <2>2. rows' = rs /\ batches' = batches /\ DOMAIN rs = DOMAIN rows
    BY <1>6, <2>1 DEF ExpireDueRewardReservations, SweptRows
  <2>3. /\ \A k \in DOMAIN rows : rs[k].batch = rows[k].batch
        /\ \A b \in Batches : Occupants(rs, b) \subseteq Occupants(rows, b)
    BY <2>1, SweptRow, SweepFrees
  <2> QED  BY <1>5, <2>2, <2>3
<1>7. ASSUME NEW k \in Keys, NEW e \in Events, ReverseRewardBenefit(k, e) PROVE StockInv'
  <2>1. PICK r : r = [rows[k] EXCEPT !.status = "reversed"]
    OBVIOUS
  <2>2. PICK rs : rs = PutRow(rows, k, r)
    OBVIOUS
  <2>3. k \in DOMAIN rows /\ rows' = rs /\ batches' = batches
    BY <1>7, <2>1, <2>2 DEF ReverseRewardBenefit
  <2>4. "reversed" \in BenefitStatuses /\ rows[k] \in Row
    BY <1>0, <2>3 DEF BenefitStatuses
  <2>5. r.status = "reversed" /\ r.batch = rows[k].batch
    BY <2>1, <2>4, StatusUpdate
  <2>6. /\ DOMAIN rs = DOMAIN rows /\ rs[k] = r
        /\ \A j \in DOMAIN rows \ {k} : rs[j] = rows[j]
    BY <2>2, <2>3 DEF PutRow
  <2>7. /\ \A j \in DOMAIN rows : rs[j].batch = rows[j].batch
        /\ \A b \in Batches : Occupants(rs, b) \subseteq Occupants(rows, b)
    BY <2>5, <2>6 DEF Occupants, OccupiedStatuses
  <2> QED  BY <1>5, <2>3, <2>6, <2>7
<1>8. ASSUME NEW k \in Keys, NEW e \in Events, NEW t \in RequestTimes,
             RedeemRewardBenefit(k, e, t)
      PROVE  StockInv'
  <2>1. PICK r : r = [SweptRows(t)[k] EXCEPT !.status = "redeemed"]
    OBVIOUS
  <2>2. /\ k \in DOMAIN rows /\ rows[k].status = "issued" /\ batches' = batches
        /\ rows' = PutRow(SweptRows(t), k, r)
    BY <1>8, <2>1 DEF RedeemRewardBenefit
  <2>3. SweptRows(t)[k] \in Row /\ "redeemed" \in BenefitStatuses
    BY <2>2, SweptRow DEF BenefitStatuses
  <2>4. r.batch = rows[k].batch /\ SweptRows(t)[k].status = "issued"
    BY <2>1, <2>2, <2>3, StatusUpdate, SweptRow, DueIsReserved
  <2>5. k \in Occupants(SweptRows(t), r.batch)
    BY <2>2, <2>4, SweptRow DEF Occupants, OccupiedStatuses, SweptRows
  <2>6. batches[r.batch].slot = Slot(k)
    BY <1>0, <2>2, <2>4
  <2> QED  BY <2>2, <2>5, <2>6, StockAfterPut
<1>9. ASSUME NEW k \in Keys, NEW c \in Campaigns, NEW v \in Versions, NEW e \in Events,
             NEW ttl \in TTLs, NEW t \in RequestTimes, ReserveNew(k, c, v, e, ttl, t)
      PROVE  StockInv'
  <2>1. PICK b : b = PickInventory(c, Slot(k), v)
    OBVIOUS
  <2>2. PICK r : r = NewReservedBenefit(c, b, t + ttl, AllocatedCode(b))
    OBVIOUS
  <2>3. /\ rows' = PutRow(SweptRows(t), k, r) /\ batches' = batches
        /\ HasStock(SweptRows(t), b) /\ Candidates(c, Slot(k), v) # {}
    BY <1>9, <2>1, <2>2 DEF ReserveNew, Admits
  <2>4. r.batch = b /\ batches[b].slot = Slot(k)
    BY <2>1, <2>2, <2>3, PickedOfSlot DEF NewReservedBenefit
  <2> QED  BY <2>3, <2>4, StockAfterPut
<1>10. ASSUME NEW k \in Keys, NEW c \in Campaigns, NEW v \in Versions, NEW e \in Events,
              NEW ttl \in TTLs, NEW t \in RequestTimes, ReserveAgain(k, c, v, e, ttl, t)
       PROVE  StockInv'
  <2>1. PICK b : b = PickInventory(c, Slot(k), v)
    OBVIOUS
  <2>2. PICK r : r = [SweptRows(t)[k] EXCEPT !.status = "reserved", !.until = t + ttl]
    OBVIOUS
  <2>3. /\ k \in DOMAIN rows /\ SweptRows(t)[k].status \in {"reserved", "expired"}
        /\ SweptRows(t)[k].status = "expired" => HasStock(SweptRows(t), b)
        /\ rows' = PutRow(SweptRows(t), k, r) /\ batches' = batches
        /\ Candidates(c, Slot(k), v) # {}
    BY <1>10, <2>1, <2>2 DEF ReserveAgain, OpenStatuses, Admits
  <2>4. Sole(rows[k].batch) => b = rows[k].batch
    BY <2>1, <2>3, PickedOfSlot
  <2>5. Sole(rows[k].batch) =>
           \/ HasStock(SweptRows(t), rows[k].batch)
           \/ k \in Occupants(SweptRows(t), rows[k].batch)
    BY <2>3, <2>4, TakenUpFits
  <2>6. r.batch = rows[k].batch
    <3>1. SweptRows(t)[k] \in Row /\ SweptRows(t)[k].batch = rows[k].batch
      BY <2>3, SweptRow
    <3> QED  BY <2>2, <3>1 DEF Row
  <2>7. batches[r.batch].slot = Slot(k)
    BY <1>0, <2>3, <2>6
  <2> QED  BY <2>3, <2>5, <2>6, <2>7, StockAfterPut
<1>11. ASSUME NEW k \in Keys, NEW c \in Campaigns, NEW v \in Versions, NEW e \in Events,
              NEW ev \in Evidences, NEW f \in Facts, NEW store \in Stores,
              NEW fulfil \in BOOLEAN, NEW t \in RequestTimes,
              ConfirmNew(k, c, v, e, ev, f, store, fulfil, t)
       PROVE  StockInv'
  <2>1. PICK b : b = PickInventory(c, Slot(k), v)
    OBVIOUS
  <2>2. PICK r : r = [NewReservedBenefit(c, b, NoTTL, AllocatedCode(b))
                        EXCEPT !.status = IssuedStatus(fulfil), !.evidence = ev]
    OBVIOUS
  <2>3. /\ rows' = PutRow(SweptRows(t), k, r) /\ batches' = batches
        /\ HasStock(SweptRows(t), b) /\ Candidates(c, Slot(k), v) # {}
    BY <1>11, <2>1, <2>2 DEF ConfirmNew, Admits
  <2>4. r.batch = b /\ batches[b].slot = Slot(k)
    BY <2>1, <2>2, <2>3, PickedOfSlot DEF NewReservedBenefit
  <2> QED  BY <2>3, <2>4, StockAfterPut
<1>12. ASSUME NEW k \in Keys, NEW c \in Campaigns, NEW v \in Versions, NEW e \in Events,
              NEW ev \in Evidences, NEW f \in Facts, NEW store \in Stores,
              NEW fulfil \in BOOLEAN, NEW t \in RequestTimes,
              ConfirmExisting(k, c, v, e, ev, f, store, fulfil, t)
       PROVE  StockInv'
  <2>1. PICK b : b = PickInventory(c, Slot(k), v)
    OBVIOUS
  <2>2. PICK r : r = [SweptRows(t)[k] EXCEPT !.status = IssuedStatus(fulfil), !.evidence = ev]
    OBVIOUS
  <2>3. /\ k \in DOMAIN rows /\ SweptRows(t)[k].status \in {"reserved", "expired"}
        /\ SweptRows(t)[k].status = "expired" => HasStock(SweptRows(t), b)
        /\ rows' = PutRow(SweptRows(t), k, r) /\ batches' = batches
        /\ Candidates(c, Slot(k), v) # {}
    BY <1>12, <2>1, <2>2 DEF ConfirmExisting, OpenStatuses, Admits
  <2>4. Sole(rows[k].batch) => b = rows[k].batch
    BY <2>1, <2>3, PickedOfSlot
  <2>5. Sole(rows[k].batch) =>
           \/ HasStock(SweptRows(t), rows[k].batch)
           \/ k \in Occupants(SweptRows(t), rows[k].batch)
    BY <2>3, <2>4, TakenUpFits
  <2>6. r.batch = rows[k].batch
    <3>1. SweptRows(t)[k] \in Row /\ SweptRows(t)[k].batch = rows[k].batch
      BY <2>3, SweptRow
    <3> QED  BY <2>2, <3>1 DEF Row
  <2>7. batches[r.batch].slot = Slot(k)
    BY <1>0, <2>3, <2>6
  <2> QED  BY <2>3, <2>5, <2>6, <2>7, StockAfterPut
<1>13. CASE BenefitNext
  BY <1>6, <1>7, <1>8, <1>9, <1>10, <1>11, <1>12, <1>13
     DEF BenefitNext, ReserveRewardBenefit, ConfirmRewardBenefit
<1>14. CASE InventoryNext
  BY <1>3, <1>4, <1>14 DEF InventoryNext
<1> QED  BY <1>2, <1>13, <1>14 DEF Next

\* However many customers, holds that lapse and are taken up again, retries and
\* corrections there are, the only batch of a slot is never oversold.
THEOREM SoleBatchIsNeverOversold == Spec => []SoleBatchNeverOversold
<1>1. Init => StockInv
  BY DEF Init, StockInv, SlotsMatch, Batches
<1>2. TypeOK /\ StockInv /\ [Next]_vars => StockInv'
  BY StockStep
<1>3. StockInv => SoleBatchNeverOversold
  BY DEF StockInv, SoleBatchNeverOversold, Sole, Fits
<1> QED  BY <1>1, <1>2, <1>3, LedgerTypeCorrect, PTL DEF Spec

-----------------------------------------------------------------------------
(***************************************************************************)
(* The ledger implements the promise.                                      *)
(*                                                                         *)
(* Initial states map to initial states.  A transaction that is about k    *)
(* maps to the step of the promise with the same name for k, together with *)
(* the lapse of what its sweep finds due; a status change, a refill or the *)
(* clock maps to a stutter.  StoryInv is what the mapping needs of the     *)
(* reachable states: an open row carries no evidence.                      *)
(***************************************************************************)
Promised   == [k \in Keys |-> IF k \in DOMAIN rows THEN rows[k].status ELSE "none"]
EvidenceOf == [k \in Keys |-> IF k \in DOMAIN rows THEN rows[k].evidence ELSE ""]
SpentOn    == [f \in Facts |-> IF factOwner[f] = NoOwner THEN NoOwner ELSE factOwner[f].key]

Lapsing(t) == {k \in DOMAIN rows : Due(k, t)}

\* What a sweep finds due are holds of the promise.
LEMMA LapsingIsHeld ==
    ASSUME TypeOK, NEW t
    PROVE  Lapsing(t) \in SUBSET {k \in Keys : Promised[k] = "reserved"}
BY DEF Lapsing, Due, Promised, TypeOK

\* The promises after a swept transaction that writes the row of k.
LEMMA PromisedAfterPut ==
    ASSUME TypeOK, NEW t \in RequestTimes, NEW k \in Keys, NEW r,
           rows' = PutRow(SweptRows(t), k, r)
    PROVE  /\ Promised' = [Promise!Lapsed(Lapsing(t)) EXCEPT ![k] = r.status]
           /\ EvidenceOf' = [EvidenceOf EXCEPT ![k] = r.evidence]
<1>1. DOMAIN SweptRows(t) = DOMAIN rows /\ DOMAIN rows \subseteq Keys
  BY DEF SweptRows, TypeOK
<1>2. /\ DOMAIN rows' = DOMAIN rows \cup {k} /\ rows'[k] = r
      /\ \A j \in DOMAIN rows \ {k} : rows'[j] = SweptRows(t)[j]
  BY <1>1 DEF PutRow
<1>3. \A j \in DOMAIN rows :
         /\ SweptRows(t)[j].status = IF Due(j, t) THEN "expired" ELSE rows[j].status
         /\ SweptRows(t)[j].evidence = rows[j].evidence
  BY SweptRow
<1>4. Keys' = Keys
  BY DEF Keys
<1>5. Promised' = [Promise!Lapsed(Lapsing(t)) EXCEPT ![k] = r.status]
  BY <1>1, <1>2, <1>3, <1>4 DEF Promised, Promise!Lapsed, Lapsing
<1>6. EvidenceOf' = [EvidenceOf EXCEPT ![k] = r.evidence]
  BY <1>1, <1>2, <1>3, <1>4 DEF EvidenceOf
<1> QED  BY <1>5, <1>6

\* Init of the ledger is Init of the promise.
LEMMA PromiseInit == Init => Promise!Init
BY DEF Init, Promise!Init

\* Every step of the ledger is a step of the promise or a stutter.
LEMMA PromiseStep ==
    ASSUME TypeOK, StoryInv, [Next]_vars
    PROVE  Promise!Next \/ UNCHANGED <<Promised, EvidenceOf, SpentOn>>
<1>0. \A k \in DOMAIN rows : k \in Keys /\ rows[k] \in Row
  BY DEF TypeOK
<1>1. CASE InventoryNext \/ Tick \/ UNCHANGED vars
  <2>1. rows' = rows /\ factOwner' = factOwner
    BY <1>1 DEF InventoryNext, Tick, vars, CreateRewardInventory,
       ReadInventoryStatus, WriteInventoryStatus
  <2> QED  BY <2>1 DEF Promised, EvidenceOf, SpentOn, Keys
<1>2. ASSUME NEW t \in RequestTimes, ExpireDueRewardReservations(t)
      PROVE  Promise!Next
  <2>1. rows' = SweptRows(t) /\ factOwner' = factOwner /\ DOMAIN rows' = DOMAIN rows
    BY <1>2 DEF ExpireDueRewardReservations, SweptRows
  <2>2. SpentOn' = SpentOn
    BY <2>1 DEF SpentOn
  <2>3. EvidenceOf' = EvidenceOf /\ Promised' = Promise!Lapsed(Lapsing(t))
    BY <1>0, <2>1, SweptRow DEF EvidenceOf, Promised, Promise!Lapsed, Lapsing, Keys
  <2>4. PICK S : S = Lapsing(t)
    OBVIOUS
  <2>5. S \in SUBSET {k \in Keys : Promised[k] = "reserved"}
    BY <2>4, LapsingIsHeld
  <2>6. Promise!Lapse(S)
    BY <2>2, <2>3, <2>4 DEF Promise!Lapse, Promised, EvidenceOf, SpentOn
  <2> QED  BY <2>5, <2>6 DEF Promise!Next, Promised
<1>3. ASSUME NEW k \in Keys, NEW e \in Events, ReverseRewardBenefit(k, e)
      PROVE  Promise!Next
  <2>1. PICK r : r = [rows[k] EXCEPT !.status = "reversed"]
    OBVIOUS
  <2>2. /\ k \in DOMAIN rows /\ rows' = PutRow(rows, k, r) /\ factOwner' = factOwner
        /\ rows[k].status \in {"reserved", "issued", "redeemed"}
    BY <1>3, <2>1 DEF ReverseRewardBenefit
  <2>3. "reversed" \in BenefitStatuses /\ rows[k] \in Row
    BY <1>0, <2>2 DEF BenefitStatuses
  <2>4. r.status = "reversed" /\ r.evidence = rows[k].evidence
    BY <2>1, <2>3, StatusUpdate
  <2>5. /\ DOMAIN rows' = DOMAIN rows /\ rows'[k] = r
        /\ \A j \in DOMAIN rows \ {k} : rows'[j] = rows[j]
    BY <2>2 DEF PutRow
  <2>6. Promised' = [Promised EXCEPT ![k] = "reversed"]
    BY <1>0, <2>2, <2>4, <2>5 DEF Promised, Keys
  <2>7. EvidenceOf' = EvidenceOf /\ SpentOn' = SpentOn
    BY <1>0, <2>2, <2>4, <2>5 DEF EvidenceOf, SpentOn, Keys
  <2>8. Promise!Burn(k)
    BY <2>2, <2>6, <2>7 DEF Promise!Burn, Promised, EvidenceOf, SpentOn
  <2> QED  BY <2>8 DEF Promise!Next
<1>4. ASSUME NEW k \in Keys, NEW e \in Events, NEW t \in RequestTimes,
             RedeemRewardBenefit(k, e, t)
      PROVE  Promise!Next
  <2>1. PICK r : r = [SweptRows(t)[k] EXCEPT !.status = "redeemed"]
    OBVIOUS
  <2>2. /\ k \in DOMAIN rows /\ rows[k].status = "issued"
        /\ rows' = PutRow(SweptRows(t), k, r) /\ factOwner' = factOwner
    BY <1>4, <2>1 DEF RedeemRewardBenefit
  <2>3. SweptRows(t)[k] \in Row /\ "redeemed" \in BenefitStatuses
    BY <2>2, SweptRow DEF BenefitStatuses
  <2>4. r.status = "redeemed" /\ r.evidence = rows[k].evidence
    BY <2>1, <2>2, <2>3, StatusUpdate, SweptRow
  <2>5. /\ Promised' = [Promise!Lapsed(Lapsing(t)) EXCEPT ![k] = "redeemed"]
        /\ EvidenceOf' = [EvidenceOf EXCEPT ![k] = rows[k].evidence]
    BY <2>2, <2>4, PromisedAfterPut
  <2>6. EvidenceOf' = EvidenceOf
    <3>1. EvidenceOf[k] = rows[k].evidence
      BY <2>2 DEF EvidenceOf
    <3> QED  BY <2>5, <3>1 DEF EvidenceOf
  <2>9. SpentOn' = SpentOn /\ Promised[k] = "issued"
    BY <2>2 DEF SpentOn, Promised
  <2>7. Promise!Redeem(Lapsing(t), k)
    BY <2>5, <2>6, <2>9 DEF Promise!Redeem, Promised, EvidenceOf, SpentOn
  <2> QED  BY <2>7, LapsingIsHeld DEF Promise!Next, Promised
<1>5. ASSUME NEW k \in Keys, NEW t \in RequestTimes, NEW r,
             rows' = PutRow(SweptRows(t), k, r), factOwner' = factOwner,
             r.status = "reserved", Promised[k] \in {"none", "reserved", "expired"},
             r.evidence = EvidenceOf[k]
      PROVE  Promise!Next
  <2>1. /\ Promised' = [Promise!Lapsed(Lapsing(t)) EXCEPT ![k] = "reserved"]
        /\ EvidenceOf' = [EvidenceOf EXCEPT ![k] = EvidenceOf[k]]
    BY <1>5, PromisedAfterPut
  <2>2. EvidenceOf' = EvidenceOf /\ SpentOn' = SpentOn
    BY <1>5, <2>1 DEF EvidenceOf, SpentOn
  <2>3. Promise!Hold(Lapsing(t), k)
    BY <1>5, <2>1, <2>2 DEF Promise!Hold, Promise!Open, Promised, EvidenceOf, SpentOn
  <2> QED  BY <2>3, LapsingIsHeld DEF Promise!Next, Promised
<1>6. ASSUME NEW k \in Keys, NEW c \in Campaigns, NEW v \in Versions, NEW e \in Events,
             NEW ttl \in TTLs, NEW t \in RequestTimes, ReserveNew(k, c, v, e, ttl, t)
      PROVE  Promise!Next
  <2>1. PICK r : r = NewReservedBenefit(c, PickInventory(c, Slot(k), v), t + ttl,
                                        AllocatedCode(PickInventory(c, Slot(k), v)))
    OBVIOUS
  <2>2. k \notin DOMAIN rows /\ rows' = PutRow(SweptRows(t), k, r) /\ factOwner' = factOwner
    BY <1>6, <2>1 DEF ReserveNew
  <2>3. r.status = "reserved" /\ r.evidence = ""
    BY <2>1 DEF NewReservedBenefit
  <2>4. Promised[k] = "none" /\ EvidenceOf[k] = ""
    BY <2>2 DEF Promised, EvidenceOf
  <2> QED  BY <1>5, <2>2, <2>3, <2>4
<1>7. ASSUME NEW k \in Keys, NEW c \in Campaigns, NEW v \in Versions, NEW e \in Events,
             NEW ttl \in TTLs, NEW t \in RequestTimes, ReserveAgain(k, c, v, e, ttl, t)
      PROVE  Promise!Next
  <2>1. PICK r : r = [SweptRows(t)[k] EXCEPT !.status = "reserved", !.until = t + ttl]
    OBVIOUS
  <2>2. /\ k \in DOMAIN rows /\ SweptRows(t)[k].status \in {"reserved", "expired"}
        /\ rows' = PutRow(SweptRows(t), k, r) /\ factOwner' = factOwner
    BY <1>7, <2>1 DEF ReserveAgain, OpenStatuses
  <2>3. SweptRows(t)[k] \in Row /\ t + ttl \in Nat
    <3>1. t \in Nat /\ ttl \in Nat
      BY InputsAssumption DEF RequestTimes, TypeOK
    <3> QED  BY <2>2, <3>1, SweptRow
  <2>4. r.status = "reserved" /\ r.evidence = SweptRows(t)[k].evidence
    BY <2>1, <2>3, HoldUpdate
  <2>5. r.evidence = EvidenceOf[k] /\ Promised[k] \in {"reserved", "expired"}
    BY <2>2, <2>4, SweptRow, DueIsReserved DEF EvidenceOf, Promised
  <2> QED  BY <1>5, <2>2, <2>4, <2>5
<1>8. ASSUME NEW k \in Keys, NEW t \in RequestTimes, NEW ev \in Evidences,
             NEW f \in Facts, NEW o, o.key = k, NEW r,
             ClaimOfficialFact(ev, f, o), o # NoOwner,
             rows' = PutRow(SweptRows(t), k, r),
             r.status \in {"issued", "redeemed"}, r.evidence = ev,
             Promised[k] \in {"none", "reserved", "expired"}
      PROVE  Promise!Next
  <2>1. /\ Promised' = [Promise!Lapsed(Lapsing(t)) EXCEPT ![k] = r.status]
        /\ EvidenceOf' = [EvidenceOf EXCEPT ![k] = ev]
    BY <1>8, PromisedAfterPut
  <2>2. Promise!Spend(ev, k)
    <3>1. CASE ev = Official
      <4>1. factOwner[f] = NoOwner /\ factOwner' = [factOwner EXCEPT ![f] = o]
        BY <1>8, <3>1 DEF ClaimOfficialFact
      <4>2. SpentOn[f] = NoOwner /\ SpentOn' = [SpentOn EXCEPT ![f] = k]
        BY <1>8, <4>1 DEF SpentOn, TypeOK
      <4> QED  BY <3>1, <4>2 DEF Promise!Spend, SpentOn
    <3>2. CASE ev # Official
      <4>1. SpentOn' = SpentOn
        BY <1>8, <3>2 DEF SpentOn, ClaimOfficialFact
      <4> QED  BY <3>2, <4>1 DEF Promise!Spend, SpentOn
    <3> QED  BY <3>1, <3>2
  <2>3. Promise!Grant(Lapsing(t), k, ev, r.status)
    BY <1>8, <2>1, <2>2 DEF Promise!Grant, Promise!Open, Promised, EvidenceOf
  <2>4. PICK S : S = Lapsing(t)
    OBVIOUS
  <2>5. PICK to : to = r.status
    OBVIOUS
  <2>6. /\ S \in SUBSET {x \in Keys : Promised[x] = "reserved"}
        /\ to \in {"issued", "redeemed"} /\ Promise!Grant(S, k, ev, to)
    BY <1>8, <2>3, <2>4, <2>5, LapsingIsHeld
  <2> QED  BY <2>6 DEF Promise!Next, Promised
<1>9. ASSUME NEW k \in Keys, NEW c \in Campaigns, NEW v \in Versions, NEW e \in Events,
             NEW ev \in Evidences, NEW f \in Facts, NEW store \in Stores,
             NEW fulfil \in BOOLEAN, NEW t \in RequestTimes,
             ConfirmRewardBenefit(k, c, v, e, ev, f, store, fulfil, t)
      PROVE  Promise!Next
  <2>1. IssuedStatus(fulfil) \in {"issued", "redeemed"}
    BY DEF IssuedStatus
  <2>2. /\ RowId(k) # NoOwner /\ RowId(k).key = k
        /\ StagingId(k) # NoOwner /\ StagingId(k).key = k
    BY KeyIds, MarkersAssumption DEF RowId, StagingId, Owners, Keys
  <2>3. CASE ConfirmNew(k, c, v, e, ev, f, store, fulfil, t)
    <3>1. PICK b : b = PickInventory(c, Slot(k), v)
      OBVIOUS
    <3>2. PICK r : r = [NewReservedBenefit(c, b, NoTTL, AllocatedCode(b))
                          EXCEPT !.status = IssuedStatus(fulfil), !.evidence = ev]
      OBVIOUS
    <3>3. /\ k \notin DOMAIN rows /\ rows' = PutRow(SweptRows(t), k, r)
          /\ ClaimOfficialFact(ev, f, StagingId(k))
      BY <2>3, <3>1, <3>2 DEF ConfirmNew
    <3>4. r.status = IssuedStatus(fulfil) /\ r.evidence = ev
      BY <3>2 DEF NewReservedBenefit
    <3>5. Promised[k] = "none"
      BY <3>3 DEF Promised
    <3> QED  BY <1>8, <2>1, <2>2, <3>3, <3>4, <3>5
  <2>4. CASE ConfirmExisting(k, c, v, e, ev, f, store, fulfil, t)
    <3>1. PICK r : r = [SweptRows(t)[k] EXCEPT !.status = IssuedStatus(fulfil), !.evidence = ev]
      OBVIOUS
    <3>2. /\ k \in DOMAIN rows /\ rows' = PutRow(SweptRows(t), k, r)
          /\ SweptRows(t)[k].status \in {"reserved", "expired"}
          /\ ClaimOfficialFact(ev, f, RowId(k))
      BY <2>4, <3>1 DEF ConfirmExisting, OpenStatuses
    <3>3. SweptRows(t)[k] \in Row
      BY <3>2, SweptRow
    <3>4. r.status = IssuedStatus(fulfil) /\ r.evidence = ev
      BY <3>1, <3>3 DEF Row
    <3>5. Promised[k] \in {"reserved", "expired"}
      BY <3>2, SweptRow, DueIsReserved DEF Promised
    <3> QED  BY <1>8, <2>1, <2>2, <3>2, <3>4, <3>5
  <2> QED  BY <1>9, <2>3, <2>4 DEF ConfirmRewardBenefit
<1>10. CASE BenefitNext
  BY <1>2, <1>3, <1>4, <1>6, <1>7, <1>9, <1>10 DEF BenefitNext, ReserveRewardBenefit
<1> QED  BY <1>1, <1>10 DEF Next

\* The ledger, with its batches, stock, codes, sweeps and retries, implements
\* the promise of RewardPromise: it never lets a customer see a benefit do
\* anything that state machine does not.
THEOREM LedgerKeepsItsPromise == Spec => ImplementsPromise
<1>1. TypeOK /\ StoryInv /\ [Next]_vars =>
        [Promise!Next]_<<Promised, EvidenceOf, SpentOn>>
  BY PromiseStep
<1> QED
  BY <1>1, PromiseInit, LedgerTypeCorrect, LedgerStory, PTL
     DEF Spec, ImplementsPromise, Promise!Spec, Promised, EvidenceOf, SpentOn
=============================================================================

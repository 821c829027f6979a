---------------------------- MODULE RewardLedger ----------------------------
(***************************************************************************)
(* The reward ledger of store/store_reward_ops.go: inventory batches, the  *)
(* imported code pool, one benefit row per (participation, slot), the      *)
(* append-only operations trail and the official facts that fund official  *)
(* grants.  One tenant.                                                    *)
(*                                                                         *)
(* Each mutating entry point runs in one SQLite transaction on a           *)
(* single-connection pool, so it is one atomic action here.  A refusal, a  *)
(* replayed event and every already_* answer return before the commit: the *)
(* deferred Rollback undoes the sweep too, and the step changes nothing.   *)
(* SetRewardInventoryStatus is the exception: it reads, then updates, with *)
(* no transaction, so it takes two steps of an admin request.              *)
(***************************************************************************)
EXTENDS Integers, Sequences, FiniteSets

CONSTANTS
    Participations,  \* participation ids, opaque to the ledger
    Slots,           \* benefit slots
    Campaigns,
    Stores,
    AnyStore,        \* a batch with store_id = ''
    Facts,           \* rows of reward_official_facts, keyed by attempt_id
    FactCampaign,    \* [Facts -> Campaigns]
    Events,          \* caller event ids (dedup keys)
    Requests,        \* concurrent status-change requests of the back office
    Idle,            \* a request that has not read its batch
    NoOwner,         \* consumed_by = ''
    BatchInputs,     \* the inputs a batch may be created from
    MaxBatches,      \* bound on the number of batches
    TTLs,            \* reservation lifetimes a caller may ask for
    MaxTime,         \* bound on the clock
    MaxLag           \* how long a request's `now` may wait for the connection

Evidences == {"staff_observed_submission", "staff_verified_post",
              "official_publish_confirmed"}
Official  == "official_publish_confirmed"
Kinds     == {"store_coupon", "imported_code", "gift_discount"}

\* A batch's immutable columns.  Windows are closed; MaxTime stands for ''.
BatchInput == [campaign : Campaigns, slot : Slots, version : Nat \ {0},
               kind : Kinds, allowed : SUBSET Evidences,
               store : Stores \cup {AnyStore}, total : Nat,
               from : Nat, until : Nat]

ASSUME FinitenessAssumption ==
    IsFiniteSet(Participations) /\ IsFiniteSet(Slots) /\ IsFiniteSet(Facts)

ASSUME BoundsAssumption ==
    MaxBatches \in Nat /\ MaxTime \in Nat /\ MaxLag \in Nat

ASSUME InputsAssumption ==
    /\ BatchInputs \subseteq BatchInput
    /\ TTLs \subseteq Nat \ {0}
    /\ FactCampaign \in [Facts -> Campaigns]

ASSUME MarkersAssumption ==
    /\ "" \notin Events
    /\ NoOwner \notin [key : Participations \X Slots, kept : BOOLEAN]
    /\ Idle \notin [batch : Nat \ {0}, to : {"active", "paused", "retired"}]

VARIABLES
    clock,        \* wall clock
    batches,      \* sequence of batches in creation order
    batchStatus,  \* batchStatus[b]: active / paused / retired
    pool,         \* pool[b]: the benefit ids its codes were allocated to, in rowid order
    rows,         \* rows[k]: the benefit row of a key, for the keys that have one
    trail,        \* trail[k]: the operations posted for that benefit
    factOwner,    \* consumed_by of an official fact
    request       \* status-change requests between their read and their write

vars == <<clock, batches, batchStatus, pool, rows, trail, factOwner, request>>

Keys  == Participations \X Slots
Slot(k) == k[2]

BenefitStatuses  == {"reserved", "issued", "redeemed", "reversed", "expired"}
OccupiedStatuses == {"reserved", "issued", "redeemed"}
OpenStatusesAndIssued   == {"reserved", "expired", "issued"}      \* mutant
OpenStatuses     == {"reserved", "expired"}   \* what Reserve and Confirm may take up
BatchStatuses    == {"active", "paused", "retired"}
OpNames          == {"reserve", "issue", "redeem", "reverse", "expire"}

NoTTL   == 0       \* reserved_until = ''
NoEvent == ""      \* a bookkeeping row: dedup_key = ''
NoCode  == <<0, 0>>

\* Ids the store makes up: the id of the row of k, and the id of a row that is
\* built first and then rebuilt under another id (ConfirmRewardBenefit).
RowId(k)     == [key |-> k, kept |-> TRUE]
StagingId(k) == [key |-> k, kept |-> FALSE]
Owners       == [key : Keys, kept : BOOLEAN]

Row == [campaign : Campaigns, batch : Nat \ {0}, status : BenefitStatuses,
        until : Nat, evidence : Evidences \cup {""}, code : Nat \X Nat]
Op  == [op : OpNames, event : Events \cup {NoEvent}]

Batches == 1..Len(batches)

-----------------------------------------------------------------------------
(* Transaction helpers *)

\* The `now` a request took before it got the connection.
RequestTimes == {t \in 0..clock : clock - t <= MaxLag}

\* Mutant: the sweep forgets WHERE status = 'reserved'.
DueInAnyStatus(k, t) == rows[k].until # NoTTL /\ rows[k].until < t

Due(k, t) == /\ rows[k].status = "reserved"
             /\ rows[k].until # NoTTL
             /\ rows[k].until < t

SweptRows(t) ==
    [k \in DOMAIN rows |->
        IF Due(k, t) THEN [rows[k] EXCEPT !.status = "expired"] ELSE rows[k]]

\* Mutant: the sweep posts no operation.
SweptSilently(t) == trail

SweptTrail(t) ==
    [k \in Keys |->
        IF k \in DOMAIN rows /\ Due(k, t)
        THEN Append(trail[k], [op |-> "expire", event |-> NoEvent])
        ELSE trail[k]]

\* replayInTx: the event was processed before.
Posted(e) == \E k \in Keys : \E i \in DOMAIN trail[k] : trail[k][i].event = e

Candidates(c, s, v) ==
    {b \in Batches : /\ batchStatus[b] = "active"
                     /\ batches[b].campaign = c
                     /\ batches[b].slot = s
                     /\ batches[b].version = v}

\* Oldest first.  The code never passes requireFree, so stock plays no part.
PickInventory(c, s, v) ==
    CHOOSE b \in Candidates(c, s, v) : \A d \in Candidates(c, s, v) : b <= d

InventoryUsable(b, t) == batches[b].from <= t /\ t <= batches[b].until

Occupants(rs, b) ==
    {k \in DOMAIN rs : rs[k].batch = b /\ rs[k].status \in OccupiedStatuses}

\* Mutant: an off-by-one.
HasStockOrIsFull(rs, b) == Cardinality(Occupants(rs, b)) <= batches[b].total

HasStock(rs, b) == Cardinality(Occupants(rs, b)) < batches[b].total

\* allocateCodeInTx: code <<b, i>> is the i-th imported code of batch b,
\* <<b, 0>> a code generated for it.
CodeAvailable(b) ==
    batches[b].kind = "imported_code" => Len(pool[b]) < batches[b].total

AllocatedCode(b) ==
    CASE batches[b].kind = "imported_code" -> <<b, Len(pool[b]) + 1>>
      [] batches[b].kind = "store_coupon"  -> <<b, 0>>
      [] OTHER                             -> NoCode

AllocateCode(b, owner) ==
    pool' = IF batches[b].kind = "imported_code"
            THEN [pool EXCEPT ![b] = Append(@, owner)] ELSE pool

PutRow(rs, k, r) == [x \in DOMAIN rs \cup {k} |-> IF x = k THEN r ELSE rs[x]]

PostOps(tr, k, ops) == [tr EXCEPT ![k] = @ \o ops]

-----------------------------------------------------------------------------
(* Batches *)

\* Mutant: the batch is created without its code pool.
CreateRewardInventoryAlone(in) ==
    /\ Len(batches) < MaxBatches
    /\ in.allowed # {} /\ in.total >= 1
    /\ batches' = Append(batches, in)
    /\ batchStatus' = Append(batchStatus, "active")
    /\ UNCHANGED <<clock, pool, rows, trail, factOwner, request>>

CreateRewardInventory(in) ==
    /\ Len(batches) < MaxBatches
    /\ in.allowed # {} /\ in.total >= 1
    /\ batches' = Append(batches, in)
    /\ batchStatus' = Append(batchStatus, "active")
    /\ pool' = Append(pool, <<>>)
    /\ UNCHANGED <<clock, rows, trail, factOwner, request>>

\* SetRewardInventoryStatus, up to its terminal check on the row it read.
ReadInventoryStatus(r, b, status) ==
    /\ request[r] = Idle
    /\ batchStatus[b] # "retired"
    /\ request' = [request EXCEPT ![r] = [batch |-> b, to |-> status]]
    /\ UNCHANGED <<clock, batches, batchStatus, pool, rows, trail, factOwner>>

\* The UPDATE, which names the batch only.
WriteInventoryStatus(r) ==
    /\ request[r] # Idle
    /\ batchStatus' = [batchStatus EXCEPT ![request[r].batch] = request[r].to]
    /\ request' = [request EXCEPT ![r] = Idle]
    /\ UNCHANGED <<clock, batches, pool, rows, trail, factOwner>>

-----------------------------------------------------------------------------
(* Benefits *)

NewReservedBenefit(c, b, until, code) ==
    [campaign |-> c, batch |-> b, status |-> "reserved", until |-> until,
     evidence |-> "", code |-> code]

\* What Reserve and Confirm check before they look at the benefit row.
Admits(c, s, v, e, t) ==
    /\ ~ Posted(e)
    /\ Candidates(c, s, v) # {}
    /\ InventoryUsable(PickInventory(c, s, v), t)

ReserveNew(k, c, v, e, ttl, t) ==
    LET b == PickInventory(c, Slot(k), v) IN
    /\ Admits(c, Slot(k), v, e, t)
    /\ k \notin DOMAIN rows
    /\ HasStock(SweptRows(t), b)
    /\ CodeAvailable(b)
    /\ rows' = PutRow(SweptRows(t), k,
                      NewReservedBenefit(c, b, t + ttl, AllocatedCode(b)))
    /\ trail' = PostOps(SweptTrail(t), k, <<[op |-> "reserve", event |-> e]>>)
    /\ AllocateCode(b, RowId(k))
    /\ UNCHANGED <<clock, batches, batchStatus, factOwner, request>>

\* The row keeps its batch, its campaign and its code; the stock that is
\* checked is the picked batch's.
ReserveAgain(k, c, v, e, ttl, t) ==
    LET b == PickInventory(c, Slot(k), v) IN
    /\ Admits(c, Slot(k), v, e, t)
    /\ k \in DOMAIN rows
    /\ SweptRows(t)[k].status \in OpenStatuses
    /\ SweptRows(t)[k].status = "expired" => HasStock(SweptRows(t), b)
    /\ rows' = PutRow(SweptRows(t), k,
                  [SweptRows(t)[k] EXCEPT !.status = "reserved", !.until = t + ttl])
    /\ trail' = PostOps(SweptTrail(t), k, <<[op |-> "reserve", event |-> e]>>)
    /\ UNCHANGED <<clock, batches, batchStatus, pool, factOwner, request>>

ReserveRewardBenefit(k, c, v, e, ttl, t) ==
    ReserveNew(k, c, v, e, ttl, t) \/ ReserveAgain(k, c, v, e, ttl, t)

\* Mutant: the batch's evidence classes are not consulted.
AdjudicatedOnStore(b, c, ev, f, store) ==
    /\ batches[b].store \in {AnyStore, store}
    /\ ev = Official => FactCampaign[f] = c

\* Adjudicate, the store check and, for an official claim, its anchor.
Adjudicated(b, c, ev, f, store) ==
    /\ batches[b].store \in {AnyStore, store}
    /\ ev \in batches[b].allowed
    /\ ev = Official => FactCampaign[f] = c

\* Mutant: the claim does not ask whether the fact is consumed.
ClaimAnyOfficialFact(ev, f, owner) ==
    IF ev = Official THEN factOwner' = [factOwner EXCEPT ![f] = owner]
                     ELSE UNCHANGED factOwner

\* An official fact funds one benefit; the other evidence classes claim none.
ClaimOfficialFact(ev, f, owner) ==
    IF ev = Official
    THEN /\ factOwner[f] = NoOwner
         /\ factOwner' = [factOwner EXCEPT ![f] = owner]
    ELSE UNCHANGED factOwner

IssueOps(e, fulfil) ==
    IF fulfil THEN <<[op |-> "issue", event |-> e], [op |-> "redeem", event |-> NoEvent]>>
              ELSE <<[op |-> "issue", event |-> e]>>

IssuedStatus(fulfil) == IF fulfil THEN "redeemed" ELSE "issued"

\* No row yet: the code and the fact are claimed for a staging id, and the row
\* that is inserted carries another.
ConfirmNew(k, c, v, e, ev, f, store, fulfil, t) ==
    LET b == PickInventory(c, Slot(k), v) IN
    /\ Admits(c, Slot(k), v, e, t)
    /\ Adjudicated(b, c, ev, f, store)
    /\ k \notin DOMAIN rows
    /\ HasStock(SweptRows(t), b)
    /\ CodeAvailable(b)
    /\ ClaimOfficialFact(ev, f, StagingId(k))
    /\ rows' = PutRow(SweptRows(t), k,
                  [NewReservedBenefit(c, b, NoTTL, AllocatedCode(b))
                     EXCEPT !.status = IssuedStatus(fulfil), !.evidence = ev])
    /\ trail' = PostOps(SweptTrail(t), k, IssueOps(e, fulfil))
    /\ AllocateCode(b, StagingId(k))
    /\ UNCHANGED <<clock, batches, batchStatus, request>>

ConfirmExisting(k, c, v, e, ev, f, store, fulfil, t) ==
    LET b == PickInventory(c, Slot(k), v) IN
    /\ Admits(c, Slot(k), v, e, t)
    /\ Adjudicated(b, c, ev, f, store)
    /\ k \in DOMAIN rows
    /\ rows[k].campaign = c
    /\ SweptRows(t)[k].status \in OpenStatuses
    /\ SweptRows(t)[k].status = "expired" => HasStock(SweptRows(t), b)
    /\ ClaimOfficialFact(ev, f, RowId(k))
    /\ rows' = PutRow(SweptRows(t), k,
                  [SweptRows(t)[k] EXCEPT !.status = IssuedStatus(fulfil), !.evidence = ev])
    /\ trail' = PostOps(SweptTrail(t), k, IssueOps(e, fulfil))
    /\ UNCHANGED <<clock, batches, batchStatus, pool, request>>

ConfirmRewardBenefit(k, c, v, e, ev, f, store, fulfil, t) ==
    \/ ConfirmNew(k, c, v, e, ev, f, store, fulfil, t)
    \/ ConfirmExisting(k, c, v, e, ev, f, store, fulfil, t)

RedeemRewardBenefit(k, e, t) ==
    /\ k \in DOMAIN rows
    /\ ~ Posted(e)
    /\ rows[k].status = "issued"
    /\ rows' = PutRow(SweptRows(t), k, [SweptRows(t)[k] EXCEPT !.status = "redeemed"])
    /\ trail' = PostOps(SweptTrail(t), k, <<[op |-> "redeem", event |-> e]>>)
    /\ UNCHANGED <<clock, batches, batchStatus, pool, factOwner, request>>

\* The one entry point that does not sweep.
ReverseRewardBenefit(k, e) ==
    /\ k \in DOMAIN rows
    /\ ~ Posted(e)
    /\ rows[k].status \in {"reserved", "issued", "redeemed"}
    /\ rows' = PutRow(rows, k, [rows[k] EXCEPT !.status = "reversed"])
    /\ trail' = PostOps(trail, k, <<[op |-> "reverse", event |-> e]>>)
    /\ UNCHANGED <<clock, batches, batchStatus, pool, factOwner, request>>

ExpireDueRewardReservations(t) ==
    /\ \E k \in DOMAIN rows : Due(k, t)
    /\ rows' = SweptRows(t)
    /\ trail' = SweptTrail(t)
    /\ UNCHANGED <<clock, batches, batchStatus, pool, factOwner, request>>

\* What the summary counts, as the sets of benefits counted.  It reads only.
RewardSummary(c) ==
    [status \in BenefitStatuses |->
        {k \in DOMAIN rows : rows[k].campaign = c /\ rows[k].status = status}]

Tick ==
    /\ clock < MaxTime
    /\ clock' = clock + 1
    /\ UNCHANGED <<batches, batchStatus, pool, rows, trail, factOwner, request>>

-----------------------------------------------------------------------------
Versions == {in.version : in \in BatchInputs}

Init ==
    /\ clock = 0
    /\ batches = <<>> /\ batchStatus = <<>> /\ pool = <<>>
    /\ rows = [k \in {} |-> NoCode]
    /\ trail = [k \in Keys |-> <<>>]
    /\ factOwner = [f \in Facts |-> NoOwner]
    /\ request = [r \in Requests |-> Idle]

InventoryNext ==
    \/ \E in \in BatchInputs : CreateRewardInventory(in)
    \/ \E r \in Requests, b \in Batches, s \in BatchStatuses : ReadInventoryStatus(r, b, s)
    \/ \E r \in Requests : WriteInventoryStatus(r)

BenefitNext ==
    \/ \E k \in Keys, c \in Campaigns, v \in Versions, e \in Events :
       \E ttl \in TTLs, t \in RequestTimes : ReserveRewardBenefit(k, c, v, e, ttl, t)
    \/ \E k \in Keys, c \in Campaigns, v \in Versions, e \in Events :
       \E ev \in Evidences, f \in Facts, store \in Stores, fulfil \in BOOLEAN, t \in RequestTimes :
           ConfirmRewardBenefit(k, c, v, e, ev, f, store, fulfil, t)
    \/ \E k \in Keys, e \in Events, t \in RequestTimes : RedeemRewardBenefit(k, e, t)
    \/ \E k \in Keys, e \in Events : ReverseRewardBenefit(k, e)
    \/ \E t \in RequestTimes : ExpireDueRewardReservations(t)

Next == InventoryNext \/ BenefitNext \/ Tick

Spec == Init /\ [][Next]_vars

-----------------------------------------------------------------------------
(* Properties *)

\* Every variable stays in its column types, and the per-batch sequences stay
\* aligned.
TypeOK ==
    /\ clock \in 0..MaxTime
    /\ batches \in Seq(BatchInputs) /\ Len(batches) <= MaxBatches
    /\ batchStatus \in Seq(BatchStatuses) /\ Len(batchStatus) = Len(batches)
    /\ pool \in Seq(Seq(Owners)) /\ Len(pool) = Len(batches)
    /\ DOMAIN rows \subseteq Keys
    /\ \A k \in DOMAIN rows : rows[k] \in Row /\ rows[k].batch \in Batches
    /\ trail \in [Keys -> Seq(Op)]
    /\ factOwner \in [Facts -> Owners \cup {NoOwner}]
    /\ request \in [Requests -> [batch : Batches, to : BatchStatuses] \cup {Idle}]

StatusOf(op) ==
    CASE op = "reserve" -> "reserved" [] op = "issue"   -> "issued"
      [] op = "redeem"  -> "redeemed" [] op = "reverse" -> "reversed"
      [] op = "expire"  -> "expired"

Ops(k, name) == {i \in DOMAIN trail[k] : trail[k][i].op = name}

\* Recomputing a benefit from the operations trail gives its row: the trail is
\* empty exactly for keys without a row and its last operation is the row's
\* status (the restart audit: operations recomputed = benefit states).
TrailAgreesWithStatus ==
    \A k \in Keys :
        IF k \in DOMAIN rows
        THEN /\ trail[k] # <<>>
             /\ rows[k].status = StatusOf(trail[k][Len(trail[k])].op)
        ELSE trail[k] = <<>>

\* Whatever mixture of events, staff members and retries reached a slot, it was
\* issued, redeemed and reversed at most once each, redeemed only after it was
\* issued, and it carries evidence exactly if it was issued.
GrantedOnce ==
    \A k \in Keys :
        /\ \A name \in {"issue", "redeem", "reverse"} :
              \A i, j \in Ops(k, name) : i = j
        /\ \A i \in Ops(k, "redeem") : \E j \in Ops(k, "issue") : j < i
        /\ k \in DOMAIN rows => (rows[k].evidence # "" <=> Ops(k, "issue") # {})

\* The original facts survive: a benefit keeps its campaign, batch and code for
\* ever, its evidence once written, and a reversed slot stays burnt.
FactsSurvive ==
    [][\A k \in DOMAIN rows :
          /\ k \in DOMAIN rows'
          /\ rows'[k].campaign = rows[k].campaign
          /\ rows'[k].batch = rows[k].batch
          /\ rows'[k].code = rows[k].code
          /\ rows[k].evidence # "" => rows'[k].evidence = rows[k].evidence
          /\ rows[k].status = "reversed" => rows'[k].status = "reversed"]_vars

\* An official-only campaign slot is never satisfied by staff evidence: some
\* batch of the benefit's own campaign and slot accepts the evidence it has.
EvidenceJustified ==
    \A k \in DOMAIN rows :
        rows[k].evidence # "" =>
            \E b \in Batches : /\ batches[b].campaign = rows[k].campaign
                               /\ batches[b].slot = Slot(k)
                               /\ rows[k].evidence \in batches[b].allowed

Funds(f, k) == factOwner[f] # NoOwner /\ factOwner[f].key = k

\* Official grants and consumed facts match one to one, within a campaign, even
\* after reversals.
FactFundsOneBenefit ==
    /\ \A f \in Facts : factOwner[f] # NoOwner =>
           /\ factOwner[f].key \in DOMAIN rows
           /\ rows[factOwner[f].key].evidence = Official
           /\ rows[factOwner[f].key].campaign = FactCampaign[f]
    /\ \A k \in DOMAIN rows : rows[k].evidence = Official =>
           \E f \in Facts : Funds(f, k) /\ \A g \in Facts : Funds(g, k) => g = f

\* An imported code is handed to one benefit ever, and it is a code its batch
\* really has.
CodesNeverShared ==
    \A k \in DOMAIN rows : rows[k].code[2] # 0 =>
        /\ rows[k].code[1] = rows[k].batch
        /\ rows[k].code[2] <= batches[rows[k].batch].total
        /\ \A j \in DOMAIN rows : rows[j].code = rows[k].code => j = k

\* The only batch of a slot is never oversold.
SoleBatchNeverOversold ==
    \A b \in Batches :
        (\A d \in Batches \ {b} : batches[d].slot # batches[b].slot) =>
            Cardinality(Occupants(rows, b)) <= batches[b].total

\* A benefit row that is created never takes the batch it is created from over
\* its quantity, whatever else happened to the batch.
FreshGrantsFit ==
    [][\A k \in DOMAIN rows' \ DOMAIN rows :
          Cardinality(Occupants(rows', rows'[k].batch))
              <= batches[rows'[k].batch].total]_vars

Promise == INSTANCE RewardPromise WITH
    Unspent  <- NoOwner,
    promise  <- [k \in Keys |-> IF k \in DOMAIN rows THEN rows[k].status ELSE "none"],
    evidence <- [k \in Keys |-> IF k \in DOMAIN rows THEN rows[k].evidence ELSE ""],
    spentOn  <- [f \in Facts |-> IF factOwner[f] = NoOwner THEN NoOwner
                                 ELSE factOwner[f].key]

\* The ledger implements the promise it makes for each slot.
ImplementsPromise == Promise!Spec

-----------------------------------------------------------------------------
(* What the code's documents say and the code does not do *)

\* "Stock exhausted refuses new promises, never oversold": no batch holds more
\* live benefits than its quantity.
StockNeverOversold ==
    \A b \in Batches : Cardinality(Occupants(rows, b)) <= batches[b].total

\* "Batches are consumed oldest first so refills come later": while some batch
\* of the line is usable and has stock, the batch that is picked is.
RefillsAreReached ==
    \A c \in Campaigns, s \in Slots, v \in Versions :
        (\E b \in Candidates(c, s, v) : InventoryUsable(b, clock) /\ HasStock(rows, b)) =>
            LET b == PickInventory(c, s, v) IN InventoryUsable(b, clock) /\ HasStock(rows, b)

\* "Retired is terminal".
RetiredIsTerminal ==
    [][\A b \in Batches : batchStatus[b] = "retired" => batchStatus'[b] = "retired"]_vars

\* "In-flight participations keep their original version": the evidence of a
\* benefit is one its own batch accepts.
OwnBatchAllowsEvidence ==
    \A k \in DOMAIN rows :
        rows[k].evidence # "" => rows[k].evidence \in batches[rows[k].batch].allowed

\* "claimOfficialFactInTx binds the fact to one benefit": the id it is bound to
\* is the id of a benefit row.
FactNamesItsBenefit ==
    \A f \in Facts : factOwner[f] # NoOwner => factOwner[f] \in {RowId(k) : k \in DOMAIN rows}

\* "Lists, summaries and reservations sweep first": a summary read now counts no
\* reservation that is due as reserved.
SummarySweepsFirst ==
    \A c \in Campaigns : \A k \in RewardSummary(c).reserved : ~ Due(k, clock)

\* "The slot is bound to another campaign ... Treat as a conflict": a reserve
\* for campaign c never touches the row of another campaign.
ForeignSlotIsConflict ==
    [][\A k \in DOMAIN rows : \A c \in Campaigns \ {rows[k].campaign} :
          \A v \in Versions, e \in Events, ttl \in TTLs, t \in RequestTimes :
              ~ ReserveRewardBenefit(k, c, v, e, ttl, t)]_vars

=============================================================================

----------------------------- MODULE ReadCache -----------------------------
(***************************************************************************)
(* The bounded read cache (internal/readcache) between the pages that only *)
(* display (handlers_public.go, handlers_dashboard.go,                     *)
(* handlers_touchpoints.go) and the rows that administrators edit, with    *)
(* the structural epoch of the store (store.go) that is to invalidate it.  *)
(*                                                                         *)
(* GetOrLoad is modelled lock by lock and atomic by atomic, because its    *)
(* promises are about concurrent misses, edits and the kill switch.  A     *)
(* value is the version of the store its load has seen: the number of      *)
(* structural writes, read at one instant.  Time is left out: an entry may *)
(* lapse at any lookup, as its jittered TTL allows.  Counters are left out.*)
(***************************************************************************)
EXTENDS Integers, Sequences, FiniteSets

CONSTANTS
    Keys, NoKey,
    Requests, Nobody,
    Editors,     \* administrators whose writes change structure
    Failed,      \* the result of a load that returned an error
    Capacity,    \* of the cache, in entries
    MaxEdits,    \* bound on the structural writes
    MayFail,     \* whether a load may return an error
    MayDisable   \* whether the kill switch may be used

ASSUME SettingsAssumption ==
    /\ Capacity \in Nat \ {0}
    /\ MaxEdits \in Nat
    /\ {MayFail, MayDisable} \subseteq BOOLEAN

ASSUME NamesAssumption ==
    /\ NoKey \notin Keys
    /\ Nobody \notin Requests
    /\ Failed \notin Nat

VARIABLES
    source,     \* the structural writes that are committed
    epoch,      \* the store's structural generation
    editing,    \* the editors who have written and not bumped the epoch yet
    items,      \* the entries, by key: value and epoch
    lru,        \* the keys of the entries, most recently used first
    disabled,   \* the kill switch
    clearing,   \* Disable has latched it and not emptied the cache yet
    flights,    \* flights[k]: the request that leads the flight for k, or Nobody
    task        \* where each request is

store == <<source, epoch, editing>>
cache == <<items, lru, disabled, clearing>>
vars == <<store, cache, flights, task>>

Versions == Nat

Entry == [value : Versions, epoch : Nat]

Places == {"idle", "check", "epoch", "lookup", "join", "wait", "load", "set", "store",
           "done", "delete", "direct", "answer"}

\* `gen` is the epoch the lookup compares with, `leads` tells the flight's
\* second lookup from the first, `via` how the value came about.  `began`
\* is history: the epoch, which is also the number of edits whose editors were
\* answered, at the time the request arrived.
Task == [at : Places, key : Keys \cup {NoKey}, leads : BOOLEAN, gen : Nat,
         val : Versions \cup {Failed}, via : {"", "hit", "flight", "direct"},
         began : Nat]

Idle == [at |-> "idle", key |-> NoKey, leads |-> FALSE, gen |-> 0, val |-> Failed, via |-> "",
         began |-> 0]

At(r, place) == task[r].at = place
Key(r)       == task[r].key
Go(r, place) == task' = [task EXCEPT ![r].at = place]

-----------------------------------------------------------------------------
(* The store: a structural write commits, then the epoch is bumped, and only *)
(* then is the administrator answered.                                       *)

Write(e) ==
    /\ e \notin editing
    /\ source < MaxEdits
    /\ source' = source + 1
    /\ editing' = editing \cup {e}
    /\ UNCHANGED <<epoch, cache, flights, task>>

bumpEpoch(e) ==
    /\ e \in editing
    /\ epoch' = epoch + 1
    /\ editing' = editing \ {e}
    /\ UNCHANGED <<source, cache, flights, task>>

-----------------------------------------------------------------------------
(* get: the kill switch, the epoch, and then the entries under the lock *)

\* The handler asks the kill switch itself and reads directly when it is set.
Arrive(r, k) ==
    /\ At(r, "idle")
    /\ task' = [task EXCEPT ![r] =
                    [Idle EXCEPT !.at = IF disabled THEN "direct" ELSE "check", !.key = k,
                                 !.began = epoch]]
    /\ UNCHANGED <<store, cache, flights>>

afterMiss(r) == IF task[r].leads THEN "load" ELSE "join"

\* A hit answers the request, or is the result of the flight it leads.
afterHit(r) == IF task[r].leads THEN "done" ELSE "answer"

Missed(r) == task' = [task EXCEPT ![r].at = afterMiss(r), ![r].gen = 0]

CheckDisabled(r) ==
    /\ At(r, "check")
    /\ Go(r, IF disabled THEN afterMiss(r) ELSE "epoch")
    /\ UNCHANGED <<store, cache, flights>>

ReadEpoch(r) ==
    /\ At(r, "epoch")
    /\ task' = [task EXCEPT ![r].at = "lookup", ![r].gen = epoch]
    /\ UNCHANGED <<store, cache, flights>>

Cached(k) == k \in DOMAIN items

\* Mutant: an entry of any generation is a hit.
ValidAnyEpoch(r) == Cached(Key(r))

\* Whether the entry may be served, as far as the epoch decides.
Valid(r) == Cached(Key(r)) /\ items[Key(r)].epoch = task[r].gen

others(s, k) == SelectSeq(s, LAMBDA j : j # k)

moveToFront(k) == <<k>> \o others(lru, k)

Hit(r) ==
    /\ At(r, "lookup")
    /\ Valid(r)
    /\ lru' = moveToFront(Key(r))
    /\ task' = [task EXCEPT ![r].at = afterHit(r), ![r].via = "hit",
                            ![r].val = items[Key(r)].value, ![r].gen = items[Key(r)].epoch]
    /\ UNCHANGED <<store, items, disabled, clearing, flights>>

\* What lapsed or is of another epoch is dropped on sight.
DropStale(r) ==
    /\ At(r, "lookup")
    /\ Cached(Key(r))
    /\ items' = [k \in DOMAIN items \ {Key(r)} |-> items[k]]
    /\ lru' = others(lru, Key(r))
    /\ Missed(r)
    /\ UNCHANGED <<store, disabled, clearing, flights>>

Absent(r) ==
    /\ At(r, "lookup")
    /\ ~ Cached(Key(r))
    /\ Missed(r)
    /\ UNCHANGED <<store, cache, flights>>

-----------------------------------------------------------------------------
(* GetOrLoad: one flight per key, which looks again, loads and stores *)

\* Mutant: misses are not merged.
LeadAnyway(r) ==
    /\ At(r, "join")
    /\ flights' = [flights EXCEPT ![Key(r)] = r]
    /\ task' = [task EXCEPT ![r].at = "check", ![r].leads = TRUE]
    /\ UNCHANGED <<store, cache>>

Lead(r) ==
    /\ At(r, "join")
    /\ flights[Key(r)] = Nobody
    /\ flights' = [flights EXCEPT ![Key(r)] = r]
    /\ task' = [task EXCEPT ![r].at = "check", ![r].leads = TRUE]
    /\ UNCHANGED <<store, cache>>

\* A flight that is over is still found until its leader has deleted it.
Join(r) ==
    /\ At(r, "join")
    /\ \E leader \in Requests :
          /\ flights[Key(r)] = leader
          /\ IF At(leader, "delete")
             THEN task' = [task EXCEPT ![r].at = "answer", ![r].via = "flight",
                                       ![r].val = task[leader].val]
             ELSE Go(r, "wait")
    /\ UNCHANGED <<store, cache, flights>>

\* Mutant: an error leaves the flight without waking those who wait.
LoadAndLeave(r) ==
    /\ At(r, "load")
    /\ \/ task' = [task EXCEPT ![r].at = "set", ![r].via = "flight", ![r].val = source]
       \/ MayFail /\ task' = [task EXCEPT ![r].at = "delete", ![r].via = "flight",
                                          ![r].val = Failed]
    /\ UNCHANGED <<store, cache, flights>>

\* An error is the flight's result and is not stored.
Load(r) ==
    /\ At(r, "load")
    /\ \/ task' = [task EXCEPT ![r].at = "set", ![r].via = "flight", ![r].val = source]
       \/ MayFail /\ task' = [task EXCEPT ![r].at = "done", ![r].via = "flight",
                                          ![r].val = Failed]
    /\ UNCHANGED <<store, cache, flights>>

\* Set looks at the kill switch before it takes the lock.
CheckSet(r) ==
    /\ At(r, "set")
    /\ Go(r, IF disabled THEN "done" ELSE "store")
    /\ UNCHANGED <<store, cache, flights>>

\* Set stores under the epoch of this moment, and evicts what was used last.
Set(r) ==
    /\ At(r, "store")
    /\ LET keys    == DOMAIN items \cup {Key(r)}
           order   == moveToFront(Key(r))
           evicted == IF Cardinality(keys) > Capacity THEN {order[Len(order)]} ELSE {}
       IN  /\ items' = [k \in keys \ evicted |->
                           IF k = Key(r) THEN [value |-> task[r].val, epoch |-> epoch]
                                         ELSE items[k]]
           /\ lru' = SubSeq(order, 1, Len(order) - Cardinality(evicted))
    /\ Go(r, "done")
    /\ UNCHANGED <<store, disabled, clearing, flights>>

waitsFor(q, r) == At(q, "wait") /\ Key(q) = Key(r)

\* The wait group is done: everyone who waits on the flight gets its result.
Done(r) ==
    /\ At(r, "done")
    /\ task' = [q \in Requests |->
                   IF q = r THEN [task[q] EXCEPT !.at = "delete"]
                   ELSE IF waitsFor(q, r)
                        THEN [task[q] EXCEPT !.at = "answer", !.via = "flight",
                                             !.val = task[r].val]
                        ELSE task[q]]
    /\ UNCHANGED <<store, cache, flights>>

Delete(r) ==
    /\ At(r, "delete")
    /\ flights' = [flights EXCEPT ![Key(r)] = Nobody]
    /\ Go(r, "answer")
    /\ UNCHANGED <<store, cache>>

-----------------------------------------------------------------------------
(* The handler: when the cache returned an error it reads directly *)

LoadDirectly(r) ==
    /\ At(r, "direct")
    /\ \/ task' = [task EXCEPT ![r].at = "answer", ![r].via = "direct", ![r].val = source]
       \/ MayFail /\ task' = [task EXCEPT ![r].at = "answer", ![r].via = "direct",
                                          ![r].val = Failed]
    /\ UNCHANGED <<store, cache, flights>>

Answer(r) ==
    /\ At(r, "answer")
    /\ IF task[r].val = Failed /\ task[r].via # "direct"
       THEN Go(r, "direct")
       ELSE task' = [task EXCEPT ![r] = Idle]
    /\ UNCHANGED <<store, cache, flights>>

-----------------------------------------------------------------------------
(* Disable: latch, then empty the cache under the lock *)

Latch ==
    /\ MayDisable /\ ~ disabled
    /\ disabled' = TRUE
    /\ clearing' = TRUE
    /\ UNCHANGED <<store, items, lru, flights, task>>

Clear ==
    /\ clearing
    /\ items' = [k \in {} |-> [value |-> 0, epoch |-> 0]]
    /\ lru' = <<>>
    /\ clearing' = FALSE
    /\ UNCHANGED <<store, disabled, flights, task>>

-----------------------------------------------------------------------------

Init ==
    /\ source = 0
    /\ epoch = 0
    /\ editing = {}
    /\ items = [k \in {} |-> [value |-> 0, epoch |-> 0]]
    /\ lru = <<>>
    /\ disabled = FALSE
    /\ clearing = FALSE
    /\ flights = [k \in Keys |-> Nobody]
    /\ task = [r \in Requests |-> Idle]

Step(r) ==
    \/ CheckDisabled(r) \/ ReadEpoch(r) \/ Hit(r) \/ DropStale(r) \/ Absent(r)
    \/ Lead(r) \/ Join(r) \/ Load(r) \/ CheckSet(r) \/ Set(r) \/ Done(r) \/ Delete(r)
    \/ LoadDirectly(r) \/ Answer(r)

Next ==
    \/ \E r \in Requests : (\E k \in Keys : Arrive(r, k)) \/ Step(r)
    \/ \E e \in Editors : Write(e) \/ bumpEpoch(e)
    \/ Latch \/ Clear

Spec == Init /\ [][Next]_vars

\* A goroutine that can go on does, and every load returns.
FairSpec == Spec /\ \A r \in Requests : WF_vars(Step(r))

-----------------------------------------------------------------------------
(* Properties *)

\* The map of entries and its recency list name the same keys, once each.
MapMatchesList ==
    /\ Len(lru) = Cardinality(DOMAIN items)
    /\ DOMAIN items = {lru[i] : i \in 1..Len(lru)}

\* Every variable has its type; what is cached is never an error.
TypeOK ==
    /\ source \in Versions
    /\ epoch \in Nat
    /\ editing \subseteq Editors
    /\ DOMAIN items \subseteq Keys
    /\ \A k \in DOMAIN items : items[k] \in Entry
    /\ {disabled, clearing} \subseteq BOOLEAN
    /\ flights \in [Keys -> Requests \cup {Nobody}]
    /\ task \in [Requests -> Task]

\* "Memory cannot grow without bound": whatever stores, drops and clears run at
\* once, the map and the list agree, and no more entries exist than the capacity.
CacheIsBounded == MapMatchesList /\ Cardinality(DOMAIN items) <= Capacity

flying == {"check", "epoch", "lookup", "load", "set", "store", "done", "delete"}

\* "Concurrent misses on one key trigger exactly one loader call": at most one
\* request leads a flight for a key, also while an old flight is being deleted.
OneFlightPerKey ==
    \A q, r \in Requests :
        /\ task[q].leads /\ task[q].at \in flying
        /\ task[r].leads /\ task[r].at \in flying
        /\ Key(q) = Key(r)
        => q = r

\* The structural epoch: an entry that was stored before an edit was answered is
\* no hit for a request that arrives after it.
HitsAreCurrent ==
    \A r \in Requests : At(r, "answer") /\ task[r].via = "hit" => task[r].gen >= task[r].began

\* "An admin edit is visible to the very next request" (handlers_public.go).
FreshAfterEdit ==
    \A r \in Requests :
        At(r, "answer") /\ task[r].val # Failed => task[r].val >= task[r].began

\* The kill switch's other half, "Set never stores".
DisabledStaysEmpty == disabled /\ ~ clearing => DOMAIN items = {}

\* Nobody is left waiting on a flight, whether its load fails or not.
EveryRequestAnswered ==
    \A r \in Requests : ~ At(r, "idle") ~> At(r, "idle")

=============================================================================

-------------------------- MODULE ReadCacheProofs --------------------------
(***************************************************************************)
(* Theorems about the read cache, for any number of keys, requests,        *)
(* editors and edits: its types, that concurrent misses are merged, and    *)
(* that a hit is never of an epoch older than the request.                 *)
(***************************************************************************)
EXTENDS ReadCache, TLAPS

\* Where a request runs the function of the flight it leads.
leading == {"load", "set", "store", "done", "delete"}

\* What every place in GetOrLoad may rely on: the flight that is found for a
\* key is the one that flies for it, what is about to be stored is no error,
\* and the epoch a lookup or a hit goes by is not older than the request.
Steady(q) ==
    /\ task[q].at # "idle" => task[q].key \in Keys
    /\ task[q].at \in {"set", "store"} => task[q].val \in Nat /\ task[q].via = "flight"
    /\ task[q].at \in leading => task[q].leads
    /\ task[q].leads /\ task[q].at \in flying => flights[task[q].key] = q
    /\ task[q].began <= epoch
    /\ task[q].at = "lookup" => task[q].gen >= task[q].began
    /\ task[q].at \in {"done", "delete", "answer"} /\ task[q].via = "hit"
          => task[q].gen >= task[q].began

IInv == TypeOK /\ \A q \in Requests : Steady(q)

-----------------------------------------------------------------------------

\* The empty cache, with nobody at work, satisfies the invariant.
LEMMA InitEstablishes == Init => IInv
<1>1. SUFFICES ASSUME Init PROVE IInv
  OBVIOUS
<1>2. Idle \in Task
  BY DEF Idle, Task, Places, Versions
<1>3. TypeOK
  BY <1>1, <1>2 DEF Init, TypeOK, Versions
<1>4. ASSUME NEW q \in Requests PROVE Steady(q)
  <2>1. task[q].at = "idle" /\ ~ task[q].leads /\ task[q].began = 0 /\ epoch = 0
    BY <1>1 DEF Init, Idle
  <2> QED
    BY <2>1 DEF Steady, leading, flying
<1> QED
  BY <1>3, <1>4 DEF IInv

\* A request moves to the place p and changes nothing else.
LEMMA Going ==
    ASSUME TypeOK, NEW r \in Requests, NEW p \in Places, Go(r, p)
    PROVE  /\ task' \in [Requests -> Task]
           /\ \A q \in Requests \ {r} : task'[q] = task[q]
           /\ task'[r].at = p
           /\ task'[r].key = task[r].key /\ task'[r].leads = task[r].leads
           /\ task'[r].gen = task[r].gen /\ task'[r].val = task[r].val
           /\ task'[r].via = task[r].via /\ task'[r].began = task[r].began
  BY DEF Go, TypeOK, Task

\* A request whose own task and flight are left alone stays steady.
LEMMA Undisturbed ==
    ASSUME IInv, NEW q \in Requests, task'[q] = task[q],
           epoch \in Nat, epoch' \in Nat, epoch <= epoch',
           task[q].leads /\ task[q].at \in flying
              => flights'[task[q].key] = flights[task[q].key]
    PROVE  Steady(q)'
<1>1. task[q].began \in Nat
  BY DEF IInv, TypeOK, Task
<1> QED
  BY <1>1 DEF IInv, Steady, leading, flying

\* What the steps of one request have in common: its own task is the only one
\* that changes, and the store and the flights do not.
LEMMA OneRequest ==
    ASSUME IInv, NEW r \in Requests, TypeOK', epoch' = epoch, flights' = flights,
           \A q \in Requests \ {r} : task'[q] = task[q],
           Steady(r)'
    PROVE  IInv'
<1>1. epoch \in Nat /\ epoch' \in Nat /\ epoch <= epoch'
  BY DEF IInv, TypeOK
<1>2. ASSUME NEW q \in Requests \ {r} PROVE Steady(q)'
  BY <1>1, <1>2, Undisturbed
<1> QED
  BY <1>2 DEF IInv

-----------------------------------------------------------------------------
(* The lookup *)

\* A request notes the epoch it arrives in.
LEMMA ArriveSteady ==
    ASSUME IInv, NEW r \in Requests, NEW k \in Keys, Arrive(r, k) PROVE IInv'
<1> DEFINE t == [Idle EXCEPT !.at = IF disabled THEN "direct" ELSE "check", !.key = k,
                             !.began = epoch]
<1>1. t \in Task /\ t.at \in {"direct", "check"} /\ t.key = k /\ t.began = epoch /\ ~ t.leads
  BY DEF IInv, TypeOK, Task, Idle, Places, Versions
<1>2. task' = [task EXCEPT ![r] = t]
  BY DEF Arrive
<1> HIDE DEF t
<1>3. /\ task' \in [Requests -> Task] /\ task'[r] = t
      /\ \A q \in Requests \ {r} : task'[q] = task[q]
  BY <1>1, <1>2 DEF IInv, TypeOK
<1>4. TypeOK' /\ epoch' = epoch /\ flights' = flights
  BY <1>3 DEF IInv, TypeOK, Arrive, store, cache
<1>5. Steady(r)'
  BY <1>1, <1>3, <1>4 DEF Steady, leading, flying, IInv, TypeOK
<1> QED
  BY <1>3, <1>4, <1>5, OneRequest

\* A disabled cache is a miss: the leader goes on to load, the others to the flights.
LEMMA CheckDisabledSteady ==
    ASSUME IInv, NEW r \in Requests, CheckDisabled(r) PROVE IInv'
<1>1. PICK p \in {"join", "load", "epoch"} :
         Go(r, p) /\ (p = "load" => task[r].leads)
  BY DEF CheckDisabled, afterMiss
<1>2. p \in Places
  BY DEF Places
<1>3. /\ task' \in [Requests -> Task]
      /\ \A q \in Requests \ {r} : task'[q] = task[q]
      /\ task'[r].at = p
      /\ task'[r].key = task[r].key /\ task'[r].leads = task[r].leads
      /\ task'[r].began = task[r].began
  BY <1>1, <1>2, Going DEF IInv
<1>4. TypeOK' /\ epoch' = epoch /\ flights' = flights
  BY <1>3 DEF IInv, TypeOK, CheckDisabled, store, cache
<1>5. Steady(r)'
  BY <1>1, <1>3, <1>4 DEF Steady, leading, flying, IInv, CheckDisabled, At
<1> QED
  BY <1>3, <1>4, <1>5, OneRequest

\* The epoch a lookup goes by is the current one, so not older than the request.
LEMMA ReadEpochSteady ==
    ASSUME IInv, NEW r \in Requests, ReadEpoch(r) PROVE IInv'
<1>1. /\ task' \in [Requests -> Task]
      /\ \A q \in Requests \ {r} : task'[q] = task[q]
      /\ task'[r].at = "lookup" /\ task'[r].gen = epoch
      /\ task'[r].key = task[r].key /\ task'[r].leads = task[r].leads
      /\ task'[r].began = task[r].began
  BY DEF IInv, TypeOK, ReadEpoch, Task, Places
<1>2. TypeOK' /\ epoch' = epoch /\ flights' = flights
  BY <1>1 DEF IInv, TypeOK, ReadEpoch, store, cache
<1>3. Steady(r)'
  <2>1. task[r].began <= epoch /\ task[r].began \in Nat /\ epoch \in Nat
    BY DEF IInv, Steady, TypeOK, Task
  <2>2. task[r].key \in Keys /\ (task[r].leads => flights[task[r].key] = r)
    BY DEF IInv, Steady, ReadEpoch, At, flying
  <2> QED
    BY <1>1, <1>2, <2>1, <2>2 DEF Steady, leading, flying
<1> QED
  BY <1>1, <1>2, <1>3, OneRequest

\* A hit carries the epoch of its lookup.
LEMMA HitSteady ==
    ASSUME IInv, NEW r \in Requests, Hit(r) PROVE IInv'
<1>1. /\ task[r].at = "lookup" /\ task[r].key \in DOMAIN items
      /\ items[task[r].key] \in Entry /\ items[task[r].key].epoch = task[r].gen
  BY DEF IInv, TypeOK, Hit, Valid, Cached, At, Key
<1>2. items[task[r].key].value \in Nat /\ items[task[r].key].epoch \in Nat
  BY <1>1 DEF Entry, Versions
<1>3. PICK p \in {"done", "answer"} :
         /\ task' = [task EXCEPT ![r].at = p, ![r].via = "hit",
                        ![r].val = items[task[r].key].value,
                        ![r].gen = items[task[r].key].epoch]
         /\ p = "done" <=> task[r].leads
  BY DEF Hit, afterHit, Key
<1>4. /\ task' \in [Requests -> Task]
      /\ \A q \in Requests \ {r} : task'[q] = task[q]
      /\ task'[r].at = p /\ task'[r].gen = task[r].gen
      /\ task'[r].key = task[r].key /\ task'[r].leads = task[r].leads
      /\ task'[r].began = task[r].began
  <2> DEFINE v == items[task[r].key].value
             t == [task[r] EXCEPT !.at = p, !.via = "hit", !.val = v, !.gen = task[r].gen]
  <2>1. task[r] \in Task /\ task \in [Requests -> Task]
    BY DEF IInv, TypeOK
  <2>2. p \in Places /\ v \in Versions \cup {Failed}
    BY <1>2 DEF Places, Versions
  <2>3. task' = [task EXCEPT ![r] = t]
    BY <1>1, <1>3, <2>1
  <2> HIDE DEF v
  <2>4. /\ t \in Task /\ t.at = p /\ t.gen = task[r].gen /\ t.key = task[r].key
        /\ t.leads = task[r].leads /\ t.began = task[r].began
    BY <2>1, <2>2 DEF Task
  <2> HIDE DEF t
  <2> QED
    BY <2>1, <2>3, <2>4
<1>5. TypeOK' /\ epoch' = epoch /\ flights' = flights
  BY <1>4 DEF IInv, TypeOK, Hit, store
<1>6. Steady(r)'
  BY <1>1, <1>3, <1>4, <1>5 DEF Steady, leading, flying, IInv
<1> QED
  BY <1>4, <1>5, <1>6, OneRequest

\* A miss leads on to the flight, or to the load of the flight's leader.
LEMMA Missing ==
    ASSUME IInv, NEW r \in Requests, task[r].at = "lookup", Missed(r),
           epoch' = epoch, flights' = flights
    PROVE  /\ task' \in [Requests -> Task]
           /\ \A q \in Requests \ {r} : task'[q] = task[q]
           /\ Steady(r)'
<1>1. PICK p \in {"join", "load"} :
         /\ task' = [task EXCEPT ![r].at = p, ![r].gen = 0]
         /\ p = "load" <=> task[r].leads
  BY DEF Missed, afterMiss
<1>2. /\ task' \in [Requests -> Task]
      /\ \A q \in Requests \ {r} : task'[q] = task[q]
      /\ task'[r].at = p
      /\ task'[r].key = task[r].key /\ task'[r].leads = task[r].leads
      /\ task'[r].began = task[r].began
  <2>1. p \in Places
    BY DEF Places
  <2> QED
    BY <1>1, <2>1 DEF IInv, TypeOK, Task
<1>3. Steady(r)'
  BY <1>1, <1>2 DEF Steady, leading, flying, IInv
<1> QED
  BY <1>2, <1>3

\* A dropped entry is a miss.
LEMMA DropStaleSteady ==
    ASSUME IInv, NEW r \in Requests, DropStale(r) PROVE IInv'
<1>1. task[r].at = "lookup" /\ Missed(r) /\ epoch' = epoch /\ flights' = flights
  BY DEF DropStale, At, store
<1>2. /\ task' \in [Requests -> Task]
      /\ \A q \in Requests \ {r} : task'[q] = task[q]
      /\ Steady(r)'
  BY <1>1, Missing
<1>3. items' = [k \in DOMAIN items \ {task[r].key} |-> items[k]]
  BY DEF DropStale, Key
<1>4. TypeOK'
  BY <1>1, <1>2, <1>3 DEF IInv, TypeOK, DropStale, store
<1> QED
  BY <1>1, <1>2, <1>4, OneRequest

\* So is one that is not there.
LEMMA AbsentSteady ==
    ASSUME IInv, NEW r \in Requests, Absent(r) PROVE IInv'
<1>1. task[r].at = "lookup" /\ Missed(r) /\ epoch' = epoch /\ flights' = flights
  BY DEF Absent, At, store
<1>2. /\ task' \in [Requests -> Task]
      /\ \A q \in Requests \ {r} : task'[q] = task[q]
      /\ Steady(r)'
  BY <1>1, Missing
<1>3. TypeOK'
  BY <1>1, <1>2 DEF IInv, TypeOK, Absent, store, cache
<1> QED
  BY <1>1, <1>2, <1>3, OneRequest

-----------------------------------------------------------------------------
(* The flight *)

\* A flight starts only when nobody flies for the key.
LEMMA LeadSteady ==
    ASSUME IInv, NEW r \in Requests, Lead(r) PROVE IInv'
<1>1. /\ task[r].at = "join" /\ flights[task[r].key] = Nobody
      /\ flights' = [flights EXCEPT ![task[r].key] = r]
      /\ task' = [task EXCEPT ![r].at = "check", ![r].leads = TRUE]
      /\ epoch' = epoch
  BY DEF Lead, At, Key, store
<1>2. task[r].key \in Keys /\ task[r].began <= epoch
  BY <1>1 DEF IInv, Steady
<1>3. /\ task' \in [Requests -> Task]
      /\ \A q \in Requests \ {r} : task'[q] = task[q]
      /\ task'[r].at = "check" /\ task'[r].key = task[r].key
      /\ task'[r].began = task[r].began
  <2> DEFINE t == [task[r] EXCEPT !.at = "check", !.leads = TRUE]
  <2>1. task[r] \in Task /\ task \in [Requests -> Task]
    BY DEF IInv, TypeOK
  <2>2. task' = [task EXCEPT ![r] = t]
    BY <1>1
  <2>3. t \in Task /\ t.at = "check" /\ t.key = task[r].key /\ t.began = task[r].began
    BY <2>1 DEF Task, Places
  <2> HIDE DEF t
  <2> QED
    BY <2>1, <2>2, <2>3
<1>4. /\ flights' \in [Keys -> Requests \cup {Nobody}] /\ flights'[task[r].key] = r
      /\ \A k \in Keys \ {task[r].key} : flights'[k] = flights[k]
  BY <1>1, <1>2 DEF IInv, TypeOK
<1>5. TypeOK'
  BY <1>3, <1>4 DEF IInv, TypeOK, Lead, store, cache
<1>6. Steady(r)'
  BY <1>1, <1>2, <1>3, <1>4 DEF Steady, leading, flying
<1>7. ASSUME NEW q \in Requests \ {r} PROVE Steady(q)'
  <2>1. ASSUME task[q].leads, task[q].at \in flying
        PROVE  flights'[task[q].key] = flights[task[q].key]
    <3>1. flights[task[q].key] = q /\ task[q].key \in Keys
      BY <2>1 DEF IInv, Steady, flying
    <3>2. task[q].key # task[r].key
      BY <1>1, <3>1, NamesAssumption
    <3> QED
      BY <1>4, <3>1, <3>2
  <2>2. epoch \in Nat /\ epoch' \in Nat /\ epoch <= epoch'
    BY <1>1 DEF IInv, TypeOK
  <2> QED
    BY <1>3, <2>1, <2>2, Undisturbed
<1> QED
  BY <1>5, <1>6, <1>7 DEF IInv

\* Who finds a flight waits for it, or takes the result it has left.
LEMMA JoinSteady ==
    ASSUME IInv, NEW r \in Requests, Join(r) PROVE IInv'
<1>1. task[r].at = "join" /\ epoch' = epoch /\ flights' = flights
  BY DEF Join, At, store
<1>2. task[r].key \in Keys /\ task[r].began <= epoch
  BY <1>1 DEF IInv, Steady
<1>3. /\ task' \in [Requests -> Task]
      /\ \A q \in Requests \ {r} : task'[q] = task[q]
      /\ task'[r].at = "wait" \/ (task'[r].at = "answer" /\ task'[r].via = "flight")
      /\ task'[r].key = task[r].key /\ task'[r].began = task[r].began
  <2>1. PICK leader \in Requests :
           IF At(leader, "delete")
           THEN task' = [task EXCEPT ![r].at = "answer", ![r].via = "flight",
                                     ![r].val = task[leader].val]
           ELSE Go(r, "wait")
    BY DEF Join
  <2>2. CASE At(leader, "delete")
    <3> DEFINE v == task[leader].val
               t == [task[r] EXCEPT !.at = "answer", !.via = "flight", !.val = v]
    <3>1. task[r] \in Task /\ task \in [Requests -> Task]
      BY DEF IInv, TypeOK
    <3>2. v \in Versions \cup {Failed}
      BY DEF IInv, TypeOK, Task
    <3>3. task' = [task EXCEPT ![r] = t]
      BY <2>1, <2>2
    <3> HIDE DEF v
    <3>4. /\ t \in Task /\ t.at = "answer" /\ t.via = "flight" /\ t.key = task[r].key
          /\ t.began = task[r].began
      BY <3>1, <3>2 DEF Task, Places
    <3> HIDE DEF t
    <3> QED
      BY <3>1, <3>3, <3>4
  <2>3. CASE ~ At(leader, "delete")
    <3>1. TypeOK /\ "wait" \in Places /\ Go(r, "wait")
      BY <2>1, <2>3 DEF IInv, Places
    <3>2. /\ task' \in [Requests -> Task]
          /\ \A q \in Requests \ {r} : task'[q] = task[q]
          /\ task'[r].at = "wait"
          /\ task'[r].key = task[r].key /\ task'[r].began = task[r].began
      BY <3>1 DEF TypeOK, Go, Task
    <3> QED
      BY <3>2
  <2> QED
    BY <2>2, <2>3
<1>4. TypeOK'
  BY <1>1, <1>3 DEF IInv, TypeOK, Join, store, cache
<1>5. Steady(r)'
  BY <1>1, <1>2, <1>3 DEF Steady, leading, flying
<1> QED
  BY <1>1, <1>3, <1>4, <1>5, OneRequest

\* What goes on to be stored is not an error.
LEMMA LoadSteady ==
    ASSUME IInv, NEW r \in Requests, Load(r) PROVE IInv'
<1>1. task[r].at = "load" /\ epoch' = epoch /\ flights' = flights /\ source \in Nat
  BY DEF Load, At, store, IInv, TypeOK, Versions
<1>2. /\ task[r].key \in Keys /\ task[r].began <= epoch /\ task[r].leads
      /\ flights[task[r].key] = r
  BY <1>1 DEF IInv, Steady, leading, flying
<1>3. PICK p \in {"set", "done"}, v \in Nat \cup {Failed} :
         /\ task' = [task EXCEPT ![r].at = p, ![r].via = "flight", ![r].val = v]
         /\ p = "set" => v \in Nat
  BY <1>1 DEF Load
<1>4. /\ task' \in [Requests -> Task]
      /\ \A q \in Requests \ {r} : task'[q] = task[q]
      /\ task'[r].at = p /\ task'[r].via = "flight" /\ task'[r].val = v
      /\ task'[r].key = task[r].key /\ task'[r].leads = task[r].leads
      /\ task'[r].began = task[r].began
  <2> DEFINE t == [task[r] EXCEPT !.at = p, !.via = "flight", !.val = v]
  <2>1. task[r] \in Task /\ task \in [Requests -> Task] /\ p \in Places
    BY DEF IInv, TypeOK, Places
  <2>2. task' = [task EXCEPT ![r] = t]
    BY <1>3
  <2>3. /\ t \in Task /\ t.at = p /\ t.via = "flight" /\ t.val = v /\ t.key = task[r].key
        /\ t.leads = task[r].leads /\ t.began = task[r].began
    BY <2>1 DEF Task, Versions
  <2> HIDE DEF t
  <2> QED
    BY <2>1, <2>2, <2>3
<1>5. TypeOK'
  BY <1>1, <1>4 DEF IInv, TypeOK, Load, store, cache
<1>6. Steady(r)'
  BY <1>1, <1>2, <1>3, <1>4 DEF Steady, leading, flying
<1> QED
  BY <1>1, <1>4, <1>5, <1>6, OneRequest

\* The look at the kill switch keeps what is about to be stored.
LEMMA CheckSetSteady ==
    ASSUME IInv, NEW r \in Requests, CheckSet(r) PROVE IInv'
<1>1. task[r].at = "set" /\ epoch' = epoch /\ flights' = flights
  BY DEF CheckSet, At, store
<1>2. PICK p \in {"done", "store"} : Go(r, p)
  BY DEF CheckSet
<1>3. /\ task' \in [Requests -> Task]
      /\ \A q \in Requests \ {r} : task'[q] = task[q]
      /\ task'[r] = [task[r] EXCEPT !.at = p]
      /\ task'[r].at = p
      /\ task'[r].key = task[r].key /\ task'[r].leads = task[r].leads
      /\ task'[r].gen = task[r].gen /\ task'[r].val = task[r].val
      /\ task'[r].via = task[r].via /\ task'[r].began = task[r].began
  <2>1. p \in Places
    BY DEF Places
  <2> QED
    BY <1>2, <2>1, Going DEF IInv, Go, TypeOK
<1>4. TypeOK'
  BY <1>1, <1>3 DEF IInv, TypeOK, CheckSet, store, cache
<1>5. Steady(r)'
  BY <1>1, <1>3, <1>4 DEF Steady, leading, flying, IInv
<1> QED
  BY <1>1, <1>3, <1>4, <1>5, OneRequest

\* What Set leaves in the cache are entries, whichever keys it evicts.
LEMMA SetSteady ==
    ASSUME IInv, NEW r \in Requests, Set(r) PROVE IInv'
<1>1. /\ task[r].at = "store" /\ epoch' = epoch /\ flights' = flights
      /\ Go(r, "done") /\ "done" \in Places
  BY DEF Set, At, store, Places
<1>2. /\ task[r].val \in Nat /\ task[r].via = "flight" /\ task[r].key \in Keys
      /\ task[r].leads /\ flights[task[r].key] = r /\ task[r].began <= epoch
  BY <1>1 DEF IInv, Steady, leading, flying
<1>3. /\ task' \in [Requests -> Task]
      /\ \A q \in Requests \ {r} : task'[q] = task[q]
      /\ task'[r].at = "done"
      /\ task'[r].key = task[r].key /\ task'[r].leads = task[r].leads
      /\ task'[r].via = task[r].via /\ task'[r].began = task[r].began
  BY <1>1, Going DEF IInv
<1>4. /\ DOMAIN items' \subseteq Keys
      /\ \A k \in DOMAIN items' : items'[k] \in Entry
  <2>1. PICK kept \in SUBSET (DOMAIN items \cup {task[r].key}) :
           items' = [k \in kept |->
                        IF k = task[r].key THEN [value |-> task[r].val, epoch |-> epoch]
                                           ELSE items[k]]
    BY DEF Set, Key
  <2>2. [value |-> task[r].val, epoch |-> epoch] \in Entry
    BY <1>2 DEF Entry, Versions, IInv, TypeOK
  <2>3. /\ DOMAIN items \subseteq Keys
        /\ \A k \in DOMAIN items : items[k] \in Entry
    BY DEF IInv, TypeOK
  <2> QED
    BY <1>2, <2>1, <2>2, <2>3
<1>5. TypeOK'
  BY <1>1, <1>3, <1>4 DEF IInv, TypeOK, Set, store
<1>6. Steady(r)'
  BY <1>1, <1>2, <1>3 DEF Steady, leading, flying
<1> QED
  BY <1>1, <1>3, <1>5, <1>6, OneRequest

\* The leader's result reaches those who wait, who lead nothing.
LEMMA DoneSteady ==
    ASSUME IInv, NEW r \in Requests, Done(r) PROVE IInv'
<1>1. task[r].at = "done" /\ epoch' = epoch /\ flights' = flights
  BY DEF Done, At, store
<1> DEFINE over   == [task[r] EXCEPT !.at = "delete"]
           got(q) == [task[q] EXCEPT !.at = "answer", !.via = "flight", !.val = task[r].val]
<1>2. /\ over \in Task /\ over.at = "delete"
      /\ over.key = task[r].key /\ over.leads = task[r].leads
      /\ over.gen = task[r].gen /\ over.via = task[r].via /\ over.began = task[r].began
  BY DEF IInv, TypeOK, Task, Places
<1>3. ASSUME NEW q \in Requests
      PROVE  /\ got(q) \in Task /\ got(q).at = "answer" /\ got(q).via = "flight"
             /\ got(q).key = task[q].key /\ got(q).began = task[q].began
  <2>1. task[q] \in Task /\ task[r].val \in Versions \cup {Failed} /\ "answer" \in Places
    BY DEF IInv, TypeOK, Task, Places
  <2> QED
    BY <2>1 DEF Task
<1>4. task' = [q \in Requests |-> IF q = r THEN over
                                 ELSE IF waitsFor(q, r) THEN got(q) ELSE task[q]]
  BY DEF Done
<1> HIDE DEF over, got
<1>5. task' \in [Requests -> Task]
  BY <1>2, <1>3, <1>4 DEF IInv, TypeOK
<1>6. TypeOK'
  BY <1>1, <1>5 DEF IInv, TypeOK, Done, store, cache
<1>7. ASSUME NEW q \in Requests PROVE Steady(q)'
  <2>1. CASE q = r
    <3>1. task'[q] = over
      BY <1>4, <2>1
    <3>2. /\ task[r].key \in Keys /\ task[r].leads /\ flights[task[r].key] = r
          /\ task[r].began <= epoch
          /\ task[r].via = "hit" => task[r].gen >= task[r].began
      BY <1>1 DEF IInv, Steady, leading, flying
    <3> QED
      BY <1>1, <1>2, <2>1, <3>1, <3>2 DEF Steady, leading, flying
  <2>2. CASE q # r /\ waitsFor(q, r)
    <3>1. task'[q] = got(q)
      BY <1>4, <2>2
    <3>2. task[q].key \in Keys /\ task[q].began <= epoch
      BY <2>2 DEF IInv, Steady, waitsFor, At
    <3> QED
      BY <1>1, <1>3, <3>1, <3>2 DEF Steady, leading, flying
  <2>3. CASE q # r /\ ~ waitsFor(q, r)
    <3>1. task'[q] = task[q]
      BY <1>4, <2>3
    <3>2. epoch \in Nat /\ epoch' \in Nat /\ epoch <= epoch'
      BY <1>1 DEF IInv, TypeOK
    <3> QED
      BY <1>1, <3>1, <3>2, Undisturbed
  <2> QED
    BY <2>1, <2>2, <2>3
<1> QED
  BY <1>6, <1>7 DEF IInv

\* The flight that is deleted is the leader's own, and nobody else's.
LEMMA DeleteSteady ==
    ASSUME IInv, NEW r \in Requests, Delete(r) PROVE IInv'
<1>1. /\ task[r].at = "delete" /\ epoch' = epoch
      /\ flights' = [flights EXCEPT ![task[r].key] = Nobody]
      /\ Go(r, "answer") /\ "answer" \in Places
  BY DEF Delete, At, Key, store, Places
<1>2. /\ task[r].key \in Keys /\ flights[task[r].key] = r /\ task[r].began <= epoch
      /\ task[r].via = "hit" => task[r].gen >= task[r].began
  BY <1>1 DEF IInv, Steady, leading, flying
<1>3. /\ task' \in [Requests -> Task]
      /\ \A q \in Requests \ {r} : task'[q] = task[q]
      /\ task'[r].at = "answer"
      /\ task'[r].key = task[r].key /\ task'[r].gen = task[r].gen
      /\ task'[r].via = task[r].via /\ task'[r].began = task[r].began
  BY <1>1, Going DEF IInv
<1>4. /\ flights' \in [Keys -> Requests \cup {Nobody}]
      /\ \A k \in Keys \ {task[r].key} : flights'[k] = flights[k]
  BY <1>1, <1>2 DEF IInv, TypeOK
<1>5. TypeOK'
  BY <1>3, <1>4 DEF IInv, TypeOK, Delete, store, cache
<1>6. Steady(r)'
  BY <1>1, <1>2, <1>3 DEF Steady, leading, flying
<1>7. ASSUME NEW q \in Requests \ {r} PROVE Steady(q)'
  <2>1. ASSUME task[q].leads, task[q].at \in flying
        PROVE  flights'[task[q].key] = flights[task[q].key]
    <3>1. flights[task[q].key] = q /\ task[q].key \in Keys
      BY <2>1 DEF IInv, Steady, flying
    <3>2. task[q].key # task[r].key
      BY <1>2, <3>1
    <3> QED
      BY <1>4, <3>1, <3>2
  <2>2. epoch \in Nat /\ epoch' \in Nat /\ epoch <= epoch'
    BY <1>1 DEF IInv, TypeOK
  <2> QED
    BY <1>3, <2>1, <2>2, Undisturbed
<1> QED
  BY <1>5, <1>6, <1>7 DEF IInv

-----------------------------------------------------------------------------
(* The handler, the editors and the kill switch *)

\* A direct read is no hit.
LEMMA LoadDirectlySteady ==
    ASSUME IInv, NEW r \in Requests, LoadDirectly(r) PROVE IInv'
<1>1. task[r].at = "direct" /\ epoch' = epoch /\ flights' = flights /\ source \in Nat
  BY DEF LoadDirectly, At, store, IInv, TypeOK, Versions
<1>2. task[r].key \in Keys /\ task[r].began <= epoch
  BY <1>1 DEF IInv, Steady
<1>3. PICK v \in Nat \cup {Failed} :
         task' = [task EXCEPT ![r].at = "answer", ![r].via = "direct", ![r].val = v]
  BY <1>1 DEF LoadDirectly
<1>4. /\ task' \in [Requests -> Task]
      /\ \A q \in Requests \ {r} : task'[q] = task[q]
      /\ task'[r].at = "answer" /\ task'[r].via = "direct"
      /\ task'[r].key = task[r].key /\ task'[r].began = task[r].began
  <2> DEFINE t == [task[r] EXCEPT !.at = "answer", !.via = "direct", !.val = v]
  <2>1. task[r] \in Task /\ task \in [Requests -> Task]
    BY DEF IInv, TypeOK
  <2>2. task' = [task EXCEPT ![r] = t]
    BY <1>3
  <2>3. /\ t \in Task /\ t.at = "answer" /\ t.via = "direct" /\ t.key = task[r].key
        /\ t.began = task[r].began
    BY <2>1 DEF Task, Versions, Places
  <2> HIDE DEF t
  <2> QED
    BY <2>1, <2>2, <2>3
<1>5. TypeOK'
  BY <1>1, <1>4 DEF IInv, TypeOK, LoadDirectly, store, cache
<1>6. Steady(r)'
  BY <1>1, <1>2, <1>4 DEF Steady, leading, flying
<1> QED
  BY <1>1, <1>4, <1>5, <1>6, OneRequest

\* An answered request is idle again, or reads directly.
LEMMA AnswerSteady ==
    ASSUME IInv, NEW r \in Requests, Answer(r) PROVE IInv'
<1>1. task[r].at = "answer" /\ epoch' = epoch /\ flights' = flights /\ epoch \in Nat
  BY DEF Answer, At, store, IInv, TypeOK
<1>2. task[r].key \in Keys /\ task[r].began <= epoch
  BY <1>1 DEF IInv, Steady
<1>3. CASE task' = [task EXCEPT ![r] = Idle]
  <2>1. /\ Idle \in Task /\ Idle.at = "idle" /\ ~ Idle.leads /\ Idle.began = 0
    BY DEF Idle, Task, Places, Versions
  <2>2. /\ task' \in [Requests -> Task] /\ task'[r] = Idle
        /\ \A q \in Requests \ {r} : task'[q] = task[q]
    BY <1>3, <2>1 DEF IInv, TypeOK
  <2>3. TypeOK'
    BY <1>1, <2>2 DEF IInv, TypeOK, Answer, store, cache
  <2>4. Steady(r)'
    BY <1>1, <2>1, <2>2 DEF Steady, leading, flying
  <2> QED
    BY <1>1, <2>2, <2>3, <2>4, OneRequest
<1>4. CASE Go(r, "direct")
  <2>1. "direct" \in Places
    BY DEF Places
  <2>2. /\ task' \in [Requests -> Task]
        /\ \A q \in Requests \ {r} : task'[q] = task[q]
        /\ task'[r].at = "direct"
        /\ task'[r].key = task[r].key /\ task'[r].began = task[r].began
    BY <1>4, <2>1 DEF IInv, TypeOK, Go, Task
  <2>3. TypeOK'
    BY <1>1, <2>2 DEF IInv, TypeOK, Answer, store, cache
  <2>4. Steady(r)'
    BY <1>1, <1>2, <2>2 DEF Steady, leading, flying
  <2> QED
    BY <1>1, <2>2, <2>3, <2>4, OneRequest
<1> QED
  BY <1>3, <1>4 DEF Answer

\* Steps that leave the requests and the flights alone.
LEMMA NoRequest ==
    ASSUME IInv, TypeOK', task' = task, flights' = flights, epoch <= epoch' PROVE IInv'
<1>1. epoch \in Nat /\ epoch' \in Nat
  BY DEF IInv, TypeOK
<1>2. ASSUME NEW q \in Requests PROVE Steady(q)'
  BY <1>1, Undisturbed
<1> QED
  BY <1>2 DEF IInv

\* Edits leave the requests alone and the epoch grows.
LEMMA StoreSteady ==
    ASSUME IInv, NEW e \in Editors, Write(e) \/ bumpEpoch(e) PROVE IInv'
<1>1. source \in Nat /\ epoch \in Nat
  BY DEF IInv, TypeOK, Versions
<1>2. task' = task /\ flights' = flights /\ epoch <= epoch'
  BY <1>1 DEF Write, bumpEpoch
<1>3. TypeOK'
  BY <1>1 DEF IInv, TypeOK, Versions, Write, bumpEpoch, cache
<1> QED
  BY <1>2, <1>3, NoRequest

\* The kill switch empties the cache and touches no request.
LEMMA DisableSteady ==
    ASSUME IInv, Latch \/ Clear PROVE IInv'
<1>1. task' = task /\ flights' = flights /\ epoch <= epoch'
  BY DEF Latch, Clear, store, IInv, TypeOK
<1>2. TypeOK'
  BY DEF IInv, TypeOK, Latch, Clear, store
<1> QED
  BY <1>1, <1>2, NoRequest

-----------------------------------------------------------------------------

\* Every step preserves the invariant.
LEMMA NextPreserves == IInv /\ [Next]_vars => IInv'
<1> SUFFICES ASSUME IInv, [Next]_vars PROVE IInv'
  OBVIOUS
<1>1. ASSUME NEW r \in Requests, Step(r) PROVE IInv'
  BY <1>1, CheckDisabledSteady, ReadEpochSteady, HitSteady, DropStaleSteady, AbsentSteady,
     LeadSteady, JoinSteady, LoadSteady, CheckSetSteady, SetSteady, DoneSteady, DeleteSteady,
     LoadDirectlySteady, AnswerSteady DEF Step
<1>2. ASSUME NEW r \in Requests, NEW k \in Keys, Arrive(r, k) PROVE IInv'
  BY <1>2, ArriveSteady
<1>3. CASE UNCHANGED vars
  <2>1. TypeOK' /\ task' = task /\ flights' = flights /\ epoch <= epoch'
    BY <1>3 DEF IInv, TypeOK, vars, store, cache
  <2> QED
    BY <2>1, NoRequest
<1> QED
  BY <1>1, <1>2, <1>3, StoreSteady, DisableSteady DEF Next

\* The invariant holds in every state of every behaviour of the cache.
THEOREM Invariance == Spec => []IInv
BY InitEstablishes, NextPreserves, PTL DEF Spec

\* The cache's variables keep their types and no error is ever cached, however
\* loads fail while edits, evictions and the kill switch interleave with them.
THEOREM CacheTypeCorrect == Spec => []TypeOK
<1>1. IInv => TypeOK
  BY DEF IInv
<1> QED
  BY <1>1, Invariance, PTL

\* Misses are merged: no two requests lead a flight for one key at the same time.
THEOREM MissesAreMerged == Spec => []OneFlightPerKey
<1>1. IInv => OneFlightPerKey
  BY DEF IInv, Steady, OneFlightPerKey, Key
<1> QED
  BY <1>1, Invariance, PTL

\* No hit is of an epoch that ended before the request arrived.
THEOREM HitsAreOfTheEpoch == Spec => []HitsAreCurrent
<1>1. IInv => HitsAreCurrent
  BY DEF IInv, Steady, HitsAreCurrent, At
<1> QED
  BY <1>1, Invariance, PTL

=============================================================================

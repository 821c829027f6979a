------------------------- MODULE ParticipationProofs ------------------------
(***************************************************************************)
(* Theorems about the participation domain for every value of its          *)
(* constants: any number of visitors, requests, attempts and credentials,  *)
(* with requests that interleave between their statements and die at any   *)
(* of them.                                                                *)
(***************************************************************************)
EXTENDS Participation, TLAPS, SequenceTheorems

-----------------------------------------------------------------------------
(* The inductive invariant: what a running request may rely on *)

Ids  == Nat \ {0}
Anyone == Visitors \cup {NoVisitor}

\* The requests of each kind, by what they have read.
Inserts  == [at : {"insert"}, visitor : Visitors, key : StartKeys, content : Contents]
Answers  == [at : {"answer"}, visitor : Visitors, seen : Row]
Starts   == [at : {"reserve", "save"}, for : {"start"}, p : Ids, seen : Row]
Handoffs == [at : {"freeze", "mark", "reserve", "save", "mint"}, for : {"handoff"}, p : Ids,
             a : Nat, purpose : Purposes, seen : Row]
Changes  == [at : {"content"}, visitor : Visitors, p : Ids, content : Contents]
Cancels  == [at : {"cancel", "cancel_attempts"}, visitor : Visitors, p : Ids]
Creates  == [at : {"attempt"}, p : Ids, seen : Row]
Redeems  == [at : {"claim", "open"}, visitor : Anyone, c : Ids, p : Ids, seen : Row]
Revokes  == [at : {"revoke"}, c : Ids]
Fulfils  == [at : {"fulfil"}, p : Ids, ref : Refs]

Task == Inserts \cup Answers \cup Starts \cup Handoffs \cup Changes \cup Cancels
           \cup Creates \cup Redeems \cup Revokes \cup Fulfils

Reserving == {"freeze", "mark", "reserve", "save", "mint"}

Handoff(t) == t.at \in Reserving /\ t.for = "handoff"

\* Requests that have frozen an attempt and not put it on a credential yet.
Carries(t) == Handoff(t) /\ t.at # "freeze" /\ t.a # NoAttempt

Frozen(a, p) == a \in DOMAIN attempts /\ attempts[a].of = p /\ attempts[a].status = "handed_off"

\* What running request t has read still holds where it matters.
Sound(t) ==
    /\ t \in Task
    /\ t.at \notin {"insert", "answer", "revoke"} => t.p \in Participations
    /\ t.at \in {"claim", "open", "revoke"} => t.c \in DOMAIN credentials
    /\ t.at \in {"claim", "open"} => credentials[t.c].of = t.p
    /\ t.at = "open" => credentials[t.c].uses > 0
    /\ t.at \in Reserving /\ t.seen.reservation = "confirmed" => t.p \in reserved
    /\ Handoff(t) =>
          /\ t.a \in DOMAIN attempts \cup {NoAttempt}
          /\ t.purpose = "customer_resume" \/ t.at = "freeze" => t.a # NoAttempt
    /\ Carries(t) =>
          /\ Frozen(t.a, t.p)
          /\ \A c \in DOMAIN credentials : credentials[c].attempt # t.a

Tasks == \A r \in Requests : task[r] # Idle => Sound(task[r])

OneCarrier ==
    \A q, r \in Requests :
        /\ task[q] # Idle /\ task[r] # Idle
        /\ Carries(task[q]) /\ Carries(task[r]) /\ task[q].a = task[r].a
        => q = r

Columns ==
    /\ clock \in 0..MaxTime
    /\ participations \in Seq(Row)
    /\ attempts \in Seq(Attempt)
    /\ credentials \in Seq(Credential)
    /\ \A a \in DOMAIN attempts : attempts[a].of \in Participations
    /\ \A c \in DOMAIN credentials :
          /\ credentials[c].of \in Participations
          /\ credentials[c].attempt \in DOMAIN attempts \cup {NoAttempt}
    /\ DOMAIN task = Requests

IInv == /\ Columns
        /\ Tasks
        /\ OneCarrier
        /\ OneStartPerKey
        /\ SingleUse
        /\ HandoffBindsAttempt
        /\ ConfirmedIsHonest
        /\ StatusHasCause

-----------------------------------------------------------------------------
(* Tasks and rows *)

\* The statement a request is at tells its kind.
LEMMA KindOfTask ==
    ASSUME NEW t \in Task
    PROVE  /\ t.at = "insert" => t \in Inserts
           /\ t.at = "answer" => t \in Answers
           /\ t.at \in Reserving => t \in Starts \cup Handoffs
           /\ t.at \in {"freeze", "mark", "mint"} => t \in Handoffs
           /\ t.at = "content" => t \in Changes
           /\ t.at \in {"cancel", "cancel_attempts"} => t \in Cancels
           /\ t.at = "attempt" => t \in Creates
           /\ t.at \in {"claim", "open"} => t \in Redeems
           /\ t.at = "revoke" => t \in Revokes
           /\ t.at = "fulfil" => t \in Fulfils
BY DEF Task, Inserts, Answers, Starts, Handoffs, Changes, Cancels, Creates, Redeems, Revokes,
       Fulfils, Reserving

\* Tables only grow, keys and owners stay, what was frozen stays as it is.
Grows ==
    /\ \A p \in Participations : /\ p \in Participations'
                                 /\ participations'[p].key = participations[p].key
    /\ reserved \subseteq reserved'
    /\ \A a \in DOMAIN attempts :
          /\ a \in DOMAIN attempts'
          /\ attempts'[a].of = attempts[a].of
          /\ attempts[a].status = "handed_off" => attempts'[a] = attempts[a]
    /\ \A c \in DOMAIN credentials :
          /\ c \in DOMAIN credentials'
          /\ credentials'[c].of = credentials[c].of
          /\ credentials'[c].purpose = credentials[c].purpose
          /\ credentials'[c].attempt = credentials[c].attempt
          /\ credentials[c].uses > 0 => credentials'[c].uses > 0

NewCredentials == DOMAIN credentials' \ DOMAIN credentials

\* What was frozen stays frozen, for the same participation.
LEMMA FrozenStays ==
    ASSUME Grows, NEW a, NEW p, Frozen(a, p)
    PROVE  Frozen(a, p)'
BY DEF Grows, Frozen

\* A task stays sound while the tables grow and no new credential takes its attempt.
LEMMA SoundStays ==
    ASSUME Grows, NEW t, Sound(t),
           Carries(t) => \A c \in NewCredentials : credentials'[c].attempt # t.a
    PROVE  Sound(t)'
<1>1. Carries(t) => Frozen(t.a, t.p)'
  BY FrozenStays DEF Sound
<1> QED  BY <1>1 DEF Sound, Grows, Handoff, Carries, NewCredentials

\* One request moves: the others keep what they rely on.
LEMMA TasksKeep ==
    ASSUME Columns, Tasks, OneCarrier, Grows, NEW r \in Requests, NEW t,
           Goto(r, t),
           t # Idle => Sound(t)',
           t # Idle /\ Carries(t) =>
              \A q \in Requests \ {r} : task[q] # Idle /\ Carries(task[q]) => task[q].a # t.a,
           \A q \in Requests \ {r} : task[q] # Idle /\ Carries(task[q]) =>
              \A c \in NewCredentials : credentials'[c].attempt # task[q].a
    PROVE  DOMAIN task' = Requests /\ Tasks' /\ OneCarrier'
<1>1. /\ DOMAIN task' = Requests /\ task'[r] = t
      /\ \A q \in Requests \ {r} : task'[q] = task[q]
  BY DEF Columns, Goto
<1>2. \A q \in Requests \ {r} : task[q] # Idle => Sound(task[q])'
  <2>1. ASSUME NEW q \in Requests \ {r}, task[q] # Idle
        PROVE  \E u : u = task[q] /\ Sound(u)'
    BY <2>1, SoundStays DEF Tasks
  <2> QED  BY <1>1, <2>1
<1>3. Tasks'
  BY <1>1, <1>2 DEF Tasks
<1>4. OneCarrier'
  BY <1>1 DEF OneCarrier
<1> QED  BY <1>1, <1>3, <1>4

\* A request that freezes nothing is exclusive to none.
LEMMA TasksKeepAlone ==
    ASSUME Columns, Tasks, OneCarrier, Grows, NEW r \in Requests, NEW t,
           Goto(r, t), NewCredentials = {},
           t # Idle => Sound(t)',
           t # Idle /\ Carries(t) => task[r] # Idle /\ Carries(task[r]) /\ task[r].a = t.a
    PROVE  DOMAIN task' = Requests /\ Tasks' /\ OneCarrier'
BY TasksKeep DEF OneCarrier

-----------------------------------------------------------------------------
(* Statements that read, and the arrival of a request *)

\* The request's next record is sound, and the tables are as they were.
LEMMA Reads ==
    ASSUME IInv, NEW r \in Requests, NEW t, Goto(r, t),
           UNCHANGED <<clock, participations, attempts, credentials, reserved>>,
           t # Idle => Sound(t),
           t # Idle /\ Carries(t) => task[r] # Idle /\ Carries(task[r]) /\ task[r].a = t.a
    PROVE  IInv'
<1>1. Grows /\ NewCredentials = {}
  BY DEF Grows, NewCredentials, Participations
<1>2. t # Idle => Sound(t)'
  BY <1>1, SoundStays
<1>3. DOMAIN task' = Requests /\ Tasks' /\ OneCarrier'
  BY <1>1, <1>2, TasksKeepAlone DEF IInv
<1>4. Columns'
  BY <1>3 DEF IInv, Columns, Participations
<1>5. OneStartPerKey' /\ SingleUse' /\ HandoffBindsAttempt' /\ ConfirmedIsHonest' /\ StatusHasCause'
  BY DEF IInv, OneStartPerKey, SingleUse, HandoffBindsAttempt, ConfirmedIsHonest,
         StatusHasCause, Participations
<1> QED  BY <1>3, <1>4, <1>5 DEF IInv

\* What is read of a row or a credential.
LEMMA RowRead ==
    ASSUME Columns
    PROVE  /\ \A p \in Participations : p \in Ids /\ participations[p] \in Row
           /\ \A c \in DOMAIN credentials :
                 /\ c \in Ids /\ credentials[c] \in Credential
                 /\ credentials[c].of \in Participations
           /\ \A a \in DOMAIN attempts : a \in Ids /\ attempts[a] \in Attempt
BY DEF Columns, Participations, Ids

\* A request that arrives reads, and may only keep what it read.
LEMMA ArriveStep ==
    ASSUME IInv, NEW r \in Requests, Arrive(r)
    PROVE  IInv'
<1> USE DEF Enter
<1>0. Columns /\ ConfirmedIsHonest
  BY DEF IInv
<1>a. ASSUME NEW t, Enter(r, t), Sound(t), ~Carries(t),
             UNCHANGED <<clock, participations, attempts, credentials, reserved>>
      PROVE  IInv'
  BY <1>a, Reads DEF Goto
<1>1. ASSUME NEW v \in Visitors, NEW key \in StartKeys, StartReplay(r, v, key)
      PROVE  IInv'
  <2>1. PICK p \in Participations : 
           /\ Enter(r, [at |-> "answer", visitor |-> v, seen |-> participations[p]])
           /\ UNCHANGED <<clock, participations, attempts, credentials, reserved>>
    BY <1>1 DEF StartReplay, Existing
  <2> DEFINE t == [at |-> "answer", visitor |-> v, seen |-> participations[p]]
  <2>2. t \in Answers /\ t.at = "answer"
    BY <1>0, RowRead DEF Answers
  <2> HIDE DEF t
  <2>3. Sound(t) /\ ~Carries(t)
    BY <2>2 DEF Sound, Task, Carries, Handoff, Reserving
  <2> QED  BY <1>a, <2>1, <2>3 DEF t
<1>2. ASSUME NEW v \in Visitors, NEW key \in StartKeys, NEW content \in Contents,
             StartRead(r, v, key, content)
      PROVE  IInv'
  <2> DEFINE t == [at |-> "insert", visitor |-> v, key |-> key, content |-> content]
  <2>1. t \in Inserts /\ t.at = "insert"
    BY DEF Inserts
  <2>2. Enter(r, t) /\ UNCHANGED <<clock, participations, attempts, credentials, reserved>>
    BY <1>2 DEF StartRead
  <2> HIDE DEF t
  <2>3. Sound(t) /\ ~Carries(t)
    BY <2>1 DEF Sound, Task, Carries, Handoff, Reserving
  <2> QED  BY <1>a, <2>2, <2>3
<1>3. ASSUME NEW v \in Visitors, NEW p \in Participations, NEW content \in Contents,
             UpdateContentRead(r, v, p, content)
      PROVE  IInv'
  <2> DEFINE t == [at |-> "content", visitor |-> v, p |-> p, content |-> content]
  <2>1. t \in Changes /\ t.at = "content" /\ t.p = p
    BY <1>0, RowRead DEF Changes
  <2>2. Enter(r, t) /\ UNCHANGED <<clock, participations, attempts, credentials, reserved>>
    BY <1>3 DEF UpdateContentRead
  <2> HIDE DEF t
  <2>3. Sound(t) /\ ~Carries(t)
    BY <2>1 DEF Sound, Task, Carries, Handoff, Reserving
  <2> QED  BY <1>a, <2>2, <2>3
<1>4. ASSUME NEW v \in Visitors, NEW p \in Participations, CancelRead(r, v, p)
      PROVE  IInv'
  <2> DEFINE t == [at |-> "cancel", visitor |-> v, p |-> p]
  <2>1. t \in Cancels /\ t.at = "cancel" /\ t.p = p
    BY <1>0, RowRead DEF Cancels
  <2>2. Enter(r, t) /\ UNCHANGED <<clock, participations, attempts, credentials, reserved>>
    BY <1>4 DEF CancelRead
  <2> HIDE DEF t
  <2>3. Sound(t) /\ ~Carries(t)
    BY <2>1 DEF Sound, Task, Carries, Handoff, Reserving
  <2> QED  BY <1>a, <2>2, <2>3
<1>5. ASSUME NEW v \in Visitors, NEW p \in Participations, CreateAttemptRead(r, v, p)
      PROVE  IInv'
  <2> DEFINE t == [at |-> "attempt", p |-> p, seen |-> participations[p]]
  <2>1. t \in Creates /\ t.at = "attempt" /\ t.p = p
    BY <1>0, RowRead DEF Creates
  <2>2. Enter(r, t) /\ UNCHANGED <<clock, participations, attempts, credentials, reserved>>
    BY <1>5 DEF CreateAttemptRead
  <2> HIDE DEF t
  <2>3. Sound(t) /\ ~Carries(t)
    BY <2>1 DEF Sound, Task, Carries, Handoff, Reserving
  <2> QED  BY <1>a, <2>2, <2>3
<1>6. ASSUME NEW v \in Visitors, NEW p \in Participations,
             NEW a \in DOMAIN attempts \cup {NoAttempt}, NEW purpose \in Purposes,
             BeginHandoff(r, v, p, a, purpose)
      PROVE  IInv'
  <2> DEFINE t == [at |-> IF a = NoAttempt THEN "mark" ELSE "freeze", for |-> "handoff",
                   p |-> p, a |-> a, purpose |-> purpose, seen |-> participations[p]]
  <2>1. a \in Nat /\ p \in Ids /\ participations[p] \in Row
    BY <1>0, RowRead DEF NoAttempt, Ids
  <2>2. /\ t \in Handoffs
        /\ t.at = (IF a = NoAttempt THEN "mark" ELSE "freeze") /\ t.p = p /\ t.a = a
        /\ t.purpose = purpose /\ t.seen = participations[p]
    BY <2>1 DEF Handoffs
  <2>3. /\ Enter(r, t) /\ UNCHANGED <<clock, participations, attempts, credentials, reserved>>
        /\ purpose = "customer_resume" => a # NoAttempt
    BY <1>6 DEF BeginHandoff
  <2> HIDE DEF t
  <2>4. ~Carries(t)
    BY <2>2 DEF Carries
  <2>5. participations[p].reservation = "confirmed" => p \in reserved
    BY <1>0 DEF ConfirmedIsHonest
  <2>6. Sound(t)
    BY <2>2, <2>3, <2>4, <2>5 DEF Sound, Task, Handoff, Reserving
  <2> QED  BY <1>a, <2>3, <2>4, <2>6
<1>7. ASSUME NEW v \in Visitors, NEW c \in DOMAIN credentials, RevokeRead(r, v, c)
      PROVE  IInv'
  <2> DEFINE t == [at |-> "revoke", c |-> c]
  <2>1. t \in Revokes /\ t.at = "revoke" /\ t.c = c
    BY <1>0, RowRead DEF Revokes
  <2>2. Enter(r, t) /\ UNCHANGED <<clock, participations, attempts, credentials, reserved>>
    BY <1>7 DEF RevokeRead
  <2> HIDE DEF t
  <2>3. Sound(t) /\ ~Carries(t)
    BY <2>1 DEF Sound, Task, Carries, Handoff, Reserving
  <2> QED  BY <1>a, <2>2, <2>3
<1>8. ASSUME NEW v \in Anyone, NEW c \in DOMAIN credentials, RedeemRead(r, v, c)
      PROVE  IInv'
  <2> DEFINE p == credentials[c].of
             t == [at |-> "claim", visitor |-> v, c |-> c, p |-> p, seen |-> participations[p]]
  <2>1. c \in Ids /\ p \in Participations /\ p \in Ids /\ participations[p] \in Row
    BY <1>0, RowRead
  <2>2. t \in Redeems /\ t.at = "claim" /\ t.p = p /\ t.c = c
    BY <2>1 DEF Redeems
  <2>3. Enter(r, t) /\ UNCHANGED <<clock, participations, attempts, credentials, reserved>>
    BY <1>8 DEF RedeemRead
  <2> HIDE DEF t
  <2>4. Sound(t) /\ ~Carries(t)
    BY <2>1, <2>2 DEF Sound, Task, Carries, Handoff, Reserving
  <2> QED  BY <1>a, <2>3, <2>4
<1>9. ASSUME NEW p \in Participations, NEW ref \in Refs, MarkFulfilledRead(r, p, ref)
      PROVE  IInv'
  <2> DEFINE t == [at |-> "fulfil", p |-> p, ref |-> ref]
  <2>1. t \in Fulfils /\ t.at = "fulfil" /\ t.p = p
    BY <1>0, RowRead DEF Fulfils
  <2>2. Enter(r, t) /\ UNCHANGED <<clock, participations, attempts, credentials, reserved>>
    BY <1>9 DEF MarkFulfilledRead
  <2> HIDE DEF t
  <2>3. Sound(t) /\ ~Carries(t)
    BY <2>1 DEF Sound, Task, Carries, Handoff, Reserving
  <2> QED  BY <1>a, <2>2, <2>3
<1> HIDE DEF Enter
<1> QED
  BY <1>1, <1>2, <1>3, <1>4, <1>5, <1>6, <1>7, <1>8, <1>9
  DEF Arrive, handleParticipationStart, handleParticipationContent, handleParticipationCancel,
      handleParticipationAttemptCreate, handleParticipationHandoff,
      handleParticipationHandoffRevoke, handleParticipationRedeem,
      handleParticipationStaffRedeem, Anyone

-----------------------------------------------------------------------------
(* Statements that write a participation *)

\* What has to be on record for a status.
Cause(p, status) ==
    /\ status = "in_progress" => \E a \in DOMAIN attempts : Frozen(a, p)
    /\ status \in {"awaiting_review", "fulfilled"} =>
          \E c \in DOMAIN credentials : /\ credentials[c].of = p
                                        /\ credentials[c].purpose = "staff_verify"
                                        /\ credentials[c].uses > 0

\* The property, row by row.
LEMMA Causes ==
    StatusHasCause <=> \A p \in Participations : Cause(p, participations[p].status)
BY DEF StatusHasCause, Cause, Frozen

\* A cause on record stays on record.
LEMMA CauseStays ==
    ASSUME Grows, NEW p, NEW status, Cause(p, status)
    PROVE  Cause(p, status)'
<1>1. \A a \in DOMAIN attempts : Frozen(a, p) => a \in DOMAIN attempts' /\ Frozen(a, p)'
  BY FrozenStays DEF Grows
<1> QED  BY <1>1 DEF Cause, Grows

\* The UPDATE of one row that leaves its key and may only tell what is so.
LEMMA Writes ==
    ASSUME IInv, NEW r \in Requests, NEW p \in Participations, NEW row \in Row, NEW t,
           Put(p, row), Goto(r, t),
           UNCHANGED <<clock, attempts, credentials, reserved>>,
           row.key = participations[p].key,
           Cause(p, row.status),
           row.reservation = "confirmed" => p \in reserved,
           t # Idle => Sound(t),
           t # Idle /\ Carries(t) => task[r] # Idle /\ Carries(task[r]) /\ task[r].a = t.a
    PROVE  IInv'
<1>1. /\ Columns /\ participations \in Seq(Row)
      /\ participations' = [participations EXCEPT ![p] = [row EXCEPT !.updated = clock]]
  BY DEF IInv, Columns, Put
<1>2. [row EXCEPT !.updated = clock] \in Row
  BY <1>1 DEF Row, Columns
<1>3. /\ participations' \in Seq(Row) /\ Participations' = Participations
      /\ \A q \in Participations \ {p} : participations'[q] = participations[q]
      /\ participations'[p].key = row.key /\ participations'[p].status = row.status
      /\ participations'[p].reservation = row.reservation
  BY <1>1, <1>2 DEF Participations, Row
<1>4. Grows /\ NewCredentials = {}
  BY <1>3 DEF Grows, NewCredentials
<1>5. t # Idle => Sound(t)'
  BY <1>4, SoundStays
<1>6. DOMAIN task' = Requests /\ Tasks' /\ OneCarrier'
  BY <1>4, <1>5, TasksKeepAlone DEF IInv
<1>7. Columns'
  BY <1>3, <1>6 DEF IInv, Columns
<1>8. OneStartPerKey' /\ SingleUse' /\ HandoffBindsAttempt'
  BY <1>3 DEF IInv, OneStartPerKey, SingleUse, HandoffBindsAttempt
<1>9. ConfirmedIsHonest'
  BY <1>3 DEF IInv, ConfirmedIsHonest
<1>10. StatusHasCause'
  <2>1. \A q \in Participations : Cause(q, participations'[q].status)
    BY <1>3, Causes DEF IInv
  <2>2. \A q \in Participations' : Cause(q, participations[q].status)'
    BY <1>3, <2>1 DEF Cause, Frozen
  <2> QED  BY <2>2 DEF StatusHasCause, Cause, Frozen
<1> QED  BY <1>6, <1>7, <1>8, <1>9, <1>10 DEF IInv

\* A running request is sound, and what its columns may hold.
LEMMA Running ==
    ASSUME IInv, NEW r \in Requests, NEW step, At(r, step)
    PROVE  /\ task[r] # Idle /\ task[r].at = step /\ Sound(task[r]) /\ task[r] \in Task
           /\ Columns
           /\ \A p \in Participations :
                 /\ participations[p] \in Row
                 /\ Cause(p, participations[p].status)
                 /\ participations[p].reservation = "confirmed" => p \in reserved
BY Causes, RowRead DEF At, IInv, Tasks, Sound, ConfirmedIsHonest

\* A request that ends carries nothing on.
LEMMA SaveStep ==
    ASSUME IInv, NEW r \in Requests, SaveReservationState(r)
    PROVE  IInv'
<1> PICK t : t = task[r]
  OBVIOUS
<1>1. /\ t # Idle /\ t.at = "save" /\ Sound(t) /\ t \in Task /\ Columns
      /\ t \in Starts \cup Handoffs /\ t.p \in Participations
      /\ t.seen.reservation = "confirmed" => t.p \in reserved
  <2>1. At(r, "save")
    BY DEF SaveReservationState
  <2> QED  BY <2>1, Running, KindOfTask DEF Sound, Reserving
<1> PICK row : row = [participations[t.p] EXCEPT !.reservation = t.seen.reservation]
  OBVIOUS
<1>2. /\ participations[t.p] \in Row /\ Cause(t.p, participations[t.p].status)
      /\ t.seen \in Row
  BY <1>1, Causes, RowRead DEF IInv, Starts, Handoffs
<1>3. /\ row \in Row /\ row.key = participations[t.p].key
      /\ row.status = participations[t.p].status /\ row.reservation = t.seen.reservation
  BY <1>2 DEF Row
<1>4. /\ Put(t.p, row) /\ UNCHANGED <<clock, attempts, credentials, reserved>>
      /\ IF t.for = "start" THEN Goto(r, Idle) ELSE Goto(r, [t EXCEPT !.at = "mint"])
  BY DEF SaveReservationState, Return
<1>5. CASE t.for = "start"
  BY <1>1, <1>2, <1>3, <1>4, <1>5, Writes
<1>6. CASE t.for # "start"
  <2> PICK u : u = [t EXCEPT !.at = "mint"]
    OBVIOUS
  <2>1. t \in Handoffs
    BY <1>1, <1>6 DEF Starts
  <2>2. /\ u \in Handoffs /\ u.at = "mint" /\ u.p = t.p /\ u.a = t.a /\ u.purpose = t.purpose
        /\ u.seen = t.seen
    BY <2>1 DEF Handoffs
  <2>3. Carries(u) <=> Carries(t)
    BY <1>1, <2>1, <2>2 DEF Carries, Handoff, Reserving, Handoffs
  <2>4. Sound(u)
    BY <1>1, <2>1, <2>2, <2>3 DEF Sound, Task, Handoff, Reserving, Handoffs
  <2> QED  BY <1>1, <1>2, <1>3, <1>4, <1>6, <2>2, <2>3, <2>4, Writes
<1> QED  BY <1>5, <1>6

\* UpdateContent writes the row it reads again, with the new content.
LEMMA ContentStep ==
    ASSUME IInv, NEW r \in Requests, UpdateContentWrite(r)
    PROVE  IInv'
<1> PICK t : t = task[r]
  OBVIOUS
<1>1. /\ t \in Changes /\ t.p \in Participations /\ participations[t.p] \in Row
      /\ Cause(t.p, participations[t.p].status)
      /\ participations[t.p].reservation = "confirmed" => t.p \in reserved
  <2>1. At(r, "content")
    BY DEF UpdateContentWrite
  <2> QED  BY <2>1, Running, KindOfTask DEF Sound
<1> PICK row : row = [participations[t.p] EXCEPT !.content = t.content]
  OBVIOUS
<1>2. /\ row \in Row /\ row.key = participations[t.p].key
      /\ row.status = participations[t.p].status
      /\ row.reservation = participations[t.p].reservation
  BY <1>1 DEF Row, Changes
<1>3. /\ Put(t.p, row) \/ participations' = participations
      /\ Goto(r, Idle) /\ UNCHANGED <<clock, attempts, credentials, reserved>>
  BY DEF UpdateContentWrite, Return
<1> QED  BY <1>1, <1>2, <1>3, Writes, Reads

\* Cancel writes by id: the status may be overwritten, its cause needs none.
LEMMA CancelStep ==
    ASSUME IInv, NEW r \in Requests, CancelWrite(r)
    PROVE  IInv'
<1> PICK t : t = task[r]
  OBVIOUS
<1>1. /\ t # Idle /\ t \in Cancels /\ Sound(t)
      /\ t.p \in Participations /\ participations[t.p] \in Row
      /\ participations[t.p].reservation = "confirmed" => t.p \in reserved
  <2>1. At(r, "cancel")
    BY DEF CancelWrite
  <2> QED  BY <2>1, Running, KindOfTask DEF Sound
<1> PICK row : row = [participations[t.p] EXCEPT !.status = "canceled"]
  OBVIOUS
<1>2. /\ row \in Row /\ row.key = participations[t.p].key /\ row.status = "canceled"
      /\ row.reservation = participations[t.p].reservation /\ Cause(t.p, row.status)
  BY <1>1 DEF Row, Statuses, Cause
<1> PICK u : u = [t EXCEPT !.at = "cancel_attempts"]
  OBVIOUS
<1>3. u \in Cancels /\ u.at = "cancel_attempts" /\ u.p = t.p
  BY <1>1 DEF Cancels
<1>4. Sound(u) /\ ~Carries(u)
  BY <1>1, <1>3 DEF Sound, Task, Carries, Handoff, Reserving
<1>5. /\ Put(t.p, row) \/ participations' = participations
      /\ Goto(r, u) /\ UNCHANGED <<clock, attempts, credentials, reserved>>
  BY DEF CancelWrite
<1> QED  BY <1>1, <1>2, <1>4, <1>5, Writes, Reads

\* A customer's handoff carries a frozen attempt when it starts the progress.
LEMMA MarkStep ==
    ASSUME IInv, NEW r \in Requests, MarkInProgress(r)
    PROVE  IInv'
<1> PICK t : t = task[r]
  OBVIOUS
<1>1. /\ t # Idle /\ t \in Handoffs /\ t.at = "mark" /\ Sound(t)
      /\ t.p \in Participations /\ participations[t.p] \in Row
      /\ Cause(t.p, participations[t.p].status)
      /\ participations[t.p].reservation = "confirmed" => t.p \in reserved
  <2>1. At(r, "mark")
    BY DEF MarkInProgress
  <2> QED  BY <2>1, Running, KindOfTask DEF Sound
<1> PICK row : row = [participations[t.p] EXCEPT !.status = "in_progress"]
  OBVIOUS
<1>2. /\ row \in Row /\ row.key = participations[t.p].key /\ row.status = "in_progress"
      /\ row.reservation = participations[t.p].reservation
  BY <1>1 DEF Row, Statuses
<1>3. StartsProgress(t) => Cause(t.p, "in_progress")
  BY <1>1 DEF StartsProgress, Sound, Carries, Handoff, Reserving, Handoffs, Cause, Frozen
<1> PICK u : u = [t EXCEPT !.at = "reserve"]
  OBVIOUS
<1>4. /\ u \in Handoffs /\ u.at = "reserve" /\ u.p = t.p /\ u.a = t.a /\ u.purpose = t.purpose
      /\ u.seen = t.seen
  BY <1>1 DEF Handoffs
<1>5. Carries(u) <=> Carries(t)
  BY <1>1, <1>4 DEF Carries, Handoff, Reserving, Handoffs
<1>6. Sound(u)
  BY <1>1, <1>4, <1>5 DEF Sound, Task, Handoff, Reserving, Handoffs
<1>7. /\ (StartsProgress(t) /\ Put(t.p, row)) \/ participations' = participations
      /\ Goto(r, u) /\ UNCHANGED <<clock, attempts, credentials, reserved>>
  BY DEF MarkInProgress
<1> QED  BY <1>1, <1>2, <1>3, <1>4, <1>5, <1>6, <1>7, Writes, Reads

\* Redeem rebinds the row to the visitor who holds the credential.
LEMMA RebindStep ==
    ASSUME IInv, NEW r \in Requests, RebindVisitor(r)
    PROVE  IInv'
<1> PICK t : t = task[r]
  OBVIOUS
<1>1. /\ t \in Redeems /\ t.p \in Participations /\ participations[t.p] \in Row
      /\ Cause(t.p, participations[t.p].status)
      /\ participations[t.p].reservation = "confirmed" => t.p \in reserved
  <2>1. At(r, "open")
    BY DEF RebindVisitor
  <2> QED  BY <2>1, Running, KindOfTask DEF Sound
<1> PICK row : row = [participations[t.p] EXCEPT !.visitor = t.visitor]
  OBVIOUS
<1>2. /\ row \in Row /\ row.key = participations[t.p].key
      /\ row.status = participations[t.p].status
      /\ row.reservation = participations[t.p].reservation
  BY <1>1 DEF Row, Redeems, Anyone
<1>3. Put(t.p, row) /\ Goto(r, Idle) /\ UNCHANGED <<clock, attempts, credentials, reserved>>
  BY DEF RebindVisitor, Return
<1> QED  BY <1>1, <1>2, <1>3, Writes

\* The staff code that was spent is the cause of the review.
LEMMA ReviewStep ==
    ASSUME IInv, NEW r \in Requests, MarkAwaitingReview(r)
    PROVE  IInv'
<1> PICK t : t = task[r]
  OBVIOUS
<1>1. /\ t.at = "open" /\ Sound(t) /\ t.p \in Participations /\ participations[t.p] \in Row
      /\ participations[t.p].reservation = "confirmed" => t.p \in reserved
  <2>1. At(r, "open")
    BY DEF MarkAwaitingReview
  <2> QED  BY <2>1, Running DEF Sound
<1> PICK row : row = [participations[t.p] EXCEPT !.status = "awaiting_review"]
  OBVIOUS
<1>2. /\ row \in Row /\ row.key = participations[t.p].key /\ row.status = "awaiting_review"
      /\ row.reservation = participations[t.p].reservation
  BY <1>1 DEF Row, Statuses
<1>3. /\ Put(t.p, row) \/ participations' = participations
      /\ Goto(r, Idle) /\ UNCHANGED <<clock, attempts, credentials, reserved>>
      /\ credentials[t.c].purpose = "staff_verify"
  BY DEF MarkAwaitingReview, Return
<1>4. Cause(t.p, "awaiting_review")
  BY <1>1, <1>3 DEF Sound, Cause
<1> QED  BY <1>1, <1>2, <1>3, <1>4, Writes, Reads

\* MarkFulfilled writes a status whose staff code was spent.
LEMMA FulfilStep ==
    ASSUME IInv, NEW r \in Requests, MarkFulfilledWrite(r)
    PROVE  IInv'
<1> PICK t : t = task[r]
  OBVIOUS
<1>1. /\ t \in Fulfils /\ t.p \in Participations /\ participations[t.p] \in Row
      /\ Cause(t.p, participations[t.p].status)
      /\ participations[t.p].reservation = "confirmed" => t.p \in reserved
  <2>1. At(r, "fulfil")
    BY DEF MarkFulfilledWrite
  <2> QED  BY <2>1, Running, KindOfTask DEF Sound
<1> PICK row : row = [participations[t.p] EXCEPT !.status = "fulfilled", !.ref = t.ref]
  OBVIOUS
<1>2. /\ row \in Row /\ row.key = participations[t.p].key /\ row.status = "fulfilled"
      /\ row.reservation = participations[t.p].reservation
  BY <1>1 DEF Row, Statuses, Fulfils
<1>3. /\ \/ Put(t.p, row) /\ participations[t.p].status = "awaiting_review"
         \/ participations' = participations
      /\ Goto(r, Idle) /\ UNCHANGED <<clock, attempts, credentials, reserved>>
  BY DEF MarkFulfilledWrite, Return, Fulfillable
<1>4. participations[t.p].status = "awaiting_review" => Cause(t.p, "fulfilled")
  BY <1>1 DEF Cause
<1> QED  BY <1>1, <1>2, <1>3, <1>4, Writes, Reads

-----------------------------------------------------------------------------
(* Starts, reservations, attempts *)

\* Start inserts its row, unless the key is taken by now.
LEMMA InsertStep ==
    ASSUME IInv, NEW r \in Requests, StartInsert(r)
    PROVE  IInv'
<1> PICK t : t = task[r]
  OBVIOUS
<1>1. t \in Inserts /\ Columns
  <2>1. At(r, "insert")
    BY DEF StartInsert
  <2> QED  BY <2>1, Running, KindOfTask
<1>2. ASSUME NEW p \in Existing(t.key), UNCHANGED participations,
             Goto(r, [at |-> "answer", visitor |-> t.visitor, seen |-> participations[p]])
      PROVE  IInv'
  <2> PICK u : u = [at |-> "answer", visitor |-> t.visitor, seen |-> participations[p]]
    OBVIOUS
  <2>1. u \in Answers /\ u.at = "answer"
    BY <1>1, RowRead DEF Inserts, Answers, Existing
  <2>2. Sound(u) /\ ~Carries(u)
    BY <2>1 DEF Sound, Task, Carries, Handoff, Reserving
  <2> QED  BY <1>2, <2>2, Reads DEF StartInsert
<1>3. ASSUME Existing(t.key) = {}, participations' = Append(participations, NewRow(t)),
             Goto(r, [at |-> "reserve", for |-> "start", p |-> Len(participations) + 1,
                      seen |-> NewRow(t)])
      PROVE  IInv'
  <2> PICK row, n : row = NewRow(t) /\ n = Len(participations) + 1
    OBVIOUS
  <2> PICK u : u = [at |-> "reserve", for |-> "start", p |-> n, seen |-> row]
    OBVIOUS
  <2>0. UNCHANGED <<clock, attempts, credentials, reserved>>
    BY DEF StartInsert
  <2>1. /\ row \in Row /\ row.key = t.key /\ row.status = "pending"
        /\ row.reservation # "confirmed"
    BY <1>1 DEF NewRow, Row, Inserts, Statuses, Reservations, Columns
  <2>2. /\ participations \in Seq(Row) /\ participations' \in Seq(Row)
        /\ Participations' = Participations \cup {n} /\ n \notin Participations /\ n \in Ids
        /\ participations'[n] = row
        /\ \A p \in Participations : participations'[p] = participations[p]
    BY <1>1, <1>3, <2>1 DEF Columns, Participations, Ids
  <2>3. Grows /\ NewCredentials = {}
    BY <2>0, <2>2 DEF Grows, NewCredentials
  <2>4. /\ u \in Starts /\ u.at = "reserve" /\ u.for = "start" /\ u.p = n /\ u.seen = row
    BY <2>1, <2>2 DEF Starts
  <2>5. ~Carries(u) /\ Sound(u)'
    BY <2>1, <2>2, <2>4 DEF Sound, Task, Carries, Handoff, Reserving
  <2>6. DOMAIN task' = Requests /\ Tasks' /\ OneCarrier'
    BY <1>3, <2>3, <2>5, TasksKeepAlone DEF IInv
  <2>7. Columns'
    BY <1>1, <2>0, <2>2, <2>6 DEF Columns
  <2>8. OneStartPerKey'
    <3>1. \A p \in Participations : participations[p].key # t.key
      BY <1>3 DEF Existing
    <3> QED  BY <2>1, <2>2, <3>1 DEF IInv, OneStartPerKey
  <2>9. SingleUse' /\ HandoffBindsAttempt' /\ ConfirmedIsHonest'
    BY <2>0, <2>1, <2>2 DEF IInv, SingleUse, HandoffBindsAttempt, ConfirmedIsHonest
  <2>10. StatusHasCause'
    BY <2>0, <2>1, <2>2 DEF IInv, StatusHasCause
  <2> QED  BY <2>6, <2>7, <2>8, <2>9, <2>10 DEF IInv
<1> QED  BY <1>2, <1>3 DEF StartInsert

\* "confirmed" is noted only when the slot is the reward domain's.
LEMMA ReserveStep ==
    ASSUME IInv, NEW r \in Requests, Reserve(r)
    PROVE  IInv'
<1> PICK t : t = task[r]
  OBVIOUS
<1>1. /\ t # Idle /\ t.at = "reserve" /\ Sound(t) /\ t \in Starts \cup Handoffs /\ Columns
  <2>1. At(r, "reserve")
    BY DEF Reserve
  <2> QED  BY <2>1, Running, KindOfTask DEF Reserving
<1>0. UNCHANGED <<clock, participations, attempts, credentials>>
  BY DEF Reserve
<1>2. PICK u : /\ Goto(r, u)
               /\ \/ u = [t EXCEPT !.at = "save"]
                  \/ \E outcome \in {"error", "yes", "no"} :
                        u = [t EXCEPT !.at = "save", !.seen.reservation = Recorded(outcome)]
               /\ u.seen.reservation = "confirmed" => t.p \in reserved'
               /\ reserved \subseteq reserved'
  <2>1. CASE ~ HasReserver \/ t.seen.reservation = "confirmed"
    <3> PICK u : u = [t EXCEPT !.at = "save"]
      OBVIOUS
    <3>1. Goto(r, u) /\ reserved' = reserved
      BY <2>1 DEF Reserve
    <3>2. u.seen.reservation = "confirmed" => t.p \in reserved
      BY <1>1 DEF Sound, Reserving, Starts, Handoffs
    <3> QED  BY <3>1, <3>2
  <2>2. CASE ~ (~ HasReserver \/ t.seen.reservation = "confirmed")
    <3>1. PICK outcome \in {"error", "yes", "no"} :
             /\ reserved' \in CASE outcome = "yes" -> {reserved \cup {t.p}}
                                [] outcome = "no"  -> {reserved}
                                [] OTHER           -> {reserved, reserved \cup {t.p}}
             /\ Goto(r, [t EXCEPT !.at = "save", !.seen.reservation = Recorded(outcome)])
      BY <2>2 DEF Reserve
    <3> PICK u : u = [t EXCEPT !.at = "save", !.seen.reservation = Recorded(outcome)]
      OBVIOUS
    <3>2. reserved \subseteq reserved'
      BY <3>1
    <3>3. u.seen.reservation = Recorded(outcome)
      BY <1>1 DEF Starts, Handoffs, Row
    <3>4. u.seen.reservation = "confirmed" => outcome = "yes"
      BY <3>3 DEF Recorded
    <3>5. outcome = "yes" => t.p \in reserved'
      BY <3>1
    <3> QED  BY <3>1, <3>2, <3>4, <3>5
  <2> QED  BY <2>1, <2>2
<1>3. /\ t \in Starts => u \in Starts /\ u.for = "start"
      /\ t \in Handoffs => u \in Handoffs /\ u.for = "handoff" /\ u.a = t.a /\ u.purpose = t.purpose
      /\ u.at = "save" /\ u.p = t.p
  <2>1. \A outcome \in {"error", "yes", "no"} : Recorded(outcome) \in Reservations
    BY DEF Recorded, Reservations
  <2>2. \A x \in Reservations :
           LET w == [t EXCEPT !.at = "save", !.seen.reservation = x] IN
           /\ t \in Starts => w \in Starts /\ w.for = "start" /\ w.at = "save" /\ w.p = t.p
           /\ t \in Handoffs => /\ w \in Handoffs /\ w.for = "handoff" /\ w.at = "save"
                               /\ w.p = t.p /\ w.a = t.a /\ w.purpose = t.purpose
    BY DEF Starts, Handoffs, Row
  <2>3. LET w == [t EXCEPT !.at = "save"] IN
           /\ t \in Starts => w \in Starts /\ w.for = "start" /\ w.at = "save" /\ w.p = t.p
           /\ t \in Handoffs => /\ w \in Handoffs /\ w.for = "handoff" /\ w.at = "save"
                               /\ w.p = t.p /\ w.a = t.a /\ w.purpose = t.purpose
    BY DEF Starts, Handoffs
  <2>4. CASE u = [t EXCEPT !.at = "save"]
    BY <1>1, <2>3, <2>4
  <2>5. ASSUME NEW x \in Reservations, u = [t EXCEPT !.at = "save", !.seen.reservation = x]
        PROVE  /\ t \in Starts => u \in Starts /\ u.for = "start" /\ u.at = "save" /\ u.p = t.p
               /\ t \in Handoffs => /\ u \in Handoffs /\ u.for = "handoff" /\ u.at = "save"
                                   /\ u.p = t.p /\ u.a = t.a /\ u.purpose = t.purpose
    BY <2>2, <2>5
  <2> QED  BY <1>1, <1>2, <2>1, <2>4, <2>5
<1>4. Carries(u) => Carries(t) /\ u.a = t.a
  BY <1>1, <1>3 DEF Carries, Handoff, Reserving, Starts, Handoffs
<1>5. Grows /\ NewCredentials = {}
  BY <1>0, <1>2 DEF Grows, NewCredentials, Participations
<1>6. Sound(u)'
  <2>1. Sound(t)'
    BY <1>1, <1>5, SoundStays
  <2> QED  BY <1>1, <1>2, <1>3, <1>4, <2>1 DEF Sound, Task, Handoff, Reserving, Starts, Handoffs
<1>7. DOMAIN task' = Requests /\ Tasks' /\ OneCarrier'
  BY <1>1, <1>2, <1>4, <1>5, <1>6, TasksKeepAlone DEF IInv
<1>8. Columns'
  BY <1>0, <1>1, <1>7 DEF Columns, Participations
<1>9. OneStartPerKey' /\ SingleUse' /\ HandoffBindsAttempt' /\ ConfirmedIsHonest' /\ StatusHasCause'
  BY <1>0, <1>2 DEF IInv, OneStartPerKey, SingleUse, HandoffBindsAttempt, ConfirmedIsHonest,
                    StatusHasCause, Participations
<1> QED  BY <1>7, <1>8, <1>9 DEF IInv

\* Attempts written by a request that keeps those handed off.
LEMMA AttemptsStep ==
    ASSUME IInv, NEW r \in Requests, NEW t, Goto(r, t),
           UNCHANGED <<clock, participations, credentials, reserved>>,
           attempts' \in Seq(Attempt), DOMAIN attempts \subseteq DOMAIN attempts',
           \A a \in DOMAIN attempts' : attempts'[a].of \in Participations,
           \A a \in DOMAIN attempts :
              /\ attempts'[a].of = attempts[a].of
              /\ attempts[a].status = "handed_off" => attempts'[a] = attempts[a],
           t # Idle => Sound(t)',
           t # Idle /\ Carries(t) =>
              \A q \in Requests \ {r} : task[q] # Idle /\ Carries(task[q]) => task[q].a # t.a
    PROVE  IInv'
<1>1. Grows /\ NewCredentials = {}
  BY DEF Grows, NewCredentials, Participations
<1>2. DOMAIN task' = Requests /\ Tasks' /\ OneCarrier'
  BY <1>1, TasksKeep DEF IInv
<1>3. Columns'
  BY <1>2 DEF IInv, Columns, Participations
<1>4. OneStartPerKey' /\ SingleUse' /\ ConfirmedIsHonest'
  BY DEF IInv, OneStartPerKey, SingleUse, ConfirmedIsHonest, Participations
<1>5. HandoffBindsAttempt'
  BY DEF IInv, HandoffBindsAttempt, Columns
<1>6. StatusHasCause'
  BY DEF IInv, StatusHasCause, Participations
<1> QED  BY <1>2, <1>3, <1>4, <1>5, <1>6 DEF IInv

\* The cancellation's second statement touches prepared attempts only.
LEMMA CancelAttemptsStep ==
    ASSUME IInv, NEW r \in Requests, CancelAttempts(r)
    PROVE  IInv'
<1>1. attempts' = [i \in DOMAIN attempts |-> CanceledIfPrepared(attempts[i], task[r].p)]
      /\ Goto(r, Idle) /\ UNCHANGED <<clock, participations, credentials, reserved>>
  BY DEF CancelAttempts, Return
<1>2. \A i \in DOMAIN attempts :
         /\ attempts'[i] \in Attempt /\ attempts'[i].of = attempts[i].of
         /\ attempts[i].status = "handed_off" => attempts'[i] = attempts[i]
  BY <1>1, RowRead DEF IInv, CanceledIfPrepared, Attempt
<1>3. attempts' \in Seq(Attempt) /\ DOMAIN attempts' = DOMAIN attempts
  BY <1>1, <1>2 DEF IInv, Columns
<1> QED  BY <1>1, <1>2, <1>3, AttemptsStep DEF IInv, Columns

\* CreateAttempt appends a prepared attempt of the participation it read.
LEMMA CreateStep ==
    ASSUME IInv, NEW r \in Requests, CreateAttemptInsert(r)
    PROVE  IInv'
<1> PICK t : t = task[r]
  OBVIOUS
<1>1. t \in Creates /\ t.p \in Participations /\ attempts \in Seq(Attempt)
  <2>1. At(r, "attempt")
    BY DEF CreateAttemptInsert
  <2> QED  BY <2>1, Running, KindOfTask DEF Sound, Columns
<1> PICK a : a = [of |-> t.p, content |-> t.seen.content, status |-> "prepared"]
  OBVIOUS
<1>2. a \in Attempt /\ a.of = t.p
  BY <1>1 DEF Attempt, Creates, Row, Ids
<1>3. attempts' = Append(attempts, a) /\ Goto(r, Idle)
      /\ UNCHANGED <<clock, participations, credentials, reserved>>
  BY DEF CreateAttemptInsert, Return
<1>4. /\ attempts' \in Seq(Attempt) /\ DOMAIN attempts \subseteq DOMAIN attempts'
      /\ \A i \in DOMAIN attempts : attempts'[i] = attempts[i]
      /\ \A i \in DOMAIN attempts' : i \in DOMAIN attempts \/ attempts'[i] = a
  BY <1>1, <1>2, <1>3
<1> QED  BY <1>1, <1>2, <1>3, <1>4, AttemptsStep DEF IInv, Columns

\* The attempt was prepared, so no running request and no credential has it.
LEMMA FreezeStep ==
    ASSUME IInv, NEW r \in Requests, FreezeAttempt(r)
    PROVE  IInv'
<1> PICK t : t = task[r]
  OBVIOUS
<1>1. /\ t # Idle /\ t \in Handoffs /\ t.at = "freeze" /\ Sound(t) /\ Columns
  <2>1. At(r, "freeze")
    BY DEF FreezeAttempt
  <2> QED  BY <2>1, Running, KindOfTask DEF Sound
<1>2. CASE ~ Freezable(t.a, t.p)
  <2>1. Goto(r, Idle) /\ UNCHANGED <<clock, participations, attempts, credentials, reserved>>
    BY <1>2 DEF FreezeAttempt, Return
  <2> QED  BY <2>1, Reads
<1>3. CASE Freezable(t.a, t.p)
  <2> PICK a, b, u : /\ a = t.a /\ u = [t EXCEPT !.at = "mark"]
                     /\ b = [attempts[a] EXCEPT !.content = t.seen.content, !.status = "handed_off"]
    OBVIOUS
  <2>1. a \in DOMAIN attempts /\ a # NoAttempt /\ attempts[a].of = t.p /\ attempts[a].status = "prepared"
    BY <1>1, <1>3 DEF Sound, Handoff, Reserving, Handoffs, Freezable
  <2>2. /\ attempts' = [attempts EXCEPT ![a] = b] /\ Goto(r, u)
        /\ UNCHANGED <<clock, participations, credentials, reserved>>
    BY <1>3 DEF FreezeAttempt
  <2>3. b \in Attempt /\ b.of = t.p /\ b.status = "handed_off"
    <3>1. attempts[a] \in Attempt /\ t.seen.content \in Contents
      BY <1>1, <2>1, RowRead DEF Handoffs, Row
    <3> QED  BY <2>1, <3>1 DEF Attempt
  <2>4. /\ attempts' \in Seq(Attempt) /\ DOMAIN attempts' = DOMAIN attempts
        /\ attempts'[a] = b /\ \A i \in DOMAIN attempts \ {a} : attempts'[i] = attempts[i]
    BY <1>1, <2>1, <2>2, <2>3 DEF Columns
  <2>5. /\ u \in Handoffs /\ u.at = "mark" /\ u.p = t.p /\ u.a = a /\ u.purpose = t.purpose
        /\ u.seen = t.seen
    BY <1>1 DEF Handoffs
  <2>6. \A c \in DOMAIN credentials : credentials[c].attempt # a
    BY <2>1 DEF IInv, HandoffBindsAttempt
  <2>7. \A q \in Requests : task[q] # Idle /\ Carries(task[q]) => task[q].a # a
    BY <2>1 DEF IInv, Tasks, Sound, Frozen
  <2>8. Sound(u)'
    <3>1. Grows /\ NewCredentials = {}
      BY <2>1, <2>2, <2>3, <2>4 DEF Grows, NewCredentials, Participations
    <3>2. ~Carries(t)
      BY <1>1 DEF Carries
    <3>3. Sound(t)'
      BY <1>1, <3>1, <3>2, SoundStays
    <3>4. Frozen(a, t.p)'
      BY <2>1, <2>3, <2>4 DEF Frozen
    <3> QED  BY <1>1, <2>1, <2>2, <2>5, <2>6, <3>3, <3>4 DEF Sound, Task, Handoff, Reserving, Handoffs
  <2>9. /\ \A i \in DOMAIN attempts' : attempts'[i].of \in Participations
        /\ \A i \in DOMAIN attempts :
              /\ attempts'[i].of = attempts[i].of
              /\ attempts[i].status = "handed_off" => attempts'[i] = attempts[i]
    <3>1. t.p \in Participations /\ \A i \in DOMAIN attempts : attempts[i].of \in Participations
      BY <1>1, <2>1 DEF Columns
    <3>2. ASSUME NEW i \in DOMAIN attempts
          PROVE  i # a => attempts'[i] = attempts[i]
      BY <2>4
    <3>3. attempts'[a].of = t.p
      BY <2>3, <2>4
    <3>4. attempts[a].status # "handed_off"
      BY <2>1
    <3>5. DOMAIN attempts' = DOMAIN attempts /\ attempts[a].of = t.p
      BY <2>1, <2>4
    <3>6. ASSUME NEW i \in DOMAIN attempts
          PROVE  attempts'[i].of \in Participations /\ attempts'[i].of = attempts[i].of
      BY <3>1, <3>2, <3>3, <3>5
    <3>7. ASSUME NEW i \in DOMAIN attempts, attempts[i].status = "handed_off"
          PROVE  attempts'[i] = attempts[i]
      BY <3>2, <3>4, <3>7
    <3> QED  BY <3>5, <3>6, <3>7
  <2>10. \A q \in Requests \ {r} : task[q] # Idle /\ Carries(task[q]) => task[q].a # u.a
    BY <2>5, <2>7
  <2> QED  BY <2>2, <2>4, <2>8, <2>9, <2>10, AttemptsStep
<1> QED  BY <1>2, <1>3

-----------------------------------------------------------------------------
(* Credentials *)

\* The frozen attempt goes on a credential, and its carrier is gone.
LEMMA MintStep ==
    ASSUME IInv, NEW r \in Requests, MintCredential(r)
    PROVE  IInv'
<1> PICK t : t = task[r]
  OBVIOUS
<1>1. /\ t # Idle /\ t \in Handoffs /\ t.at = "mint" /\ Sound(t) /\ Columns
      /\ t.p \in Participations
  <2>1. At(r, "mint")
    BY DEF MintCredential
  <2> QED  BY <2>1, Running, KindOfTask DEF Sound
<1> PICK c : c = [of |-> t.p, attempt |-> t.a, purpose |-> t.purpose,
                  until |-> clock + HandoffTTL, uses |-> 0, revoked |-> FALSE, deleted |-> FALSE]
  OBVIOUS
<1> PICK n : n = Len(credentials) + 1
  OBVIOUS
<1>2. /\ c \in Credential /\ c.of = t.p /\ c.attempt = t.a /\ c.uses = 0
      /\ t.a \in DOMAIN attempts \cup {NoAttempt}
  BY <1>1, BoundsAssumption DEF Credential, Handoffs, Columns, Sound, Handoff, Reserving, Ids
<1>3. /\ credentials' = Append(credentials, c) /\ Goto(r, Idle)
      /\ UNCHANGED <<clock, participations, attempts, reserved>>
  BY DEF MintCredential, Return
<1>4. /\ credentials \in Seq(Credential) /\ credentials' \in Seq(Credential)
      /\ DOMAIN credentials' = DOMAIN credentials \cup {n} /\ n \notin DOMAIN credentials
      /\ credentials'[n] = c
      /\ \A d \in DOMAIN credentials : credentials'[d] = credentials[d]
  BY <1>1, <1>2, <1>3 DEF Columns
<1>5. Carries(t) <=> t.a # NoAttempt
  BY <1>1 DEF Carries, Handoff, Reserving, Handoffs
<1>6. Grows /\ NewCredentials = {n}
  BY <1>3, <1>4 DEF Grows, NewCredentials, Participations
<1>7. \A q \in Requests \ {r} : task[q] # Idle /\ Carries(task[q]) => c.attempt # task[q].a
  <2>1. CASE t.a = NoAttempt
    BY <1>2, <2>1 DEF Carries
  <2>2. CASE t.a # NoAttempt
    BY <1>1, <1>2, <1>5, <2>2 DEF IInv, OneCarrier
  <2> QED  BY <2>1, <2>2
<1>8. DOMAIN task' = Requests /\ Tasks' /\ OneCarrier'
  BY <1>3, <1>4, <1>6, <1>7, TasksKeep DEF IInv
<1>9. Columns'
  BY <1>1, <1>2, <1>3, <1>4, <1>8 DEF Columns, Participations
<1>10. OneStartPerKey' /\ ConfirmedIsHonest'
  BY <1>3 DEF IInv, OneStartPerKey, ConfirmedIsHonest, Participations
<1>11. SingleUse'
  <2>1. c.revoked = FALSE
    OBVIOUS
  <2> QED  BY <1>2, <1>4, <2>1 DEF IInv, SingleUse
<1>12. HandoffBindsAttempt'
  <2>1. t.a # NoAttempt =>
           /\ attempts[t.a].of = t.p /\ attempts[t.a].status = "handed_off"
           /\ \A d \in DOMAIN credentials : credentials[d].attempt # t.a
    BY <1>1, <1>5 DEF Sound, Frozen
  <2> QED  BY <1>2, <1>3, <1>4, <2>1 DEF IInv, HandoffBindsAttempt
<1>13. StatusHasCause'
  BY <1>3, <1>4 DEF IInv, StatusHasCause, Participations
<1> QED  BY <1>8, <1>9, <1>10, <1>11, <1>12, <1>13 DEF IInv

\* A credential row written in place: its use, or its revocation while unspent.
LEMMA CredentialWrite ==
    ASSUME IInv, NEW r \in Requests, NEW t, NEW c \in DOMAIN credentials, NEW row \in Credential,
           credentials' = [credentials EXCEPT ![c] = row], Goto(r, t),
           UNCHANGED <<clock, participations, attempts, reserved>>,
           row.of = credentials[c].of, row.purpose = credentials[c].purpose,
           row.attempt = credentials[c].attempt,
           credentials[c].uses > 0 => row.uses > 0,
           row.uses <= 1 /\ (row.revoked => row.uses = 0),
           t # Idle => ~Carries(t) /\ Sound(t)'
    PROVE  IInv'
<1>1. /\ credentials' \in Seq(Credential) /\ DOMAIN credentials' = DOMAIN credentials
      /\ credentials'[c] = row
      /\ \A d \in DOMAIN credentials \ {c} : credentials'[d] = credentials[d]
  BY DEF IInv, Columns
<1>2. Grows /\ NewCredentials = {}
  BY <1>1 DEF Grows, NewCredentials, Participations
<1>3. DOMAIN task' = Requests /\ Tasks' /\ OneCarrier'
  BY <1>2, TasksKeepAlone DEF IInv
<1>4. \A d \in DOMAIN credentials :
         /\ credentials'[d].of = credentials[d].of
         /\ credentials'[d].purpose = credentials[d].purpose
         /\ credentials'[d].attempt = credentials[d].attempt
         /\ credentials[d].uses > 0 => credentials'[d].uses > 0
  BY <1>1
<1>5. Columns'
  BY <1>1, <1>3, <1>4 DEF IInv, Columns, Participations
<1>6. OneStartPerKey' /\ ConfirmedIsHonest'
  BY DEF IInv, OneStartPerKey, ConfirmedIsHonest, Participations
<1>7. SingleUse'
  BY <1>1 DEF IInv, SingleUse
<1>8. HandoffBindsAttempt' /\ StatusHasCause'
  BY <1>1, <1>4 DEF IInv, HandoffBindsAttempt, StatusHasCause, Participations
<1> QED  BY <1>3, <1>5, <1>6, <1>7, <1>8 DEF IInv

\* The claim looks again, in the statement that uses.
LEMMA ClaimStep ==
    ASSUME IInv, NEW r \in Requests, ClaimCredential(r)
    PROVE  IInv'
<1> PICK t : t = task[r]
  OBVIOUS
<1>1. /\ t # Idle /\ t \in Redeems /\ t.at = "claim" /\ Sound(t) /\ Columns
      /\ t.c \in DOMAIN credentials /\ credentials[t.c] \in Credential
  <2>1. At(r, "claim")
    BY DEF ClaimCredential
  <2> QED  BY <2>1, Running, KindOfTask, RowRead DEF Sound
<1>2. CASE ~ Claimable(t.c)
  <2>1. Goto(r, Idle) /\ UNCHANGED <<clock, participations, attempts, credentials, reserved>>
    BY <1>2 DEF ClaimCredential, Return
  <2> QED  BY <2>1, Reads
<1>3. CASE Claimable(t.c)
  <2> PICK row, u : /\ row = [credentials[t.c] EXCEPT !.uses = credentials[t.c].uses + 1]
                    /\ u = [t EXCEPT !.at = "open"]
    OBVIOUS
  <2>1. /\ credentials' = [credentials EXCEPT ![t.c] = row] /\ Goto(r, u)
        /\ UNCHANGED <<clock, participations, attempts, reserved>>
    BY <1>3 DEF ClaimCredential
  <2>2. credentials[t.c].uses = 0 /\ ~ credentials[t.c].revoked
    BY <1>3 DEF Claimable, Unspent
  <2>3. /\ row \in Credential /\ row.of = credentials[t.c].of
        /\ row.purpose = credentials[t.c].purpose /\ row.attempt = credentials[t.c].attempt
        /\ row.uses = 1 /\ ~ row.revoked
    BY <1>1, <2>2 DEF Credential
  <2>4. u \in Redeems /\ u.at = "open" /\ u.p = t.p /\ u.c = t.c
    BY <1>1 DEF Redeems
  <2>5. credentials'[t.c] = row /\ DOMAIN credentials' = DOMAIN credentials
    BY <1>1, <2>1
  <2>6. ~Carries(u)
    BY <2>4 DEF Carries, Handoff, Reserving
  <2>7. Sound(u)'
    <3>1. u \in Task /\ u.p \in Participations'
      BY <1>1, <2>1, <2>4 DEF Task, Sound, Participations
    <3>2. /\ u.c \in DOMAIN credentials' /\ credentials'[u.c].of = u.p
          /\ credentials'[u.c].uses > 0
      <4>1. credentials[t.c].of = t.p
        BY <1>1 DEF Sound
      <4>2. credentials'[t.c].of = t.p /\ credentials'[t.c].uses = 1
        BY <2>3, <2>5, <4>1
      <4>3. u.c = t.c /\ u.p = t.p
        BY <2>4
      <4>4. u.c \in DOMAIN credentials'
        BY <1>1, <2>5, <4>3
      <4>5. credentials'[u.c].of = u.p
        BY <4>2, <4>3
      <4>6. credentials'[u.c].uses > 0
        BY <4>2, <4>3
      <4> QED  BY <4>4, <4>5, <4>6
    <3> QED  BY <2>4, <2>6, <3>1, <3>2 DEF Sound, Handoff, Reserving
  <2> PICK c : c = t.c
    OBVIOUS
  <2>8. credentials[c].uses > 0 => row.uses > 0
    BY <2>3
  <2>9. row.uses <= 1 /\ (row.revoked => row.uses = 0)
    BY <2>3
  <2>10. c \in DOMAIN credentials /\ credentials' = [credentials EXCEPT ![c] = row]
    BY <1>1, <2>1
  <2>11. row.of = credentials[c].of /\ row.purpose = credentials[c].purpose
         /\ row.attempt = credentials[c].attempt
    BY <2>3
  <2> QED  BY <2>1, <2>3, <2>6, <2>7, <2>8, <2>9, <2>10, <2>11, CredentialWrite
<1> QED  BY <1>2, <1>3

\* A revocation closes a credential that was not used.
LEMMA RevokeStep ==
    ASSUME IInv, NEW r \in Requests, RevokeWrite(r)
    PROVE  IInv'
<1> PICK t : t = task[r]
  OBVIOUS
<1>1. t.c \in DOMAIN credentials /\ credentials[t.c] \in Credential
  <2>1. At(r, "revoke")
    BY DEF RevokeWrite
  <2> QED  BY <2>1, Running, RowRead DEF Sound
<1>2. Goto(r, Idle) /\ UNCHANGED <<clock, participations, attempts, reserved>>
  BY DEF RevokeWrite, Return
<1>3. CASE ~ Unspent(t.c)
  BY <1>2, <1>3, Reads DEF RevokeWrite
<1>4. CASE Unspent(t.c)
  <2> PICK row : row = [credentials[t.c] EXCEPT !.revoked = TRUE]
    OBVIOUS
  <2>1. credentials' = [credentials EXCEPT ![t.c] = row]
    BY <1>4 DEF RevokeWrite
  <2>2. /\ row \in Credential /\ row.of = credentials[t.c].of
        /\ row.purpose = credentials[t.c].purpose /\ row.attempt = credentials[t.c].attempt
        /\ row.uses = credentials[t.c].uses /\ row.uses = 0
    BY <1>1, <1>4 DEF Credential, Unspent
  <2> PICK c : c = t.c
    OBVIOUS
  <2>3. credentials[c].uses > 0 => row.uses > 0
    BY <2>2
  <2>4. row.uses <= 1 /\ (row.revoked => row.uses = 0)
    BY <2>2
  <2>5. c \in DOMAIN credentials /\ credentials' = [credentials EXCEPT ![c] = row]
    BY <1>1, <2>1
  <2>6. row.of = credentials[c].of /\ row.purpose = credentials[c].purpose
        /\ row.attempt = credentials[c].attempt
    BY <2>2
  <2> QED  BY <1>2, <2>2, <2>3, <2>4, <2>5, <2>6, CredentialWrite
<1> QED  BY <1>3, <1>4

-----------------------------------------------------------------------------
(* Steps of no request *)

\* The tasks stay sound while the tables grow under them.
LEMMA NobodyMoves ==
    ASSUME IInv, Grows, NewCredentials = {}, UNCHANGED task
    PROVE  DOMAIN task' = Requests /\ Tasks' /\ OneCarrier'
<1>1. \A r \in Requests : task[r] # Idle => Sound(task[r])'
  <2>1. ASSUME NEW r \in Requests, task[r] # Idle
        PROVE  \E u : u = task[r] /\ Sound(u)'
    BY <2>1, SoundStays DEF IInv, Tasks
  <2> QED  BY <2>1
<1> QED  BY <1>1 DEF IInv, Columns, Tasks, OneCarrier

\* Retention clears what has lapsed and leaves what the invariant speaks of.
LEMMA CleanupStep ==
    ASSUME IInv, NEW retention \in Retentions, Cleanup(retention)
    PROVE  IInv'
<1>0. Columns /\ UNCHANGED <<clock, attempts, reserved, task>>
  BY DEF IInv, Cleanup
<1>1. /\ DOMAIN credentials' = DOMAIN credentials
      /\ \A c \in DOMAIN credentials :
            /\ credentials'[c] \in Credential
            /\ credentials'[c].of = credentials[c].of
            /\ credentials'[c].purpose = credentials[c].purpose
            /\ credentials'[c].attempt = credentials[c].attempt
            /\ credentials'[c].uses = credentials[c].uses
            /\ credentials'[c].revoked = credentials[c].revoked
  BY <1>0, RowRead DEF Cleanup, Credential
<1>2. /\ Participations' = Participations
      /\ \A p \in Participations :
            /\ participations'[p] \in Row
            /\ participations'[p].key = participations[p].key
            /\ participations'[p].status = participations[p].status
            /\ participations'[p].reservation = participations[p].reservation
  <2>1. \A p \in Participations : participations[p] \in Row
    BY <1>0, RowRead
  <2> QED  BY <1>0, <2>1 DEF Cleanup, Row, Participations, Columns
<1>3. Grows /\ NewCredentials = {}
  BY <1>0, <1>1, <1>2 DEF Grows, NewCredentials
<1>4. DOMAIN task' = Requests /\ Tasks' /\ OneCarrier'
  BY <1>0, <1>3, NobodyMoves
<1>5. participations' \in Seq(Row) /\ credentials' \in Seq(Credential)
  <2>1. /\ Participations = 1..Len(participations) /\ DOMAIN credentials = 1..Len(credentials)
        /\ Len(participations) \in Nat /\ Len(credentials) \in Nat
    BY <1>0 DEF Columns, Participations
  <2>2. participations' \in [1..Len(participations) -> Row]
    <3>1. participations' = [p \in Participations |-> participations'[p]]
      BY DEF Cleanup
    <3> QED  BY <1>2, <2>1, <3>1
  <2>3. credentials' \in [1..Len(credentials) -> Credential]
    <3>1. credentials' = [c \in DOMAIN credentials |-> credentials'[c]]
      BY DEF Cleanup
    <3> QED  BY <1>1, <2>1, <3>1
  <2> QED  BY <2>1, <2>2, <2>3
<1>6. Columns'
  BY <1>0, <1>1, <1>2, <1>4, <1>5 DEF Columns
<1>7. OneStartPerKey' /\ SingleUse' /\ HandoffBindsAttempt' /\ ConfirmedIsHonest' /\ StatusHasCause'
  BY <1>0, <1>1, <1>2 DEF IInv, OneStartPerKey, SingleUse, HandoffBindsAttempt,
                          ConfirmedIsHonest, StatusHasCause
<1> QED  BY <1>4, <1>6, <1>7 DEF IInv

\* Time passes, or nothing happens.
LEMMA TickStep ==
    ASSUME IInv, Tick \/ UNCHANGED vars
    PROVE  IInv'
<1>1. UNCHANGED <<participations, attempts, credentials, reserved, task>> /\ clock' \in 0..MaxTime
  BY BoundsAssumption DEF Tick, vars, IInv, Columns
<1>2. Grows /\ NewCredentials = {}
  BY <1>1 DEF Grows, NewCredentials, Participations
<1>3. DOMAIN task' = Requests /\ Tasks' /\ OneCarrier'
  BY <1>1, <1>2, NobodyMoves
<1>4. Columns' /\ OneStartPerKey' /\ SingleUse' /\ HandoffBindsAttempt' /\ ConfirmedIsHonest'
      /\ StatusHasCause'
  BY <1>1, <1>3 DEF IInv, Columns, OneStartPerKey, SingleUse, HandoffBindsAttempt,
                    ConfirmedIsHonest, StatusHasCause, Participations
<1> QED  BY <1>3, <1>4 DEF IInv

-----------------------------------------------------------------------------
(* The theorems *)

\* Initially the tables are empty and nobody is under way.
LEMMA InitInv == Init => IInv
<1> SUFFICES ASSUME Init PROVE IInv
  OBVIOUS
<1>1. /\ participations \in Seq(Row) /\ attempts \in Seq(Attempt) /\ credentials \in Seq(Credential)
      /\ Participations = {} /\ DOMAIN attempts = {} /\ DOMAIN credentials = {}
  BY DEF Init, Participations
<1>2. Columns
  BY <1>1, BoundsAssumption DEF Init, Columns
<1>3. Tasks /\ OneCarrier
  BY DEF Init, Tasks, OneCarrier
<1>4. OneStartPerKey /\ SingleUse /\ HandoffBindsAttempt /\ ConfirmedIsHonest /\ StatusHasCause
  BY <1>1 DEF OneStartPerKey, SingleUse, HandoffBindsAttempt, ConfirmedIsHonest, StatusHasCause
<1> QED  BY <1>2, <1>3, <1>4 DEF IInv

\* Every step keeps the invariant: one lemma per kind of action.
LEMMA NextInv == IInv /\ [Next]_vars => IInv'
<1> SUFFICES ASSUME IInv, [Next]_vars PROVE IInv'
  OBVIOUS
<1>1. ASSUME NEW r \in Requests, Arrive(r)
      PROVE  IInv'
  BY <1>1, ArriveStep
<1>2. ASSUME NEW r \in Requests, Step(r)
      PROVE  IInv'
  <2>1. CASE StartInsert(r)          BY <2>1, InsertStep
  <2>2. CASE Answer(r) \/ Abort(r)   BY <2>2, Reads DEF Answer, Abort, Return
  <2>3. CASE Reserve(r)              BY <2>3, ReserveStep
  <2>4. CASE SaveReservationState(r) BY <2>4, SaveStep
  <2>5. CASE UpdateContentWrite(r)   BY <2>5, ContentStep
  <2>6. CASE CancelWrite(r)          BY <2>6, CancelStep
  <2>7. CASE CancelAttempts(r)       BY <2>7, CancelAttemptsStep
  <2>8. CASE CreateAttemptInsert(r)  BY <2>8, CreateStep
  <2>9. CASE FreezeAttempt(r)        BY <2>9, FreezeStep
  <2>10. CASE MarkInProgress(r)      BY <2>10, MarkStep
  <2>11. CASE MintCredential(r)      BY <2>11, MintStep
  <2>12. CASE ClaimCredential(r)     BY <2>12, ClaimStep
  <2>13. CASE RebindVisitor(r)       BY <2>13, RebindStep
  <2>14. CASE MarkAwaitingReview(r)  BY <2>14, ReviewStep
  <2>15. CASE RevokeWrite(r)         BY <2>15, RevokeStep
  <2>16. CASE MarkFulfilledWrite(r)  BY <2>16, FulfilStep
  <2> QED
    BY <1>2, <2>1, <2>2, <2>3, <2>4, <2>5, <2>6, <2>7, <2>8, <2>9, <2>10, <2>11, <2>12, <2>13,
       <2>14, <2>15, <2>16 DEF Step
<1>3. ASSUME NEW r \in Requests, Abort(r)
      PROVE  IInv'
  BY <1>3, Reads DEF Abort, Return
<1>4. ASSUME NEW retention \in Retentions, Cleanup(retention)
      PROVE  IInv'
  BY <1>4, CleanupStep
<1>5. CASE Tick \/ UNCHANGED vars
  BY <1>5, TickStep
<1> QED  BY <1>1, <1>2, <1>3, <1>4, <1>5 DEF Next

\* The invariant holds in every reachable state.
LEMMA Invariance == Spec => []IInv
BY InitInv, NextInv, PTL DEF Spec

\* However many browsers and staff desks present it, and however a revocation races
\* them, a credential opens its participation once and never after it was revoked
\* (the conditional UPDATE of ClaimHandoffCredential).
THEOREM CredentialsAreSingleUse == Spec => []SingleUse
<1>1. IInv => SingleUse
  BY DEF IInv
<1> QED  BY <1>1, Invariance, PTL

\* A credential carries a frozen attempt of its own participation and no other
\* carries it, though the freeze and the credential are statements apart and a
\* request may die between them (FreezeAttempt and BeginHandoff).
THEOREM HandoffsBindTheirAttempt == Spec => []HandoffBindsAttempt
<1>1. IInv => HandoffBindsAttempt
  BY DEF IInv
<1> QED  BY <1>1, Invariance, PTL

\* "confirmed" is only ever on record when the reward domain holds the slot,
\* whichever reservation calls fail, repeat or overtake each other
\* (reserveAndRecord of service.go).
THEOREM ConfirmationsAreHonest == Spec => []ConfirmedIsHonest
<1>1. IInv => ConfirmedIsHonest
  BY DEF IInv
<1> QED  BY <1>1, Invariance, PTL

\* Concurrent starts under one key make one participation (the unique index on the
\* idempotency key).
THEOREM OneKeyStartsOnce == Spec => []OneStartPerKey
<1>1. IInv => OneStartPerKey
  BY DEF IInv
<1> QED  BY <1>1, Invariance, PTL

\* Progress has its frozen attempt, review and fulfilment a spent staff code, though
\* each status is written from what was read before.
THEOREM StatusesHaveTheirCause == Spec => []StatusHasCause
<1>1. IInv => StatusHasCause
  BY DEF IInv
<1> QED  BY <1>1, Invariance, PTL

\* What was handed off stays as it was handed off: the freeze and the cancellation
\* match prepared attempts only.
THEOREM FrozenAttemptsAreKept == Spec => FrozenAttemptsKeep
<1>1. ASSUME IInv, [Next]_vars, NEW a \in DOMAIN attempts, attempts[a].status = "handed_off"
      PROVE  attempts'[a] = attempts[a]
  <2>0. attempts \in Seq(Attempt)
    BY <1>1 DEF IInv, Columns
  <2>1. ASSUME NEW r \in Requests, CancelAttempts(r)
        PROVE  attempts'[a] = attempts[a]
    BY <1>1, <2>1 DEF CancelAttempts, CanceledIfPrepared
  <2>2. ASSUME NEW r \in Requests, CreateAttemptInsert(r)
        PROVE  attempts'[a] = attempts[a]
    <3> PICK x : x = [of |-> task[r].p, content |-> task[r].seen.content, status |-> "prepared"]
      OBVIOUS
    <3>1. attempts' = Append(attempts, x)
      BY <2>2 DEF CreateAttemptInsert
    <3>2. task[r] \in Creates
      BY <1>1, <2>2, Running, KindOfTask DEF CreateAttemptInsert
    <3>3. x \in Attempt
      BY <3>2 DEF Creates, Attempt, Row, Ids
    <3> QED  BY <2>0, <3>1, <3>3
  <2>3. ASSUME NEW r \in Requests, FreezeAttempt(r)
        PROVE  attempts'[a] = attempts[a]
    BY <1>1, <2>0, <2>3 DEF FreezeAttempt, Freezable
  <2>4. ASSUME NEW r \in Requests, Arrive(r) \/ Step(r) \/ Abort(r)
        PROVE  \/ CancelAttempts(r) \/ CreateAttemptInsert(r) \/ FreezeAttempt(r)
               \/ attempts' = attempts
    BY <2>4
    DEF Arrive, Step, Abort, handleParticipationStart, handleParticipationContent,
        handleParticipationCancel, handleParticipationAttemptCreate, handleParticipationHandoff,
        handleParticipationHandoffRevoke, handleParticipationRedeem,
        handleParticipationStaffRedeem, StartReplay, StartRead, UpdateContentRead, CancelRead,
        CreateAttemptRead, BeginHandoff, RevokeRead, RedeemRead, MarkFulfilledRead, StartInsert,
        Answer, Reserve, SaveReservationState, UpdateContentWrite, CancelWrite, MarkInProgress,
        MintCredential, ClaimCredential, RebindVisitor, MarkAwaitingReview, RevokeWrite,
        MarkFulfilledWrite
  <2>5. (\E retention \in Retentions : Cleanup(retention)) \/ Tick \/ UNCHANGED vars
           => attempts' = attempts
    BY DEF Cleanup, Tick, vars
  <2> QED  BY <1>1, <2>1, <2>2, <2>3, <2>4, <2>5 DEF Next
<1>2. IInv /\ [Next]_vars =>
         [\A a \in DOMAIN attempts :
             attempts[a].status = "handed_off" => attempts'[a] = attempts[a]]_vars
  BY <1>1
<1> QED  BY <1>2, Invariance, PTL DEF Spec, FrozenAttemptsKeep
=============================================================================

------------------------ MODULE PublishHandoffProofs ------------------------
(***************************************************************************)
(* Theorems about the publish handoff for every value of its constants:    *)
(* any number of customers, handoffs and requests, whatever the platform   *)
(* sends and however the requests interleave between their statements.     *)
(***************************************************************************)
EXTENDS PublishHandoff, TLAPS, SequenceTheorems

-----------------------------------------------------------------------------
(* The inductive invariant: what the statements a request still has to run *)
(* may say.                                                                *)

Facts == [kind : {"state_changed"}, to : States]
    \cup [kind : {"staff_fact"}]
    \cup [kind : {"official_confirmed"}, receipt : STRING]

Statement == [do : {"state"}, to : States, evidence : Evidence]
        \cup [do : {"log"}, kind : Facts]
        \cup [do : {"answer"}, confirmed : Contents]
        \cup [do : {"mint"}, from : {"start"}, confirmed : Contents]
        \cup [do : {"mint"}, from : {"resume"}]
        \cup [do : {"timed_out"}]
        \cup [do : {"count"}]

InsertOf == [do : {"insert"}, key : Keys, customer : Customers, attempt : Attempts,
             content : Contents]

\* The platform published what handoff h was opened for.
Backed(h) ==
    \E receipt \in Receipts :
        /\ receipt.genuine /\ receipt.published
        /\ receipt.attempt = handoffs[h].attempt
        /\ receipt.content = handoffs[h].content

\* Statements that confirm.
Confirms(s) ==
    \/ s.do = "state" /\ s.to = "platform_confirmed"
    \/ s.do = "log" /\ s.kind.kind = "official_confirmed"

\* One request at a time: what it still writes was allowed by the row as it is now.
Allowed(h, todo) ==
    \A i \in DOMAIN todo :
        /\ todo[i].do = "state" => i = 1
        /\ todo[i].do \in {"state", "mint"} => handoffs[h].status \notin Terminal
        /\ todo[i].do = "mint" =>
              \A j \in DOMAIN todo : todo[j].do = "state" => todo[j].to \notin Terminal

\* What confirms is followed by the record of its receipt; that record, a media signature
\* and an answer come last.
Kept(h, todo) ==
    \A i \in DOMAIN todo :
        /\ todo[i].do = "state" /\ todo[i].to = "platform_confirmed" =>
              \E receipt \in Receipts :
                  /\ Verify(receipt) /\ BindReceipt(receipt, h)
                  /\ \E j \in DOMAIN todo : j > i /\ todo[j] = log(confirmation(receipt.id))
        /\ todo[i].do \in {"mint", "answer"} => i = Len(todo)
        /\ todo[i].do = "log" /\ todo[i].kind.kind = "official_confirmed" => i = Len(todo)

\* A request that works on row h.
OnRow(h, todo) ==
    /\ h \in Handoffs
    /\ todo \in Seq(Statement) /\ todo # <<>>
    /\ Kept(h, todo)
    /\ \A i \in DOMAIN todo : Confirms(todo[i]) => Backed(h)
    /\ serial => Allowed(h, todo)

Tasks ==
    \A r \in Requests : task[r] # Idle =>
        \/ \E s \in InsertOf : task[r].todo = <<s>>
        \/ OnRow(task[r].h, task[r].todo)

Columns ==
    /\ mode \in Modes
    /\ frozenBy \in [Attempts -> Customers \cup {Nobody}]
    /\ handoffs \in Seq(Row)
    /\ \A e \in events : e.of \in Handoffs /\ e.what.kind \in EventKinds
    /\ DOMAIN task = Requests

\* One at a time is at most one running.
OneAtATime ==
    serial => \A q, r \in Requests : task[q] # Idle /\ task[r] # Idle => q = r

IInv == /\ Columns
        /\ Tasks
        /\ OneAtATime
        /\ OneHandoffPerKey
        /\ ConfirmedIsOfficial
        /\ ConfirmingReceiptIsRecorded

-----------------------------------------------------------------------------
(* Statements and rows *)

\* What the handlers write down to run are statements.
LEMMA Statements ==
    /\ \A to \in States, ev \in Evidence : state(to, ev) \in Statement
    /\ \A f \in Facts : log(f) \in Statement
    /\ \A to \in States : [kind |-> "state_changed", to |-> to] \in Facts
    /\ fact \in Facts
    /\ \A id \in STRING : confirmation(id) \in Facts
BY DEF state, log, Statement, Facts, fact, confirmation

\* A statement is what it says it does.
LEMMA StatementKinds ==
    ASSUME NEW s \in Statement
    PROVE  /\ s.do = "state" => s.to \in States /\ s.evidence \in Evidence
           /\ s.do = "log" => s.kind \in Facts
           /\ s.do # "insert"
BY DEF Statement

\* Two statements and what follows them.
LEMMA PairThen ==
    ASSUME NEW S, NEW x \in S, NEW y \in S, NEW rest \in Seq(S), NEW todo,
           todo = <<x, y>> \o rest
    PROVE  /\ todo \in Seq(S) /\ todo # <<>> /\ Len(todo) = 2 + Len(rest)
           /\ DOMAIN todo = 1..(2 + Len(rest))
           /\ todo[1] = x /\ todo[2] = y
           /\ \A i \in DOMAIN todo : i \notin {1, 2} => todo[i] = rest[i - 2] /\ i - 2 \in DOMAIN rest
<1> DEFINE first == <<x, y>>
<1>1. first \in Seq(S) /\ Len(first) = 2 /\ first[1] = x /\ first[2] = y
  OBVIOUS
<1>2. todo = first \o rest
  OBVIOUS
<1> HIDE DEF first
<1>3. todo \in Seq(S) /\ Len(todo) = 2 + Len(rest)
  BY <1>1, <1>2, ConcatProperties
<1>4. \A i \in 1..(Len(first) + Len(rest)) :
         todo[i] = IF i <= Len(first) THEN first[i] ELSE rest[i - Len(first)]
  BY <1>1, <1>2, ConcatProperties
<1>5. DOMAIN todo = 1..(2 + Len(rest)) /\ DOMAIN rest = 1..Len(rest) /\ Len(rest) \in Nat
  BY <1>3
<1>6. todo[1] = first[1] /\ todo[2] = first[2]
  BY <1>1, <1>4, <1>5
<1> QED  BY <1>1, <1>3, <1>4, <1>5, <1>6

\* The UPDATE and its event, with what follows them.
Setting(to, ev, rest) == setState(to, ev) \o rest

\* The statements of a change of state begin with its UPDATE.
LEMMA SettingState ==
    ASSUME NEW to \in States, NEW ev \in Evidence, NEW rest \in Seq(Statement)
    PROVE  LET todo == Setting(to, ev, rest) IN
           /\ todo \in Seq(Statement) /\ todo # <<>>
           /\ 1 \in DOMAIN todo /\ todo[1] = state(to, ev)
           /\ todo[2] = log([kind |-> "state_changed", to |-> to])
           /\ Len(todo) = 2 + Len(rest) /\ DOMAIN todo = 1..(2 + Len(rest))
           /\ \A i \in DOMAIN todo :
                 i \notin {1, 2} => todo[i] = rest[i - 2] /\ i - 2 \in DOMAIN rest
           /\ \A i \in DOMAIN todo :
                 i # 1 => \/ todo[i] = log([kind |-> "state_changed", to |-> to])
                          \/ \E j \in DOMAIN rest : todo[i] = rest[j]
<1> DEFINE f == log([kind |-> "state_changed", to |-> to])
           todo == Setting(to, ev, rest)
<1>1. state(to, ev) \in Statement /\ f \in Statement
  BY Statements
<1>2. todo = <<state(to, ev), f>> \o rest
  BY DEF setState, Setting
<1> HIDE DEF f, todo
<1>3. /\ todo \in Seq(Statement) /\ todo # <<>> /\ DOMAIN todo = 1..(2 + Len(rest))
      /\ todo[1] = state(to, ev) /\ todo[2] = f /\ Len(todo) = 2 + Len(rest)
      /\ \A i \in DOMAIN todo : i \notin {1, 2} => todo[i] = rest[i - 2] /\ i - 2 \in DOMAIN rest
  BY <1>1, <1>2, PairThen
<1> QED  BY <1>3 DEF f, todo

\* What is left after the first statement.
LEMMA Rest ==
    ASSUME NEW todo \in Seq(Statement), todo # <<>>
    PROVE  /\ Head(todo) = todo[1] /\ 1 \in DOMAIN todo /\ Head(todo) \in Statement
           /\ Len(todo) # 1 => Tail(todo) \in Seq(Statement) /\ Tail(todo) # <<>>
           /\ \A i \in DOMAIN Tail(todo) : i + 1 \in DOMAIN todo /\ Tail(todo)[i] = todo[i + 1]
<1>1. Len(todo) \in Nat \ {0} /\ DOMAIN todo = 1..Len(todo)
  BY EmptySeq
<1> PICK rest : rest = Tail(todo)
  OBVIOUS
<1>2. /\ rest \in Seq(Statement) /\ Len(rest) = Len(todo) - 1
      /\ \A i \in 1..Len(rest) : rest[i] = todo[i + 1]
  BY HeadTailProperties
<1>3. DOMAIN rest = 1..(Len(todo) - 1)
  BY <1>1, <1>2
<1>4. Len(todo) # 1 => rest # <<>>
  BY <1>1, <1>2
<1>5. Head(todo) = todo[1] /\ 1 \in DOMAIN todo /\ Head(todo) \in Statement
  BY <1>1
<1> QED  BY <1>1, <1>2, <1>3, <1>4, <1>5

\* Writing a row leaves what it was opened for.
SameBinding ==
    \A h \in Handoffs :
        /\ h \in Handoffs'
        /\ handoffs'[h].key = handoffs[h].key
        /\ handoffs'[h].attempt = handoffs[h].attempt
        /\ handoffs'[h].content = handoffs[h].content

\* A row is written back under the key, attempt and content it had.
LEMMA Written ==
    ASSUME handoffs \in Seq(Row), NEW h \in Handoffs, NEW row \in Row,
           handoffs' = [handoffs EXCEPT ![h] = row],
           row.key = handoffs[h].key, row.attempt = handoffs[h].attempt,
           row.content = handoffs[h].content
    PROVE  /\ handoffs' \in Seq(Row) /\ Handoffs' = Handoffs
           /\ SameBinding
           /\ handoffs'[h] = row
           /\ \A i \in Handoffs : i # h => handoffs'[i] = handoffs[i]
BY DEF Handoffs, SameBinding

\* A receipt that backs a handoff goes on to back it.
LEMMA BackedStays ==
    ASSUME SameBinding, NEW h \in Handoffs, Backed(h)
    PROVE  Backed(h)'
BY DEF SameBinding, Backed

\* What a request still has to run stays right while its row is not written.
LEMMA OnRowStays ==
    ASSUME SameBinding, mode' = mode, NEW h, NEW todo, OnRow(h, todo),
           serial => handoffs'[h].status = handoffs[h].status
    PROVE  OnRow(h, todo)'
<1>1. Kept(h, todo) => Kept(h, todo)'
  BY DEF OnRow, SameBinding, Kept, Verify, BindReceipt
<1> QED  BY <1>1, BackedStays DEF OnRow, SameBinding, Allowed, serial, Confirms

-----------------------------------------------------------------------------
(* What is recorded of the receipts that confirm *)

\* The receipt is on record as a confirmation, or a running request is to put it there.
Recorded(receipt) ==
    ToRecord(receipt) \/ \E e \in events : e.what = confirmation(receipt.id)

\* While receipts stay recorded, only a row that becomes confirmed has to show one.
LEMMA StaysRecorded ==
    ASSUME IInv, mode' = mode, SameBinding,
           ~serial => \A receipt \in Receipts : Recorded(receipt) => Recorded(receipt)',
           \A h \in Handoffs' : ~serial /\ handoffs'[h].status = "platform_confirmed" =>
              \/ h \in Handoffs /\ handoffs[h].status = "platform_confirmed"
              \/ h \in Handoffs /\ \E receipt \in Receipts :
                    Verify(receipt) /\ BindReceipt(receipt, h) /\ Recorded(receipt)'
    PROVE  ConfirmingReceiptIsRecorded'
<1>1. \A h \in Handoffs, receipt \in Receipts :
         BindReceipt(receipt, h) => BindReceipt(receipt, h)'
  BY DEF SameBinding, BindReceipt
<1>2. \A h \in Handoffs : ~serial /\ handoffs[h].status = "platform_confirmed" =>
         \E receipt \in Receipts :
            Verify(receipt) /\ BindReceipt(receipt, h) /\ Recorded(receipt)
  BY DEF IInv, ConfirmingReceiptIsRecorded, Recorded
<1>3. ASSUME NEW h \in Handoffs', ~serial, handoffs'[h].status = "platform_confirmed"
      PROVE  \E receipt \in Receipts :
                Verify(receipt) /\ BindReceipt(receipt, h)' /\ Recorded(receipt)'
  <2>1. h \in Handoffs /\ \E receipt \in Receipts :
           Verify(receipt) /\ BindReceipt(receipt, h) /\ Recorded(receipt)'
    BY <1>2, <1>3
  <2> QED  BY <1>1, <2>1
<1> QED  BY <1>3 DEF ConfirmingReceiptIsRecorded, Recorded, Verify, serial

\* The request has nothing of the kind to record.
Silent(r) ==
    task[r] # Idle => \A i \in DOMAIN task[r].todo : task[r].todo[i].do # "log"

-----------------------------------------------------------------------------
(* A step of a request that writes no row and records nothing *)

\* The request goes on with statements that are right for its row, or ends.
LEMMA MovesOn ==
    ASSUME IInv, mode' = mode, UNCHANGED <<handoffs, events>>,
           frozenBy' \in [Attempts -> Customers \cup {Nobody}],
           NEW r \in Requests, serial => \A q \in Requests \ {r} : task[q] = Idle,
           serial \/ Silent(r),
           \/ Return(r)
           \/ \E h, todo : Run(r, h, todo) /\ (OnRow(h, todo) \/ \E s \in InsertOf : todo = <<s>>)
    PROVE  IInv'
<1>1. DOMAIN task' = Requests /\ \A q \in Requests \ {r} : task'[q] = task[q]
  BY DEF IInv, Columns, Return, Run
<1>2. Columns'
  BY <1>1 DEF IInv, Columns, Handoffs
<1>3. Tasks'
  <2>0. \A h, todo : OnRow(h, todo) => OnRow(h, todo)'
    BY DEF OnRow, Kept, Verify, BindReceipt, Backed, Allowed, serial, Handoffs
  <2>1. ASSUME NEW q \in Requests, q # r, task'[q] # Idle
        PROVE  (\E s \in InsertOf : task'[q].todo = <<s>>) \/ OnRow(task[q].h, task[q].todo)'
    BY <1>1, <2>0, <2>1 DEF IInv, Tasks
  <2>2. ASSUME task'[r] # Idle
        PROVE  (\E s \in InsertOf : task'[r].todo = <<s>>) \/ OnRow(task[r].h, task[r].todo)'
    <3>1. PICK h, todo : /\ Run(r, h, todo)
                         /\ OnRow(h, todo) \/ \E s \in InsertOf : todo = <<s>>
      BY <2>2 DEF Return, IInv, Columns
    <3>2. task'[r].h = h /\ task'[r].todo = todo
      BY <3>1 DEF Run, IInv, Columns
    <3> QED  BY <2>0, <3>1, <3>2
  <2> QED  BY <1>1, <2>1, <2>2 DEF Tasks, OnRow
<1>4. OneAtATime'
  BY <1>1 DEF IInv, OneAtATime, serial
<1>5. OneHandoffPerKey' /\ ConfirmedIsOfficial'
  BY DEF IInv, OneHandoffPerKey, ConfirmedIsOfficial, Handoffs
<1>6. ConfirmingReceiptIsRecorded'
  <2>1. SameBinding /\ Handoffs' = Handoffs
    BY DEF SameBinding, Handoffs
  <2>2. ASSUME ~serial, NEW receipt \in Receipts, ToRecord(receipt)
        PROVE  ToRecord(receipt)'
    <3>1. PICK q \in Requests : task[q] # Idle /\ \E i \in DOMAIN task[q].todo :
                                  task[q].todo[i] = log(confirmation(receipt.id))
      BY <2>2 DEF ToRecord
    <3>2. q # r
      BY <2>2, <3>1 DEF Silent, log
    <3> QED  BY <1>1, <3>1, <3>2 DEF ToRecord
  <2>3. ~serial => \A receipt \in Receipts : Recorded(receipt) => Recorded(receipt)'
    BY <2>2 DEF Recorded
  <2> QED  BY <2>1, <2>3, StaysRecorded
<1> QED  BY <1>2, <1>3, <1>4, <1>5, <1>6 DEF IInv

-----------------------------------------------------------------------------
(* What the handlers write down *)

\* The table allows nothing from a terminal state.
LEMMA TableEnds ==
    ASSUME NEW from, NEW to, NEW ev, CheckTransition(from, to, ev)
    PROVE  from \notin Terminal
BY DEF CheckTransition, transitions, Terminal

\* A sequence of at most one is empty or a single element.
LEMMA AtMostOne ==
    ASSUME NEW S, NEW few \in Seq(S), Len(few) <= 1
    PROVE  Len(few) \in {0, 1}
<1>1. Len(few) \in Nat
  BY LenProperties
<1>2. \A n \in Nat : n <= 1 => n \in {0, 1}
  OBVIOUS
<1> QED  BY ONLY <1>1, <1>2, Len(few) <= 1

\* A state that the row allows, with statements after it that set none.
LEMMA Allows ==
    ASSUME Columns, NEW h \in Handoffs, NEW to \in States, NEW ev \in Evidence,
           serial => handoffs[h].status \notin Terminal,
           NEW rest \in Seq(Statement), Len(rest) <= 1,
           \A i \in DOMAIN rest : rest[i].do \in {"log", "timed_out"},
           to = "platform_confirmed" =>
              \E receipt \in Receipts :
                 /\ Verify(receipt) /\ BindReceipt(receipt, h)
                 /\ Len(rest) = 1 /\ rest[1] = log(confirmation(receipt.id)),
           (to = "platform_confirmed" \/ \E i \in DOMAIN rest : Confirms(rest[i])) => Backed(h)
    PROVE  OnRow(h, Setting(to, ev, rest))
<1> DEFINE todo == Setting(to, ev, rest)
<1>2. /\ todo \in Seq(Statement) /\ todo # <<>>
      /\ 1 \in DOMAIN todo /\ todo[1] = state(to, ev)
      /\ todo[2] = log([kind |-> "state_changed", to |-> to])
      /\ Len(todo) = 2 + Len(rest) /\ DOMAIN todo = 1..(2 + Len(rest))
      /\ \A i \in DOMAIN todo :
            i \notin {1, 2} => todo[i] = rest[i - 2] /\ i - 2 \in DOMAIN rest
      /\ \A i \in DOMAIN todo :
            i # 1 => \/ todo[i] = log([kind |-> "state_changed", to |-> to])
                     \/ \E j \in DOMAIN rest : todo[i] = rest[j]
  BY SettingState
<1> HIDE DEF todo
<1>3. \A i \in DOMAIN todo : i # 1 => todo[i].do \in {"log", "timed_out"}
  BY <1>2 DEF log
<1>4. todo[1].do = "state" /\ (Confirms(todo[1]) => to = "platform_confirmed")
  BY <1>2 DEF state, Confirms
<1>5. \A i \in DOMAIN todo : i # 1 /\ Confirms(todo[i]) => \E j \in DOMAIN rest : Confirms(rest[j])
  BY <1>2 DEF log, Confirms
<1>6. \A i \in DOMAIN todo : Confirms(todo[i]) => Backed(h)
  BY <1>4, <1>5
<1>7. serial => Allowed(h, todo)
  BY <1>3, <1>4 DEF Allowed
<1>8. Kept(h, todo)
  <2>1. Len(rest) \in {0, 1}
    BY AtMostOne
  <2>2. \A i \in DOMAIN todo : i \notin {1, 2} => i = 3 /\ i = Len(todo)
    BY <1>2, <2>1
  <2>3. ASSUME NEW i \in DOMAIN todo
        PROVE  /\ todo[i].do \notin {"mint", "answer"}
               /\ todo[i].do = "log" /\ todo[i].kind.kind = "official_confirmed" => i = Len(todo)
    <3>1. todo[2].kind.kind # "official_confirmed"
      BY <1>2 DEF log
    <3> QED  BY <1>3, <1>4, <2>2, <3>1
  <2>4. ASSUME NEW i \in DOMAIN todo, todo[i].do = "state", todo[i].to = "platform_confirmed"
        PROVE  \E receipt \in Receipts :
                  /\ Verify(receipt) /\ BindReceipt(receipt, h)
                  /\ \E j \in DOMAIN todo : j > i /\ todo[j] = log(confirmation(receipt.id))
    <3>1. i = 1 /\ to = "platform_confirmed"
      BY <1>2, <1>3, <2>4 DEF state
    <3>2. PICK receipt \in Receipts :
             /\ Verify(receipt) /\ BindReceipt(receipt, h)
             /\ Len(rest) = 1 /\ rest[1] = log(confirmation(receipt.id))
      BY <3>1
    <3>3. 3 \in DOMAIN todo /\ todo[3] = rest[1]
      BY <1>2, <3>2
    <3> QED  BY <3>1, <3>2, <3>3
  <2> QED  BY <2>3, <2>4 DEF Kept
<1>9. OnRow(h, todo)
  BY <1>2, <1>6, <1>7, <1>8 DEF OnRow
<1> QED  BY <1>9 DEF todo

\* The same without anything after it.
LEMMA AllowsAlone ==
    ASSUME Columns, NEW h \in Handoffs, NEW to \in States, NEW ev \in Evidence,
           serial => handoffs[h].status \notin Terminal, to # "platform_confirmed"
    PROVE  OnRow(h, setState(to, ev))
<1>1. setState(to, ev) \in Seq(Statement)
  BY Statements DEF setState
<1>2. setState(to, ev) = Setting(to, ev, <<>>) /\ <<>> \in Seq(Statement)
  BY <1>1, ConcatEmptySeq DEF Setting
<1>3. DOMAIN <<>> = {} /\ Len(<<>>) <= 1
  OBVIOUS
<1>4. OnRow(h, Setting(to, ev, <<>>))
  BY <1>2, <1>3, Allows
<1> QED  BY <1>2, <1>4

\* One statement that neither sets a state nor confirms.
LEMMA Single ==
    ASSUME NEW h \in Handoffs, NEW s \in Statement,
           s.do \notin {"state", "mint"}, ~Confirms(s)
    PROVE  OnRow(h, <<s>>)
<1>1. Kept(h, <<s>>)
  BY DEF Kept, Confirms
<1> QED  BY <1>1 DEF OnRow, Allowed

\* A request arrives: the handler's reads and its decision.
LEMMA ArriveStep ==
    ASSUME IInv, NEW r \in Requests, Arrive(r)
    PROVE  IInv'
<1>0. /\ mode' = mode
      /\ serial => \A q \in Requests \ {r} : task[q] = Idle
      /\ Silent(r)
  BY DEF Arrive, Silent
<1>a. frozenBy \in [Attempts -> Customers \cup {Nobody}] /\ Columns
  BY DEF IInv, Columns
<1>b. ASSUME NEW h, NEW todo, OnRow(h, todo), Begin(r, h, todo)
      PROVE  IInv'
  BY <1>0, <1>a, <1>b, MovesOn DEF Begin
<1>1. CASE handlePublicPublishHandoffStart(r)
  <2>0. PICK c \in Customers, a \in Attempts, content \in Contents :
           \E key \in ExplicitKeys \cup {DerivedKey(c)} :
              StartReplay(r, c, a, content, key) \/ StartRead(r, c, a, content, key)
    BY <1>1 DEF handlePublicPublishHandoffStart
  <2>1. PICK key \in ExplicitKeys \cup {DerivedKey(c)} :
           StartReplay(r, c, a, content, key) \/ StartRead(r, c, a, content, key)
    BY <2>0
  <2>2. ASSUME prepareAttempt(c, a)
        PROVE  frozenBy' \in [Attempts -> Customers \cup {Nobody}]
    BY <1>a, <2>2 DEF prepareAttempt
  <2>3. CASE StartReplay(r, c, a, content, key)
    <3>1. PICK h \in byKey(key) :
             /\ prepareAttempt(c, a)
             /\ Run(r, h, <<[do |-> "answer", confirmed |-> content]>>)
             /\ UNCHANGED <<handoffs, events>>
      BY <2>3 DEF StartReplay
    <3>2. h \in Handoffs /\ [do |-> "answer", confirmed |-> content] \in Statement
      BY DEF byKey, Statement
    <3>3. OnRow(h, <<[do |-> "answer", confirmed |-> content]>>)
      BY <3>2, Single DEF Confirms
    <3> QED  BY <1>0, <2>2, <3>1, <3>3, MovesOn
  <2>4. CASE StartRead(r, c, a, content, key)
    <3> DEFINE s == [do |-> "insert", key |-> key, customer |-> c, attempt |-> a,
                     content |-> content]
    <3>1. prepareAttempt(c, a) /\ Run(r, 0, <<s>>) /\ UNCHANGED <<handoffs, events>>
      BY <2>4 DEF StartRead
    <3>2. s \in InsertOf
      BY DEF InsertOf, Keys, DerivedKey
    <3> HIDE DEF s
    <3> QED  BY <1>0, <2>2, <3>1, <3>2, MovesOn
  <2> QED  BY <2>1, <2>3, <2>4
<1>2. CASE handlePublicPublishHandoffCancel(r)
  <2>1. PICK h \in Handoffs :
           /\ CheckTransition(handoffs[h].status, "canceled", "customer_action")
           /\ Begin(r, h, setState("canceled", "customer_action"))
    BY <1>2 DEF handlePublicPublishHandoffCancel, Cancel
  <2> QED  BY <1>a, <1>b, <2>1, TableEnds, AllowsAlone DEF States, Evidence
<1>3. CASE handlePublicPublishHandoffEditorOpened(r)
  <2>1. PICK h \in Handoffs :
           /\ CheckTransition(handoffs[h].status, "editor_opened", "verifier_proof")
           /\ Begin(r, h, setState("editor_opened", "verifier_proof"))
    BY <1>3 DEF handlePublicPublishHandoffEditorOpened, MarkEditorOpened
  <2> QED  BY <1>a, <1>b, <2>1, TableEnds, AllowsAlone DEF States, Evidence
<1>4. CASE handlePublishHandoffStaffEvent(r)
  <2>1. PICK h \in Handoffs : RecordStaffEvent(r, h)
    BY <1>4 DEF handlePublishHandoffStaffEvent
  <2>2. log(fact) \in Statement /\ log(fact).do = "log" /\ ~Confirms(log(fact))
    BY Statements DEF log, fact, Confirms
  <2>3. OnRow(h, <<log(fact)>>)
    BY <2>2, Single
  <2>4. ASSUME CheckTransition(handoffs[h].status, "awaiting_review", "staff_observation")
        PROVE  OnRow(h, setState("awaiting_review", "staff_observation") \o <<log(fact)>>)
    <3> DEFINE rest == <<log(fact)>>
    <3>1. rest \in Seq(Statement) /\ Len(rest) = 1 /\ \A i \in DOMAIN rest : rest[i] = log(fact)
      BY <2>2
    <3> HIDE DEF rest
    <3>2. /\ "awaiting_review" \in States /\ "staff_observation" \in Evidence
          /\ handoffs[h].status \notin Terminal
          /\ Len(rest) <= 1 /\ rest \in Seq(Statement)
          /\ \A i \in DOMAIN rest : rest[i].do \in {"log", "timed_out"} /\ ~Confirms(rest[i])
      BY <2>2, <2>4, <3>1, TableEnds DEF States, Evidence
    <3>3. OnRow(h, Setting("awaiting_review", "staff_observation", rest))
      BY <1>a, <3>2, Allows
    <3> QED  BY <3>3 DEF rest, Setting
  <2> QED  BY <1>b, <2>1, <2>3, <2>4 DEF RecordStaffEvent
<1>5. CASE handlePublicPublishReceipt(r)
  <2>1. PICK h \in Handoffs, receipt \in Receipts : ApplyReceipt(r, h, receipt)
    BY <1>5 DEF handlePublicPublishReceipt
  <2>2. Backed(h) /\ Verify(receipt) /\ BindReceipt(receipt, h)
    BY <2>1 DEF ApplyReceipt, Verify, BindReceipt, Backed
  <2> DEFINE rest == <<log(confirmation(receipt.id))>>
  <2>3. /\ log(confirmation(receipt.id)) \in Statement
        /\ log(confirmation(receipt.id)).do = "log"
    BY Statements, ReceiptsAssumption DEF log
  <2>4. /\ rest \in Seq(Statement) /\ Len(rest) = 1
        /\ \A i \in DOMAIN rest : rest[i] = log(confirmation(receipt.id))
        /\ rest[1] = log(confirmation(receipt.id))
    BY <2>3
  <2>5. /\ CheckTransition(handoffs[h].status, "platform_confirmed", "official_receipt")
        /\ Begin(r, h, setState("platform_confirmed", "official_receipt") \o rest)
    BY <2>1 DEF ApplyReceipt
  <2> HIDE DEF rest
  <2>6. OnRow(h, Setting("platform_confirmed", "official_receipt", rest))
    <3>1. /\ "platform_confirmed" \in States /\ "official_receipt" \in Evidence
          /\ handoffs[h].status \notin Terminal
          /\ Len(rest) <= 1 /\ rest \in Seq(Statement)
          /\ \A i \in DOMAIN rest : rest[i].do \in {"log", "timed_out"}
      BY <2>3, <2>4, <2>5, TableEnds DEF States, Evidence
    <3>2. \E x \in Receipts : /\ Verify(x) /\ BindReceipt(x, h)
                               /\ Len(rest) = 1 /\ rest[1] = log(confirmation(x.id))
      BY <2>2, <2>4
    <3> QED  BY <1>a, <2>2, <3>1, <3>2, Allows
  <2> QED  BY <1>b, <2>5, <2>6 DEF Setting
<1>6. CASE Unrouted(r)
  <2>1. PICK h \in Handoffs :
           \/ MarkTimedOut(r, h) \/ Resume(r, h)
           \/ \E c \in Customers : MarkSubmitting(r, c, h) \/ Query(r, c, h)
    BY <1>6 DEF Unrouted
  <2>2. CASE MarkTimedOut(r, h)
    <3> DEFINE rest == <<[do |-> "timed_out"]>>
    <3>1. [do |-> "timed_out"] \in Statement
      BY DEF Statement
    <3>2. /\ rest \in Seq(Statement) /\ Len(rest) = 1
          /\ \A i \in DOMAIN rest : rest[i] = [do |-> "timed_out"]
      BY <3>1
    <3>3. /\ CheckTransition(handoffs[h].status, "unknown", "system_timeout")
          /\ Begin(r, h, setState("unknown", "system_timeout") \o rest)
      BY <2>2 DEF MarkTimedOut
    <3> HIDE DEF rest
    <3>4. \A i \in DOMAIN rest : rest[i].do \in {"log", "timed_out"} /\ ~Confirms(rest[i])
      BY <3>2 DEF Confirms
    <3>6. /\ "unknown" \in States /\ "system_timeout" \in Evidence
          /\ handoffs[h].status \notin Terminal /\ Len(rest) <= 1
      BY <3>2, <3>3, TableEnds DEF States, Evidence
    <3>5. OnRow(h, Setting("unknown", "system_timeout", rest))
      BY <1>a, <3>2, <3>4, <3>6, Allows
    <3> QED  BY <1>b, <3>3, <3>5 DEF Setting
  <2>3. CASE Resume(r, h)
    <3> DEFINE s == [do |-> "mint", from |-> "resume"]
    <3>1. handoffs[h].status \notin Terminal /\ Begin(r, h, <<s>>)
      BY <2>3 DEF Resume, Terminal
    <3>2. s \in Statement /\ s.do = "mint" /\ ~Confirms(s)
      BY DEF Statement, Confirms
    <3> HIDE DEF s
    <3>3. OnRow(h, <<s>>)
      BY <3>1, <3>2 DEF OnRow, Kept, Allowed
    <3> QED  BY <1>b, <3>1, <3>3
  <2>4. ASSUME NEW c \in Customers, MarkSubmitting(r, c, h)
        PROVE  IInv'
    BY <1>a, <1>b, <2>4, TableEnds, AllowsAlone DEF MarkSubmitting, States, Evidence
  <2>5. ASSUME NEW c \in Customers, Query(r, c, h)
        PROVE  IInv'
    <3>1. [do |-> "count"] \in Statement
      BY DEF Statement
    <3>2. OnRow(h, <<[do |-> "count"]>>)
      BY <3>1, Single DEF Confirms
    <3> QED  BY <1>b, <2>5, <3>2 DEF Query
  <2> QED  BY <2>1, <2>2, <2>3, <2>4, <2>5
<1> QED  BY <1>1, <1>2, <1>3, <1>4, <1>5, <1>6 DEF Arrive

-----------------------------------------------------------------------------
(* The statements *)

\* A request that is running and is not starting works on its row.
LEMMA Working ==
    ASSUME IInv, NEW r \in Requests, task[r] # Idle, task[r].todo # <<>>,
           Head(task[r].todo).do # "insert"
    PROVE  /\ OnRow(task[r].h, task[r].todo)
           /\ Now(r) = task[r].todo[1] /\ 1 \in DOMAIN task[r].todo
           /\ Now(r) \in Statement
           /\ serial => \A q \in Requests \ {r} : task[q] = Idle
<1>1. ASSUME NEW s \in InsertOf, task[r].todo = <<s>>
      PROVE  FALSE
  BY <1>1 DEF InsertOf
<1>2. OnRow(task[r].h, task[r].todo)
  BY <1>1 DEF IInv, Tasks
<1> QED  BY <1>2, Rest DEF OnRow, Now, IInv, OneAtATime

\* The request goes on behind its statement, or ends, over a row that stays live
\* where a media signature is still to come.
LEMMA GoesOn ==
    ASSUME IInv, mode' = mode, NEW r \in Requests, task[r] # Idle,
           OnRow(task[r].h, task[r].todo), Done(r) \/ Return(r),
           serial => \A q \in Requests \ {r} : task[q] = Idle,
           SameBinding, Handoffs' = Handoffs,
           serial => \A i \in DOMAIN task[r].todo :
              task[r].todo[i].do = "mint" /\ i # 1 => handoffs'[task[r].h].status \notin Terminal
    PROVE  /\ DOMAIN task' = Requests /\ Tasks' /\ OneAtATime' /\ OneHandoffPerKey'
           /\ \A q \in Requests \ {r} : task'[q] = task[q]
<1> PICK h, todo : h = task[r].h /\ todo = task[r].todo
  OBVIOUS
<1>1. DOMAIN task' = Requests /\ \A q \in Requests \ {r} : task'[q] = task[q]
  BY DEF IInv, Columns, Return, Run, Done
<1>2. OneAtATime' /\ OneHandoffPerKey'
  BY <1>1 DEF IInv, OneAtATime, serial, OneHandoffPerKey, SameBinding
<1>3. ASSUME NEW q \in Requests, q # r, task'[q] # Idle
      PROVE  (\E s \in InsertOf : task'[q].todo = <<s>>) \/ OnRow(task[q].h, task[q].todo)'
  <2>1. task'[q] = task[q] /\ ~serial
    BY <1>1, <1>3
  <2>2. \A i, t : OnRow(i, t) => OnRow(i, t)'
    BY <2>1, OnRowStays
  <2> QED  BY <1>3, <2>1, <2>2 DEF IInv, Tasks
<1>4. ASSUME task'[r] # Idle
      PROVE  OnRow(task[r].h, task[r].todo)'
  <2>0. Len(todo) # 1 /\ Run(r, h, Tail(todo))
    BY <1>4 DEF Done, Return, IInv, Columns
  <2>1. Len(todo) # 1 /\ task'[r].h = h /\ task'[r].todo = Tail(todo)
    BY <2>0 DEF Run, IInv, Columns
  <2>2. todo \in Seq(Statement) /\ todo # <<>> /\ h \in Handoffs
    BY DEF OnRow
  <2>3. /\ Tail(todo) \in Seq(Statement) /\ Tail(todo) # <<>>
        /\ \A i \in DOMAIN Tail(todo) :
              i + 1 \in DOMAIN todo /\ Tail(todo)[i] = todo[i + 1] /\ i + 1 # 1
    BY <2>1, <2>2, Rest
  <2>4. Backed(h) => Backed(h)'
    BY <2>2, BackedStays
  <2>5. \A i \in DOMAIN Tail(todo) : Confirms(Tail(todo)[i]) => Backed(h)
    BY <2>3 DEF OnRow
  <2>7. ASSUME serial
        PROVE  Allowed(h, Tail(todo))'
    <3>1. \A i \in DOMAIN Tail(todo) : Tail(todo)[i].do # "state"
      BY <2>3, <2>7 DEF OnRow, Allowed
    <3>2. \A i \in DOMAIN Tail(todo) :
             Tail(todo)[i].do = "mint" => handoffs'[h].status \notin Terminal
      BY <2>3, <2>7
    <3> QED  BY <3>1, <3>2 DEF Allowed
  <2>6. Kept(h, Tail(todo))'
    <3> PICK rest : rest = Tail(todo)
      OBVIOUS
    <3>1. /\ rest \in Seq(Statement) /\ Len(todo) = Len(rest) + 1
          /\ DOMAIN rest = 1..Len(rest) /\ DOMAIN todo = 1..Len(todo) /\ Len(rest) \in Nat
          /\ \A i \in DOMAIN rest : i + 1 \in DOMAIN todo /\ rest[i] = todo[i + 1]
      BY <2>2, <2>3, HeadTailProperties
    <3>2. \A j \in DOMAIN todo : j > 1 => j - 1 \in DOMAIN rest /\ rest[j - 1] = todo[j]
      BY <3>1
    <3>3. Kept(h, todo)
      BY DEF OnRow
    <3>4. \A receipt : BindReceipt(receipt, h) => BindReceipt(receipt, h)'
      BY <2>2 DEF SameBinding, BindReceipt
    <3>5. ASSUME NEW i \in DOMAIN rest
          PROVE  /\ rest[i].do \in {"mint", "answer"} => i = Len(rest)
                 /\ rest[i].do = "log" /\ rest[i].kind.kind = "official_confirmed"
                       => i = Len(rest)
      BY <3>1, <3>3 DEF Kept
    <3>6. ASSUME NEW i \in DOMAIN rest, rest[i].do = "state", rest[i].to = "platform_confirmed"
          PROVE  \E receipt \in Receipts :
                    /\ Verify(receipt) /\ BindReceipt(receipt, h)'
                    /\ \E j \in DOMAIN rest : j > i /\ rest[j] = log(confirmation(receipt.id))
      <4>0. /\ i + 1 \in DOMAIN todo
            /\ todo[i + 1].do = "state" /\ todo[i + 1].to = "platform_confirmed"
        BY <3>1, <3>6
      <4>a. \A k \in DOMAIN todo :
               todo[k].do = "state" /\ todo[k].to = "platform_confirmed" =>
                  \E receipt \in Receipts :
                     /\ Verify(receipt) /\ BindReceipt(receipt, h)
                     /\ \E j \in DOMAIN todo : j > k /\ todo[j] = log(confirmation(receipt.id))
        BY <3>3 DEF Kept
      <4>1. PICK receipt \in Receipts, j \in DOMAIN todo :
               /\ Verify(receipt) /\ BindReceipt(receipt, h)
               /\ j > i + 1 /\ todo[j] = log(confirmation(receipt.id))
        BY <4>0, <4>a
      <4>2. j - 1 \in DOMAIN rest /\ rest[j - 1] = todo[j] /\ j - 1 > i
        BY <3>1, <3>2, <4>1
      <4> QED  BY <3>4, <4>1, <4>2
    <3>7. Kept(h, rest)'
      BY <3>5, <3>6 DEF Kept, Verify, log, confirmation
    <3> QED  BY <3>7
  <2>8. OnRow(h, Tail(todo))'
    BY <2>2, <2>3, <2>4, <2>5, <2>6, <2>7 DEF OnRow, serial, Confirms
  <2> QED  BY <2>1, <2>8
<1> QED  BY <1>1, <1>2, <1>3, <1>4 DEF Tasks

\* What comes after the statement that is done is still to be run.
LEMMA LeftToRun ==
    ASSUME IInv, NEW r \in Requests, OnRow(task[r].h, task[r].todo), Done(r),
           NEW i \in DOMAIN task[r].todo, i # 1
    PROVE  task'[r] # Idle /\ \E j \in DOMAIN task'[r].todo : task'[r].todo[j] = task[r].todo[i]
<1> PICK h, todo : h = task[r].h /\ todo = task[r].todo
  OBVIOUS
<1>1. todo \in Seq(Statement) /\ DOMAIN todo = 1..Len(todo) /\ Len(todo) \in Nat /\ Len(todo) # 1
  BY DEF OnRow
<1> PICK rest : rest = Tail(todo)
  OBVIOUS
<1>2. Run(r, h, rest) /\ task'[r].todo = rest
  BY <1>1 DEF Done, Run, IInv, Columns
<1>3. i - 1 \in DOMAIN rest /\ rest[i - 1] = todo[i]
  <2>1. todo # <<>>
    BY <1>1
  <2> QED  BY <1>1, <2>1, HeadTailProperties
<1>4. task'[r] = [h |-> h, todo |-> rest]
  BY <1>2 DEF Run, IInv, Columns
<1>5. task'[r] # Idle
  <2>1. rest # <<>>
    BY <1>3
  <2> QED  BY <1>4, <2>1 DEF Idle
<1> QED  BY <1>2, <1>3, <1>5

\* A request that starts has nothing but its INSERT to run.
LEMMA Starts ==
    ASSUME IInv, NEW r \in Requests, task[r] # Idle, task[r].todo # <<>>,
           Head(task[r].todo).do = "insert"
    PROVE  /\ \E s \in InsertOf : task[r].todo = <<s>>
           /\ \A s \in InsertOf : task[r].todo = <<s>> => NewRow(s) \in Row
           /\ NewRow(Now(r)) \in Row
<1>1. ASSUME OnRow(task[r].h, task[r].todo)
      PROVE  FALSE
  BY <1>1, Rest, StatementKinds DEF OnRow
<1>2. PICK s \in InsertOf : task[r].todo = <<s>>
  BY <1>1 DEF IInv, Tasks
<1>3. \A x \in InsertOf : NewRow(x) \in Row
  BY DEF NewRow, Row, InsertOf, States, Evidence
<1> QED  BY <1>2, <1>3 DEF Now

\* The row is opened, and its request goes on to hand it off.
LEMMA InsertStep ==
    ASSUME IInv, mode' = mode, NEW r \in Requests, Insert(r)
    PROVE  IInv'
<1>0. task[r] # Idle /\ task[r].todo # <<>> /\ Head(task[r].todo).do = "insert"
      /\ UNCHANGED <<frozenBy, events>>
  BY DEF Insert, Due
<1>1. PICK s \in InsertOf : task[r].todo = <<s>>
  BY <1>0, Starts
<1>2. serial => \A q \in Requests \ {r} : task[q] = Idle
  BY <1>0 DEF IInv, OneAtATime
<1>a. frozenBy' \in [Attempts -> Customers \cup {Nobody}]
  BY <1>0 DEF IInv, Columns
<1>b. Silent(r)
  BY <1>1 DEF Silent, InsertOf
<1>3. CASE byKey(s.key) # {}
  BY <1>0, <1>a, <1>b, <1>1, <1>2, <1>3, MovesOn DEF Insert, Now
<1>4. CASE byKey(s.key) = {}
  <2> DEFINE n == Len(handoffs) + 1
             mint == [do |-> "mint", from |-> "start", confirmed |-> s.content]
             todo == Setting("handoff_preparing", "customer_action", <<mint>>)
  <2>1. handoffs' = Append(handoffs, NewRow(s)) /\ Run(r, n, todo)
    BY <1>1, <1>4 DEF Insert, Now, Setting
  <2>2. NewRow(s) \in Row /\ NewRow(s).key = s.key /\ NewRow(s).status = "previewed"
    <3>1. NewRow(s) \in Row
      BY <1>0, <1>1, Starts
    <3> QED  BY <3>1 DEF NewRow
  <2>3. /\ handoffs \in Seq(Row) /\ handoffs' \in Seq(Row)
        /\ Handoffs = 1..Len(handoffs) /\ Handoffs' = 1..n /\ n \in Handoffs' /\ n \notin Handoffs
        /\ handoffs'[n] = NewRow(s)
        /\ \A h \in Handoffs : h \in Handoffs' /\ handoffs'[h] = handoffs[h]
        /\ \A h \in Handoffs' : h \in Handoffs \/ h = n
    BY <2>1, <2>2 DEF IInv, Columns, Handoffs
  <2> HIDE DEF n
  <2>4. DOMAIN task' = Requests /\ \A q \in Requests \ {r} : task'[q] = task[q]
    BY <2>1 DEF IInv, Columns, Run
  <2>5. Columns'
    BY <1>0, <2>3, <2>4 DEF IInv, Columns
  <2>6. OneAtATime'
    BY <1>0, <2>4 DEF IInv, OneAtATime, serial
  <2>7. OneHandoffPerKey'
    <3>1. \A h \in Handoffs : handoffs[h].key # s.key
      BY <1>4 DEF byKey
    <3> QED  BY <2>2, <2>3, <3>1 DEF IInv, OneHandoffPerKey
  <2>8. ConfirmedIsOfficial' /\ ConfirmingReceiptIsRecorded'
    <3>1. \A e \in events : e.of # n
      BY <2>3 DEF IInv, Columns
    <3>2. ConfirmedIsOfficial'
      BY <1>0, <2>2, <2>3, <3>1 DEF IInv, ConfirmedIsOfficial
    <3>3. ASSUME NEW receipt \in Receipts, ToRecord(receipt)
          PROVE  ToRecord(receipt)'
      <4>1. PICK q \in Requests : task[q] # Idle /\ \E i \in DOMAIN task[q].todo :
                                    task[q].todo[i] = log(confirmation(receipt.id))
        BY <3>3 DEF ToRecord
      <4>2. q # r
        BY <1>0, <1>b, <4>1 DEF Silent, log
      <4> QED  BY <2>4, <4>1, <4>2 DEF ToRecord
    <3>4. \A receipt \in Receipts : Recorded(receipt) => Recorded(receipt)'
      BY <1>0, <3>3 DEF Recorded
    <3>5. SameBinding /\ handoffs'[n].status # "platform_confirmed"
      BY <2>2, <2>3 DEF SameBinding
    <3>6. \A h \in Handoffs' : handoffs'[h].status = "platform_confirmed" =>
             h \in Handoffs /\ handoffs[h].status = "platform_confirmed"
      BY <2>3, <3>5
    <3>7. ConfirmingReceiptIsRecorded'
      BY <3>4, <3>5, <3>6, StaysRecorded
    <3> QED  BY <3>2, <3>7
  <2>9. Tasks'
    <3>1. SameBinding
      BY <2>3 DEF SameBinding
    <3>2. ASSUME NEW q \in Requests, q # r, task'[q] # Idle
          PROVE  (\E x \in InsertOf : task'[q].todo = <<x>>) \/ OnRow(task[q].h, task[q].todo)'
      <4>1. task'[q] = task[q]
        BY <2>4, <3>2
      <4>2. CASE OnRow(task[q].h, task[q].todo)
        <5>1. OnRow(task[q].h, task[q].todo) /\ ~serial
          BY <1>2, <3>2, <4>1, <4>2
        <5> QED  BY <3>1, <4>1, <5>1, OnRowStays
      <4> QED  BY <3>2, <4>1, <4>2 DEF IInv, Tasks
    <3>3. OnRow(task[r].h, task[r].todo)'
      <4>1. task'[r].h = n /\ task'[r].todo = todo
        BY <2>1 DEF Run, IInv, Columns
      <4>2. mint \in Statement
        BY DEF Statement, InsertOf
      <4>3. <<mint>> \in Seq(Statement) /\ \A i \in DOMAIN <<mint>> : <<mint>>[i] = mint
        BY <4>2
      <4>4. mint.do = "mint"
        OBVIOUS
      <4> HIDE DEF mint
      <4>5. /\ todo \in Seq(Statement) /\ todo # <<>>
            /\ 1 \in DOMAIN todo /\ todo[1] = state("handoff_preparing", "customer_action")
            /\ \A i \in DOMAIN todo :
                  i # 1 => \/ todo[i] = log([kind |-> "state_changed", to |-> "handoff_preparing"])
                           \/ todo[i] = mint /\ i = Len(todo)
        <5> PICK rest : rest = <<mint>>
          OBVIOUS
        <5>1. rest \in Seq(Statement) /\ Len(rest) = 1 /\ \A i \in DOMAIN rest : rest[i] = mint
          BY <4>3
        <5>2. todo = Setting("handoff_preparing", "customer_action", rest)
          OBVIOUS
        <5>3. "handoff_preparing" \in States /\ "customer_action" \in Evidence
          BY DEF States, Evidence
        <5>a. LET all == Setting("handoff_preparing", "customer_action", rest) IN
              /\ all \in Seq(Statement) /\ all # <<>>
              /\ 1 \in DOMAIN all /\ all[1] = state("handoff_preparing", "customer_action")
              /\ all[2] = log([kind |-> "state_changed", to |-> "handoff_preparing"])
              /\ Len(all) = 2 + Len(rest) /\ DOMAIN all = 1..(2 + Len(rest))
              /\ \A i \in DOMAIN all :
                    i \notin {1, 2} => all[i] = rest[i - 2] /\ i - 2 \in DOMAIN rest
          BY <5>1, <5>3, SettingState
        <5> HIDE DEF todo
        <5>4. /\ todo \in Seq(Statement) /\ todo # <<>>
              /\ 1 \in DOMAIN todo /\ todo[1] = state("handoff_preparing", "customer_action")
              /\ todo[2] = log([kind |-> "state_changed", to |-> "handoff_preparing"])
              /\ Len(todo) = 2 + Len(rest) /\ DOMAIN todo = 1..(2 + Len(rest))
              /\ \A i \in DOMAIN todo :
                    i \notin {1, 2} => todo[i] = rest[i - 2] /\ i - 2 \in DOMAIN rest
          BY <5>2, <5>a
        <5> QED  BY <5>1, <5>4
      <4> HIDE DEF todo
      <4>6. \A i \in DOMAIN todo : ~Confirms(todo[i])
        BY <4>4, <4>5 DEF Confirms, state, log
      <4>7. \A i \in DOMAIN todo :
               /\ todo[i].do = "state" => i = 1 /\ todo[i].to = "handoff_preparing"
        BY <4>4, <4>5 DEF state, log
      <4>8. Allowed(task[r].h, task[r].todo)'
        BY <2>2, <2>3, <4>1, <4>7 DEF Allowed, Terminal
      <4>9. Kept(task[r].h, task[r].todo)'
        <5>1. \A i \in DOMAIN todo :
                 /\ todo[i].do = "state" => todo[i].to # "platform_confirmed"
                 /\ todo[i].do \in {"mint", "answer"} => i = Len(todo)
                 /\ ~(todo[i].do = "log" /\ todo[i].kind.kind = "official_confirmed")
          BY <4>4, <4>5 DEF state, log
        <5> QED  BY <4>1, <5>1 DEF Kept
      <4> QED  BY <2>3, <4>1, <4>5, <4>6, <4>8, <4>9 DEF OnRow, Confirms
    <3> QED  BY <3>2, <3>3 DEF Tasks
  <2> QED  BY <2>5, <2>6, <2>7, <2>8, <2>9 DEF IInv
<1> QED  BY <1>3, <1>4

\* A media signature and an answer are all that their request has to run.
LEMMA Alone ==
    ASSUME NEW h, NEW todo \in Seq(Statement), todo # <<>>, Kept(h, todo),
           todo[1].do \in {"mint", "answer"}
    PROVE  \A i \in DOMAIN todo : i = 1
<1>1. DOMAIN todo = 1..Len(todo) /\ Len(todo) \in Nat \ {0}
  BY EmptySeq
<1> QED  BY <1>1 DEF Kept

\* A media signature works or not: the row becomes ready or failed.
LEMMA MintStep ==
    ASSUME IInv, mode' = mode, NEW r \in Requests, mintMedia(r)
    PROVE  IInv'
<1>0. /\ task[r] # Idle /\ task[r].todo # <<>> /\ Head(task[r].todo).do = "mint"
      /\ UNCHANGED <<frozenBy, handoffs, events>>
      /\ frozenBy \in [Attempts -> Customers \cup {Nobody}] /\ Columns
  BY DEF mintMedia, Due, IInv, Columns
<1>1. /\ OnRow(task[r].h, task[r].todo)
      /\ task[r].todo[1].do = "mint" /\ 1 \in DOMAIN task[r].todo
      /\ serial => \A q \in Requests \ {r} : task[q] = Idle
  BY <1>0, Working DEF Now
<1>2. task[r].h \in Handoffs /\ (serial => handoffs[task[r].h].status \notin Terminal)
  BY <1>1 DEF OnRow, Allowed
<1>3. \A ev \in Evidence : /\ OnRow(task[r].h, setState("handoff_ready", ev))
                           /\ OnRow(task[r].h, setState("failed", ev))
  BY <1>0, <1>2, AllowsAlone DEF States
<1>4. \E to, ev : /\ Run(r, task[r].h, setState(to, ev))
                  /\ to \in {"handoff_ready", "failed"} /\ ev \in Evidence
  BY DEF mintMedia, Evidence
<1>5. \E h, todo : Run(r, h, todo) /\ OnRow(h, todo)
  BY <1>3, <1>4
<1>6. Silent(r)
  BY <1>1, Alone DEF OnRow, Silent
<1> QED  BY <1>0, <1>1, <1>5, <1>6, MovesOn

\* The answer ends the request.
LEMMA AnswerStep ==
    ASSUME IInv, mode' = mode, NEW r \in Requests, Answer(r)
    PROVE  IInv'
<1>1. frozenBy' \in [Attempts -> Customers \cup {Nobody}]
  BY DEF Answer, IInv, Columns
<1>2. serial => \A q \in Requests \ {r} : task[q] = Idle
  BY DEF Answer, Due, IInv, OneAtATime
<1>3. task[r] # Idle /\ task[r].todo # <<>> /\ Head(task[r].todo).do = "answer"
  BY DEF Answer, Due
<1>4. Silent(r)
  BY <1>3, Working, Alone DEF OnRow, Silent, Now
<1> QED  BY <1>1, <1>2, <1>4, MovesOn DEF Answer

\* A row written by the request: its state, or a column beside it.
LEMMA WriteStep ==
    ASSUME IInv, mode' = mode, NEW r \in Requests, NEW row \in Row,
           task[r] # Idle, task[r].todo # <<>>, Head(task[r].todo).do \notin {"insert", "log"},
           Update(r, row), Done(r), UNCHANGED <<frozenBy, events>>,
           row.key = handoffs[task[r].h].key, row.attempt = handoffs[task[r].h].attempt,
           row.content = handoffs[task[r].h].content,
           row.status = handoffs[task[r].h].status
              \/ (Now(r).do = "state" /\ row.status = Now(r).to)
    PROVE  IInv'
<1> PICK h : h = task[r].h
  OBVIOUS
<1>1. /\ OnRow(h, task[r].todo)
      /\ Now(r) = task[r].todo[1] /\ 1 \in DOMAIN task[r].todo
      /\ serial => \A q \in Requests \ {r} : task[q] = Idle
  BY Working
<1>2. h \in Handoffs /\ handoffs \in Seq(Row) /\ handoffs' = [handoffs EXCEPT ![h] = row]
  BY <1>1 DEF OnRow, Update, IInv, Columns
<1>3. /\ handoffs' \in Seq(Row) /\ Handoffs' = Handoffs
      /\ SameBinding
      /\ handoffs'[h] = row
      /\ \A i \in Handoffs : i # h => handoffs'[i] = handoffs[i]
  BY <1>2, Written
<1>4. ASSUME serial, NEW i \in DOMAIN task[r].todo, task[r].todo[i].do = "mint"
      PROVE  handoffs'[h].status \notin Terminal
  BY <1>1, <1>3, <1>4 DEF OnRow, Allowed
<1>5. /\ DOMAIN task' = Requests /\ Tasks' /\ OneAtATime' /\ OneHandoffPerKey'
      /\ \A q \in Requests \ {r} : task'[q] = task[q]
  BY <1>1, <1>3, <1>4, GoesOn
<1>6. Columns'
  BY <1>3, <1>5 DEF IInv, Columns
<1>7. ConfirmedIsOfficial'
  <2>1. ASSUME NEW i \in Handoffs, handoffs'[i].status = "platform_confirmed"
        PROVE  handoffs[i].status = "platform_confirmed" \/ Backed(i)
    BY <1>1, <1>3, <2>1 DEF OnRow, Confirms
  <2>2. \A i \in Handoffs : Backed(i) => Backed(i)'
    BY <1>3, BackedStays
  <2>3. \A i \in Handoffs :
           (handoffs[i].status = "platform_confirmed"
              \/ \E e \in events : e.of = i /\ e.what.kind = "official_confirmed")
           => Backed(i)
    BY DEF IInv, ConfirmedIsOfficial, Backed
  <2> QED  BY <1>3, <2>1, <2>2, <2>3 DEF ConfirmedIsOfficial, Backed
<1>8. ConfirmingReceiptIsRecorded'
  <2>1. ASSUME NEW receipt \in Receipts, ToRecord(receipt)
        PROVE  ToRecord(receipt)'
    <3>1. PICK q \in Requests : task[q] # Idle /\ \E i \in DOMAIN task[q].todo :
                                  task[q].todo[i] = log(confirmation(receipt.id))
      BY <2>1 DEF ToRecord
    <3>2. CASE q # r
      BY <1>5, <3>1, <3>2 DEF ToRecord
    <3>3. CASE q = r
      <4>1. PICK i \in DOMAIN task[r].todo : task[r].todo[i] = log(confirmation(receipt.id))
        BY <3>1, <3>3
      <4>2. i # 1
        BY <1>1, <4>1 DEF log, Now
      <4> QED  BY <1>1, <4>1, <4>2, LeftToRun DEF ToRecord
    <3> QED  BY <3>2, <3>3
  <2>2. \A receipt \in Receipts : Recorded(receipt) => Recorded(receipt)'
    BY <2>1 DEF Recorded
  <2>3. ASSUME NEW i \in Handoffs', ~serial, handoffs'[i].status = "platform_confirmed",
               ~(i \in Handoffs /\ handoffs[i].status = "platform_confirmed")
        PROVE  i \in Handoffs /\ \E receipt \in Receipts :
                  Verify(receipt) /\ BindReceipt(receipt, i) /\ Recorded(receipt)'
    <3>1. i = h /\ Now(r).do = "state" /\ Now(r).to = "platform_confirmed" /\ i \in Handoffs
      BY <1>2, <1>3, <2>3
    <3>2. PICK receipt \in Receipts, j \in DOMAIN task[r].todo :
             /\ Verify(receipt) /\ BindReceipt(receipt, h)
             /\ j > 1 /\ task[r].todo[j] = log(confirmation(receipt.id))
      BY <1>1, <3>1 DEF OnRow, Kept
    <3>3. ToRecord(receipt)'
      BY <1>1, <3>2, LeftToRun DEF ToRecord
    <3> QED  BY <3>1, <3>2, <3>3 DEF Recorded
  <2> QED  BY <1>3, <2>2, <2>3, StaysRecorded
<1> QED  BY <1>5, <1>6, <1>7, <1>8 DEF IInv

\* An event is recorded, or refused by the index on confirmations.
LEMMA LogStep ==
    ASSUME IInv, mode' = mode, NEW r \in Requests, appendEvent(r)
    PROVE  IInv'
<1> PICK h, f : h = task[r].h /\ f = Now(r).kind
  OBVIOUS
<1>0. /\ task[r] # Idle /\ task[r].todo # <<>> /\ Head(task[r].todo).do = "log"
      /\ UNCHANGED <<frozenBy, handoffs>>
  BY DEF appendEvent, Due
<1>1. /\ OnRow(h, task[r].todo)
      /\ Now(r) = task[r].todo[1] /\ 1 \in DOMAIN task[r].todo
      /\ Now(r) \in Statement
      /\ serial => \A q \in Requests \ {r} : task[q] = Idle
  BY <1>0, Working
<1>2. SameBinding /\ Handoffs' = Handoffs /\ h \in Handoffs
  BY <1>0, <1>1 DEF SameBinding, Handoffs, OnRow
<1>3. ASSUME serial, NEW i \in DOMAIN task[r].todo, task[r].todo[i].do = "mint"
      PROVE  handoffs'[h].status \notin Terminal
  BY <1>0, <1>1, <1>3 DEF OnRow, Allowed
<1>4. /\ DOMAIN task' = Requests /\ Tasks' /\ OneAtATime' /\ OneHandoffPerKey'
      /\ \A q \in Requests \ {r} : task'[q] = task[q]
  <2>1. Done(r) \/ Return(r)
    BY DEF appendEvent
  <2> QED  BY <1>0, <1>1, <1>2, <1>3, <2>1, GoesOn
<1>5. \/ events' = events
      \/ Insertable(f) /\ events' = events \cup {[of |-> h, what |-> f]}
  BY DEF appendEvent
<1>6. f \in Facts /\ (f.kind = "official_confirmed" => Backed(h))
  BY <1>0, <1>1, StatementKinds DEF OnRow, Confirms, Now
<1>7. f.kind \in EventKinds
  BY <1>6 DEF Facts, EventKinds
<1>8. Columns'
  BY <1>0, <1>2, <1>4, <1>5, <1>7 DEF IInv, Columns, Handoffs
<1>9. ConfirmedIsOfficial'
  <2>1. \A i \in Handoffs :
           (handoffs[i].status = "platform_confirmed"
              \/ \E e \in events' : e.of = i /\ e.what.kind = "official_confirmed")
           => Backed(i)
    BY <1>5, <1>6 DEF IInv, ConfirmedIsOfficial, Backed
  <2> QED  BY <1>0, <1>2, <2>1 DEF ConfirmedIsOfficial, Backed
<1>10. ConfirmingReceiptIsRecorded'
  <2>1. ASSUME NEW receipt \in Receipts, ToRecord(receipt)
        PROVE  Recorded(receipt)'
    <3>1. PICK q \in Requests : task[q] # Idle /\ \E i \in DOMAIN task[q].todo :
                                  task[q].todo[i] = log(confirmation(receipt.id))
      BY <2>1 DEF ToRecord
    <3>2. CASE q # r
      BY <1>4, <3>1, <3>2 DEF ToRecord, Recorded
    <3>3. CASE q = r
      <4>1. PICK i \in DOMAIN task[r].todo : task[r].todo[i] = log(confirmation(receipt.id))
        BY <3>1, <3>3
      <4>2. CASE i = 1
        <5>1. f = confirmation(receipt.id)
          BY <1>1, <4>1, <4>2 DEF log
        <5>2. \/ \E e \in events : e.what = f
              \/ events' = events \cup {[of |-> h, what |-> f]}
          BY DEF appendEvent, Insertable
        <5>3. \E e \in events' : e.what = f
          <6>1. [of |-> h, what |-> f].what = f
            OBVIOUS
          <6> QED  BY <1>5, <5>2, <6>1
        <5> QED  BY <5>1, <5>3 DEF Recorded
      <4>3. CASE i # 1
        <5>1. f.kind # "official_confirmed"
          <6>1. Kept(h, task[r].todo) /\ task[r].todo \in Seq(Statement)
            BY <1>1 DEF OnRow
          <6> QED  BY <1>0, <1>1, <4>3, <6>1 DEF Kept, Now
        <5>2. Done(r)
          BY <5>1 DEF appendEvent, Insertable
        <5> QED  BY <1>1, <4>1, <4>3, <5>2, LeftToRun DEF ToRecord, Recorded
      <4> QED  BY <4>2, <4>3
    <3> QED  BY <3>2, <3>3
  <2>2. \A receipt \in Receipts : Recorded(receipt) => Recorded(receipt)'
    BY <1>5, <2>1 DEF Recorded
  <2> QED  BY <1>0, <1>2, <2>2, StaysRecorded
<1> QED  BY <1>4, <1>8, <1>9, <1>10 DEF IInv

\* The state, the time-out mark and the number of queries are columns of a row.
LEMMA Writes ==
    ASSUME IInv, mode' = mode, NEW r \in Requests,
           SetStatus(r) \/ SetTimedOut(r) \/ CountQuery(r)
    PROVE  IInv'
<1> PICK h : h = task[r].h
  OBVIOUS
<1>0. /\ task[r] # Idle /\ task[r].todo # <<>> /\ Head(task[r].todo) = Now(r)
      /\ Now(r).do \in {"state", "timed_out", "count"}
      /\ Done(r) /\ UNCHANGED <<frozenBy, events>>
  BY DEF SetStatus, SetTimedOut, CountQuery, Due, Now
<1>1. Now(r) \in Statement /\ handoffs[h] \in Row
  BY <1>0, Working DEF OnRow, IInv, Columns, Handoffs
<1>2. CASE SetStatus(r)
  <2> PICK row : row = [handoffs[h] EXCEPT !.status = Now(r).to, !.evidence = Now(r).evidence]
    OBVIOUS
  <2>1. Now(r).do = "state" /\ Update(r, row)
    BY <1>2 DEF SetStatus, Due, Now
  <2>2. Now(r).to \in States /\ Now(r).evidence \in Evidence
    BY <1>1, <2>1, StatementKinds
  <2>3. /\ row \in Row /\ row.key = handoffs[h].key /\ row.attempt = handoffs[h].attempt
        /\ row.content = handoffs[h].content /\ row.status = Now(r).to
    BY <1>1, <2>2 DEF Row
  <2> QED  BY <1>0, <2>1, <2>3, WriteStep
<1>3. CASE SetTimedOut(r)
  <2> PICK row : row = [handoffs[h] EXCEPT !.timedOut = TRUE]
    OBVIOUS
  <2>1. Update(r, row)
    BY <1>3 DEF SetTimedOut
  <2>2. /\ row \in Row /\ row.key = handoffs[h].key /\ row.attempt = handoffs[h].attempt
        /\ row.content = handoffs[h].content /\ row.status = handoffs[h].status
    BY <1>1 DEF Row
  <2> QED  BY <1>0, <2>1, <2>2, WriteStep
<1>4. CASE CountQuery(r)
  <2> PICK row : row = [handoffs[h] EXCEPT !.queries = handoffs[h].queries + 1]
    OBVIOUS
  <2>1. Update(r, row)
    BY <1>4 DEF CountQuery
  <2>2. /\ row \in Row /\ row.key = handoffs[h].key /\ row.attempt = handoffs[h].attempt
        /\ row.content = handoffs[h].content /\ row.status = handoffs[h].status
    BY <1>1 DEF Row
  <2> QED  BY <1>0, <2>1, <2>2, WriteStep
<1> QED  BY <1>2, <1>3, <1>4

\* A request that dies leaves what it wrote.
LEMMA AbortStep ==
    ASSUME IInv, NEW r \in Requests, Abort(r)
    PROVE  IInv'
<1>1. frozenBy' \in [Attempts -> Customers \cup {Nobody}]
  BY DEF Abort, IInv, Columns
<1>2. serial => \A q \in Requests \ {r} : task[q] = Idle
  BY DEF Abort, IInv, OneAtATime
<1> QED  BY <1>1, <1>2, MovesOn DEF Abort

-----------------------------------------------------------------------------
(* The theorems *)

\* Initially there are no handoffs and nobody is under way.
LEMMA InitInv == Init => IInv
<1> SUFFICES ASSUME Init PROVE IInv
  OBVIOUS
<1>1. handoffs \in Seq(Row) /\ Handoffs = {}
  BY DEF Init, Handoffs
<1>2. Columns /\ Tasks /\ OneAtATime
  BY <1>1 DEF Init, Columns, Tasks, OneAtATime, Modes
<1>3. OneHandoffPerKey /\ ConfirmedIsOfficial /\ ConfirmingReceiptIsRecorded
  BY <1>1 DEF Init, OneHandoffPerKey, ConfirmedIsOfficial, ConfirmingReceiptIsRecorded
<1> QED  BY <1>2, <1>3 DEF IInv

\* Every step keeps the invariant.
LEMMA NextInv == IInv /\ [Next]_vars => IInv'
<1> SUFFICES ASSUME IInv, [Next]_vars PROVE IInv'
  OBVIOUS
<1>1. ASSUME NEW r \in Requests, Arrive(r)
      PROVE  IInv'
  BY <1>1, ArriveStep
<1>2. ASSUME NEW r \in Requests, Step(r)
      PROVE  IInv'
  BY <1>2, InsertStep, MintStep, AnswerStep, Writes, LogStep DEF Step
<1>3. ASSUME NEW r \in Requests, Abort(r)
      PROVE  IInv'
  BY <1>3, AbortStep
<1>4. CASE UNCHANGED vars
  <2>1. \A h, todo : OnRow(h, todo) => OnRow(h, todo)'
    BY <1>4 DEF vars, OnRow, Kept, Verify, BindReceipt, Backed, Allowed, serial, Handoffs
  <2>2. Tasks' /\ Columns' /\ OneAtATime'
    BY <1>4, <2>1 DEF vars, IInv, Tasks, Columns, OneAtATime, serial, Handoffs
  <2>3. OneHandoffPerKey' /\ ConfirmedIsOfficial' /\ ConfirmingReceiptIsRecorded'
    BY <1>4 DEF vars, IInv, OneHandoffPerKey, ConfirmedIsOfficial, ConfirmingReceiptIsRecorded,
                ToRecord, Verify, BindReceipt, serial, Handoffs
  <2> QED  BY <2>2, <2>3 DEF IInv
<1> QED  BY <1>1, <1>2, <1>3, <1>4 DEF Next

\* The invariant holds in every reachable state.
LEMMA Invariance == Spec => []IInv
BY InitInv, NextInv, PTL DEF Spec

\* Rows, events and the statements of running requests keep their types: no request
\* is left without a statement or with a row that does not exist.
THEOREM HandoffTypeCorrect == Spec => []TypeOK
<1>1. IInv => TypeOK
  <2> SUFFICES ASSUME IInv, NEW r \in Requests, task[r] # Idle
               PROVE  /\ task[r].todo # <<>>
                      /\ task[r].h \in Handoffs \/ Due(r, "insert")
    BY DEF IInv, Columns, TypeOK
  <2>1. ASSUME NEW s \in InsertOf, task[r].todo = <<s>>
        PROVE  task[r].todo # <<>> /\ Due(r, "insert")
    BY <2>1 DEF Due, InsertOf
  <2> QED  BY <2>1 DEF IInv, Tasks, OnRow
<1> QED  BY <1>1, Invariance, PTL

\* However clicks, staff events, timeouts and receipts interleave between their
\* statements, a confirmed handoff rests on a genuine receipt for its own attempt
\* and content (BindReceipt, ApplyReceipt and setState of service.go).
THEOREM ConfirmationIsTheWordOfThePlatform == Spec => []ConfirmedIsOfficial
<1>1. IInv => ConfirmedIsOfficial
  BY DEF IInv
<1> QED  BY <1>1, Invariance, PTL

\* Where no request dies, a handoff is not left confirmed without its receipt on record,
\* although the status is written first and the index may refuse the event (setState and
\* appendEvent of service.go).
THEOREM NoConfirmationGoesUnrecorded == Spec => []ConfirmingReceiptIsRecorded
<1>1. IInv => ConfirmingReceiptIsRecorded
  BY DEF IInv
<1> QED  BY <1>1, Invariance, PTL

\* Two starts under one idempotency key never open two handoffs, though both may
\* have read that there is none (the unique index of the handoffs).
THEOREM OneKeyOpensOneHandoff == Spec => []OneHandoffPerKey
<1>1. IInv => OneHandoffPerKey
  BY DEF IInv
<1> QED  BY <1>1, Invariance, PTL

\* The row that a step sets a state of, served alone, was not terminal.
LEMMA TerminalStays ==
    ASSUME IInv, [Next]_vars, NEW h \in Handoffs, serial, handoffs[h].status \in Terminal
    PROVE  handoffs'[h].status = handoffs[h].status
<1>1. CASE handoffs' = handoffs
  BY <1>1
<1>2. ASSUME NEW r \in Requests, Insert(r)
      PROVE  handoffs'[h].status = handoffs[h].status
  <2>1. handoffs \in Seq(Row) /\ NewRow(Now(r)) \in Row
    BY <1>2, Starts DEF Insert, Due, IInv, Columns
  <2>2. handoffs' = handoffs \/ handoffs' = Append(handoffs, NewRow(Now(r)))
    BY <1>2 DEF Insert
  <2> QED  BY <2>1, <2>2 DEF Handoffs
<1>3. ASSUME NEW r \in Requests, SetStatus(r)
      PROVE  handoffs'[h].status = handoffs[h].status
  <2>1. task[r] # Idle /\ task[r].todo # <<>> /\ Head(task[r].todo).do = "state"
    BY <1>3 DEF SetStatus, Due
  <2>2. handoffs[task[r].h].status \notin Terminal
    BY <2>1, Working DEF OnRow, Allowed, Now
  <2> QED  BY <1>3, <2>2 DEF SetStatus, Update
<1>4. ASSUME NEW r \in Requests, SetTimedOut(r) \/ CountQuery(r)
      PROVE  handoffs'[h].status = handoffs[h].status
  <2>1. handoffs[task[r].h] \in Row
    <3>1. task[r] # Idle /\ task[r].todo # <<>> /\ Head(task[r].todo).do # "insert"
      BY <1>4 DEF SetTimedOut, CountQuery, Due
    <3> QED  BY <3>1, Working DEF OnRow, IInv, Columns, Handoffs
  <2>2. \/ handoffs' = [handoffs EXCEPT ![task[r].h] =
                             [handoffs[task[r].h] EXCEPT !.timedOut = TRUE]]
        \/ handoffs' = [handoffs EXCEPT ![task[r].h] =
                             [handoffs[task[r].h] EXCEPT !.queries = handoffs[task[r].h].queries + 1]]
    BY <1>4 DEF SetTimedOut, CountQuery, Update
  <2> QED  BY <2>1, <2>2 DEF Row, Handoffs
<1>5. ASSUME NEW r \in Requests, Arrive(r) \/ Step(r) \/ Abort(r)
      PROVE  \/ Insert(r) \/ SetStatus(r) \/ SetTimedOut(r) \/ CountQuery(r)
             \/ handoffs' = handoffs
  BY <1>5 DEF Arrive, Step, Abort, handlePublicPublishHandoffStart,
        handlePublicPublishHandoffCancel, handlePublicPublishHandoffEditorOpened,
        handlePublishHandoffStaffEvent, handlePublicPublishReceipt, Unrouted, StartReplay,
        StartRead, Cancel, MarkEditorOpened, RecordStaffEvent, ApplyReceipt, MarkTimedOut,
        Resume, MarkSubmitting, Query, Begin, mintMedia, Answer, appendEvent
<1> QED  BY <1>1, <1>2, <1>3, <1>4, <1>5 DEF Next, vars

\* One request at a time, and even when requests die half-way, no operation moves a
\* handoff out of a terminal state (the transition table of state.go).
THEOREM TerminalStatesAreFinal == Spec => TerminalIsFinal
<1>1. IInv /\ [Next]_vars =>
         [\A h \in Handoffs :
             serial /\ handoffs[h].status \in Terminal =>
                handoffs'[h].status = handoffs[h].status]_vars
  BY TerminalStays
<1> QED  BY <1>1, Invariance, PTL DEF Spec, TerminalIsFinal
=============================================================================

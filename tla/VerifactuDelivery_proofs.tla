---------------------- MODULE VerifactuDelivery_proofs -----------------------
(***************************************************************************)
(* Further theorems about VerifactuService: what was sent is registered,   *)
(* cancellations are paired, no record is in two exchanges, a settled      *)
(* status is final, and, for one tenant, what stands as accepted is held   *)
(* by the AEAT.                                                            *)
(*                                                                         *)
(* Each rests on _lock (LockHeld): while a thread is past "enter" nobody   *)
(* else writes, so that what it has read, written or sent stays true until *)
(* it leaves (CancelKnown, InHand, TodoIsTable, AnswerKnown).              *)
(***************************************************************************)
EXTENDS VerifactuService_proofs

\* Some row has the link of this record.
HasRow(xml) ==
    \E i \in DOMAIN rows[xml.tenant] :
        RowXml(xml.tenant, rows[xml.tenant][i]) = xml

\* A request about to insert a cancellation has seen the row it cancels.
CancelKnown ==
    \A t \in Callers : pc[t] = "insert" /\ call[t].kind = "anulacion" =>
        Has(rows[call[t].tenant], call[t].inv, "alta")

\* A row of a cancellation is 'ANULADA' itself.
CancelledStatus ==
    \A tn \in Tenants : \A i \in DOMAIN rows[tn] :
        rows[tn][i].kind = "anulacion" => rows[tn][i].status = "ANULADA"

PairInv == CancelPaired /\ CancelKnown /\ CancelledStatus

CallXml(t) ==
    Xml(call[t].tenant, call[t].inv, call[t].kind, call[t].prev)

\* A file is named after its record, whose row was committed before.
FilesRegistered ==
    \A inv \in Invoices, kind \in Kinds : files[<<inv, kind>>] # None =>
        /\ HasRow(files[<<inv, kind>>])
        /\ files[<<inv, kind>>].inv = inv /\ files[<<inv, kind>>].kind = kind

\* A request past its INSERT has its row.
InHand ==
    \A t \in Callers : pc[t] \in {"file", "send", "update"} => HasRow(CallXml(t))

SentInv == SentIsRegistered /\ FilesRegistered /\ InHand

\* Nobody has answered for the row of a request that is still in progress.
CallOpen(t) ==
    pc[t] \in {"file", "send", "update"} =>
        \A i \in DOMAIN rows[call[t].tenant] :
            LET row == rows[call[t].tenant][i] IN
            row.inv = call[t].inv /\ row.kind = call[t].kind =>
                row.delivery = "PENDIENTE" /\ row.retries = 0

\* The list of a worker is what the table says, and only the thread inside
\* has one.
TodoIsTable(w) ==
    \A id \in DOMAIN todo[w] :
        /\ Inside(w)
        /\ Pending(rows[DefaultTenant][id])
        /\ todo[w][id] = Item(rows[DefaultTenant][id])

OpenInv == (\A t \in Callers : CallOpen(t)) /\ (\A w \in Workers : TodoIsTable(w))

\* An acceptance about to be recorded is one of a record the AEAT holds.
AnswerKnown ==
    /\ \A t \in Callers :
           pc[t] = "update" /\ answer[t] \in Accepted => CallXml(t) \in aeat
    /\ \A w \in Workers : pc[w] = "record" =>
           \A id \in DOMAIN todo[w] : IsNext(w, id) =>
               /\ FileOf(todo[w][id]) # None
               /\ answer[w] \in Accepted => FileOf(todo[w][id]) \in aeat

HeldInv == StandingAcceptedIsHeld /\ AnswerKnown
-----------------------------------------------------------------------------
(***************************************************************************)
(* What a step does to the rows.                                           *)
(***************************************************************************)

\* Every row keeps its record; with SameStatus, its status too, and no row is
\* added.
KeepRecords ==
    \A tn \in Tenants : \A i \in DOMAIN rows[tn] :
        /\ i \in DOMAIN rows'[tn]
        /\ rows'[tn][i].inv = rows[tn][i].inv
        /\ rows'[tn][i].kind = rows[tn][i].kind
        /\ rows'[tn][i].prev = rows[tn][i].prev

SameStatus ==
    \A tn \in Tenants :
        /\ DOMAIN rows'[tn] = DOMAIN rows[tn]
        /\ \A i \in DOMAIN rows[tn] : rows'[tn][i].status = rows[tn][i].status

\* The thread commits a new row.
Inserts(t) ==
    /\ Insert(t)
    /\ ~Has(rows[call[t].tenant], call[t].inv, call[t].kind)

LEMMA RowFields ==
    ASSUME StoreOK, NEW tn \in Tenants, NEW i \in DOMAIN rows[tn]
    PROVE  rows[tn][i] \in RowSet
<1>1. rows[tn] \in Seq(RowSet)
      BY DEF StoreOK
<1> QED BY <1>1

\* The INSERT adds the last row, and marks the invoice it cancels.
LEMMA InsertedAt ==
    ASSUME TypeInv, NEW t \in Callers, Inserts(t)
    PROVE  LET tn == call[t].tenant
               n == Len(rows[tn]) + 1
           IN  /\ tn \in Tenants /\ n \in Nat /\ n > 0
               /\ DOMAIN rows[tn] = 1..(n - 1) /\ DOMAIN rows'[tn] = 1..n
               /\ rows'[tn][n] = Row(call[t].inv, call[t].kind, call[t].prev)
               /\ \A i \in 1..(n - 1) :
                     /\ rows'[tn][i].inv = rows[tn][i].inv
                     /\ rows'[tn][i].kind = rows[tn][i].kind
                     /\ rows'[tn][i].prev = rows[tn][i].prev
                     /\ rows'[tn][i].delivery = rows[tn][i].delivery
                     /\ rows'[tn][i].retries = rows[tn][i].retries
                     /\ rows'[tn][i].status =
                           IF /\ call[t].kind = "anulacion"
                              /\ rows[tn][i].inv = call[t].inv
                              /\ rows[tn][i].kind = "alta"
                           THEN "ANULADA" ELSE rows[tn][i].status
               /\ \A o \in Tenants \ {tn} : rows'[o] = rows[o]
<1> DEFINE tn == call[t].tenant
           old == rows[tn]
           n == Len(old) + 1
           base == IF call[t].kind = "anulacion"
                   THEN Cancelled(old, call[t].inv) ELSE old
           row == Row(call[t].inv, call[t].kind, call[t].prev)
<1>1. tn \in Tenants /\ old \in Seq(RowSet) /\ pc[t] # "idle"
      BY CallerTypes DEF Inserts, Insert
<1>2. /\ base \in Seq(RowSet) /\ SameLinks(old, base) /\ row \in RowSet
      /\ Inserted(old, call[t]) = Append(base, row)
      BY <1>1, InsertedRows
<1>3. rows' = [rows EXCEPT ![tn] = Append(base, row)]
      BY <1>2 DEF Inserts, Insert
<1>4. rows'[tn] = Append(base, row) /\ \A o \in Tenants \ {tn} : rows'[o] = rows[o]
      BY <1>1, <1>3 DEF TypeInv, TypeOK
<1>5. n \in Nat /\ n > 0 /\ DOMAIN old = 1..(n - 1) /\ Len(base) = n - 1
  <2> HIDE DEF old, base, row
  <2> QED BY <1>1, <1>2 DEF SameLinks
<1>6. /\ DOMAIN Append(base, row) = 1..n /\ Append(base, row)[n] = row
      /\ \A i \in 1..(n - 1) : Append(base, row)[i] = base[i]
  <2> HIDE DEF base, row, n
  <2> QED BY <1>2, <1>5, AppendProperties
<1>7. ASSUME NEW i \in 1..(n - 1)
      PROVE  /\ base[i].inv = old[i].inv /\ base[i].kind = old[i].kind
             /\ base[i].prev = old[i].prev
             /\ base[i].delivery = old[i].delivery
             /\ base[i].retries = old[i].retries
             /\ base[i].status = IF /\ call[t].kind = "anulacion"
                                    /\ old[i].inv = call[t].inv
                                    /\ old[i].kind = "alta"
                                 THEN "ANULADA" ELSE old[i].status
  <2>1. i \in DOMAIN old /\ old[i] \in RowSet
        BY <1>1, <1>5
  <2>2. /\ [old[i] EXCEPT !.status = "ANULADA"].status = "ANULADA"
        /\ [old[i] EXCEPT !.status = "ANULADA"].inv = old[i].inv
        /\ [old[i] EXCEPT !.status = "ANULADA"].kind = old[i].kind
        /\ [old[i] EXCEPT !.status = "ANULADA"].prev = old[i].prev
        /\ [old[i] EXCEPT !.status = "ANULADA"].delivery = old[i].delivery
        /\ [old[i] EXCEPT !.status = "ANULADA"].retries = old[i].retries
        BY <2>1 DEF RowSet
  <2>3. CASE call[t].kind = "anulacion"
    <3>1. base[i] = IF old[i].inv = call[t].inv /\ old[i].kind = "alta"
                    THEN [old[i] EXCEPT !.status = "ANULADA"] ELSE old[i]
          BY <2>1, <2>3 DEF Cancelled
    <3> HIDE DEF old, base
    <3> QED BY <2>2, <2>3, <3>1
  <2>4. CASE call[t].kind # "anulacion"
        BY <2>4
  <2> QED BY <2>3, <2>4
<1>8. /\ DOMAIN rows'[tn] = 1..n /\ rows'[tn][n] = row
      /\ \A i \in 1..(n - 1) : rows'[tn][i] = base[i]
  <2> HIDE DEF base, row, n, tn
  <2> QED BY <1>4, <1>6
<1>9. row = Row(call[t].inv, call[t].kind, call[t].prev)
      OBVIOUS
<1> HIDE DEF base, row
<1> QED BY ZenonT(60), <1>1, <1>4, <1>5, <1>7, <1>8, <1>9

\* The UPDATE of a request writes its answer.
LEMMA AnsweredAt ==
    ASSUME TypeInv, NEW t \in Callers, Update(t)
    PROVE  LET tn == call[t].tenant IN
           /\ tn \in Tenants
           /\ DOMAIN rows'[tn] = DOMAIN rows[tn]
           /\ \A i \in DOMAIN rows[tn] :
                 /\ rows'[tn][i].inv = rows[tn][i].inv
                 /\ rows'[tn][i].kind = rows[tn][i].kind
                 /\ rows'[tn][i].prev = rows[tn][i].prev
                 /\ rows'[tn][i].status = rows[tn][i].status
                 /\ rows'[tn][i].retries = rows[tn][i].retries
                 /\ rows'[tn][i].delivery =
                       IF rows[tn][i].inv = call[t].inv /\ rows[tn][i].kind = call[t].kind
                       THEN answer[t] ELSE rows[tn][i].delivery
           /\ \A o \in Tenants \ {tn} : rows'[o] = rows[o]
<1> DEFINE tn == call[t].tenant
           old == rows[tn]
           new == Answered(old, call[t].inv, call[t].kind, answer[t])
<1>1. tn \in Tenants /\ old \in Seq(RowSet)
      BY CallerTypes DEF Update
<1>2. rows'[tn] = new /\ \A o \in Tenants \ {tn} : rows'[o] = rows[o]
      BY <1>1 DEF Update, TypeInv, TypeOK
<1>3. DOMAIN new = DOMAIN old
      BY DEF Answered
<1>4. ASSUME NEW i \in DOMAIN old
      PROVE  /\ new[i].inv = old[i].inv /\ new[i].kind = old[i].kind
             /\ new[i].prev = old[i].prev /\ new[i].status = old[i].status
             /\ new[i].retries = old[i].retries
             /\ new[i].delivery = IF old[i].inv = call[t].inv /\ old[i].kind = call[t].kind
                                  THEN answer[t] ELSE old[i].delivery
  <2>1. old[i] \in RowSet
        BY <1>1
  <2>2. new[i] = IF old[i].inv = call[t].inv /\ old[i].kind = call[t].kind
                 THEN [old[i] EXCEPT !.delivery = answer[t]] ELSE old[i]
        BY DEF Answered
  <2> HIDE DEF old, new
  <2> QED BY <2>1, <2>2 DEF RowSet
<1> HIDE DEF new
<1> QED BY <1>1, <1>2, <1>3, <1>4

\* The UPDATE of a worker writes one row.
LEMMA RetriedAt ==
    ASSUME TypeInv, NEW w \in Workers, NEW id \in DOMAIN todo[w], RecordRetry(w, id)
    PROVE  LET tn == DefaultTenant IN
           /\ tn \in Tenants /\ id \in DOMAIN rows[tn]
           /\ DOMAIN rows'[tn] = DOMAIN rows[tn]
           /\ rows'[tn][id].inv = rows[tn][id].inv
           /\ rows'[tn][id].kind = rows[tn][id].kind
           /\ rows'[tn][id].prev = rows[tn][id].prev
           /\ rows'[tn][id].status = rows[tn][id].status
           /\ rows'[tn][id].delivery = answer[w]
           /\ rows'[tn][id].retries = todo[w][id].retries + 1
           /\ \A i \in DOMAIN rows[tn] \ {id} : rows'[tn][i] = rows[tn][i]
           /\ \A o \in Tenants \ {tn} : rows'[o] = rows[o]
<1> DEFINE old == rows[DefaultTenant]
           row == Retried(old[id], answer[w], todo[w][id].retries + 1)
<1>1. DefaultTenant \in Tenants /\ old \in Seq(RowSet) /\ w \in Threads
      BY ConstantsAssumption DEF TypeInv, TypeOK, Threads
<1>2. id \in DOMAIN old /\ old[id] \in RowSet
      BY <1>1, TypeInvParts DEF TodosOK, TodoOK
<1>3. rows' = [rows EXCEPT ![DefaultTenant] = [old EXCEPT ![id] = row]]
      BY DEF RecordRetry
<1>4. /\ rows'[DefaultTenant] = [old EXCEPT ![id] = row]
      /\ \A o \in Tenants \ {DefaultTenant} : rows'[o] = rows[o]
      BY <1>1, <1>3 DEF TypeInv, TypeOK
<1>5. /\ row.inv = old[id].inv /\ row.kind = old[id].kind /\ row.prev = old[id].prev
      /\ row.status = old[id].status /\ row.delivery = answer[w]
      /\ row.retries = todo[w][id].retries + 1
      BY <1>2 DEF Retried, RowSet
<1> HIDE DEF row
<1> QED BY <1>1, <1>2, <1>4, <1>5

\* Every step that changes rows is one of these three.
LEMMA WritesRows ==
    ASSUME [Next]_vars
    PROVE  \/ UNCHANGED rows
           \/ \E t \in Callers : Inserts(t)
           \/ \E t \in Callers : Update(t)
           \/ \E w \in Workers : \E id \in DOMAIN todo[w] :
                  IsNext(w, id) /\ RecordRetry(w, id)
<1>1. ASSUME NEW t \in Callers, CallerStep(t)
      PROVE  UNCHANGED rows \/ Inserts(t) \/ Update(t)
      BY <1>1 DEF CallerStep, Enter, Prepare, Refuse, Insert, InsertLocked, WriteFile,
                  DeliveryRaises, SendNew, UpdateLocked, Inserts
<1>2. ASSUME NEW w \in Workers, WorkerStep(w)
      PROVE  \/ UNCHANGED rows
             \/ \E id \in DOMAIN todo[w] : IsNext(w, id) /\ RecordRetry(w, id)
      BY <1>2 DEF WorkerStep, Scan, Resend, SkipMissing, RetryFails, EndScan
<1> QED BY <1>1, <1>2 DEF Next, Request, Crash, vars

LEMMA RecordsKept ==
    ASSUME TypeInv, [Next]_vars
    PROVE  KeepRecords
<1>1. CASE UNCHANGED rows
      BY <1>1 DEF KeepRecords
<1>2. ASSUME NEW t \in Callers, Inserts(t) PROVE KeepRecords
  <2>1. ASSUME NEW tn \in Tenants, NEW i \in DOMAIN rows[tn]
        PROVE  /\ i \in DOMAIN rows'[tn]
               /\ rows'[tn][i].inv = rows[tn][i].inv
               /\ rows'[tn][i].kind = rows[tn][i].kind
               /\ rows'[tn][i].prev = rows[tn][i].prev
    <3>1. CASE tn = call[t].tenant
      <4> DEFINE n == Len(rows[tn]) + 1
      <4>1. /\ n \in Nat /\ DOMAIN rows[tn] = 1..(n - 1) /\ DOMAIN rows'[tn] = 1..n
            /\ \A k \in 1..(n - 1) : /\ rows'[tn][k].inv = rows[tn][k].inv
                                     /\ rows'[tn][k].kind = rows[tn][k].kind
                                     /\ rows'[tn][k].prev = rows[tn][k].prev
            BY <1>2, <3>1, InsertedAt
      <4> HIDE DEF n
      <4> QED BY <4>1
    <3>2. CASE tn # call[t].tenant
          BY <1>2, <3>2, InsertedAt
    <3> QED BY <3>1, <3>2
  <2> QED BY <2>1 DEF KeepRecords
<1>3. ASSUME NEW t \in Callers, Update(t) PROVE KeepRecords
      BY <1>3, AnsweredAt DEF KeepRecords
<1>4. ASSUME NEW w \in Workers, NEW id \in DOMAIN todo[w], RecordRetry(w, id)
      PROVE  KeepRecords
      BY <1>4, RetriedAt DEF KeepRecords
<1> QED BY <1>1, <1>2, <1>3, <1>4, WritesRows
-----------------------------------------------------------------------------
(***************************************************************************)
(* What a step does to a thread, its own or another's.                     *)
(***************************************************************************)

SameCall(u) == pc'[u] = pc[u] /\ call'[u] = call[u] /\ answer'[u] = answer[u]

\* A request is where it was, or one step further, or near its start.
Came(u) ==
    \/ pc'[u] \in {"idle", "enter", "read"}
    \/ Prepare(u) /\ pc'[u] = "insert"
    \/ Inserts(u) /\ pc'[u] = "file" /\ call'[u] = call[u]
    \/ WriteFile(u) /\ pc'[u] = "send" /\ call'[u] = call[u]
    \/ SendNew(u) /\ pc'[u] = "update" /\ call'[u] = call[u]
    \/ SameCall(u)

SameTodo(w) == pc'[w] = pc[w] /\ todo'[w] = todo[w] /\ answer'[w] = answer[w]

TakesOff(w, id) ==
    /\ Inside(w) /\ pc'[w] = "next"
    /\ todo'[w] = [j \in DOMAIN todo[w] \ {id} |-> todo[w][j]]

\* A worker has no list, or a new one, or sends or finishes its first row.
WorkerCame(w) ==
    \/ DOMAIN todo'[w] = {} /\ pc'[w] = "idle"
    \/ Scan(w) /\ pc'[w] = "next" /\ todo'[w] = Selected(rows[DefaultTenant])
    \/ \E id \in DOMAIN todo[w] :
           IsNext(w, id) /\ Resend(w, id) /\ pc'[w] = "record" /\ todo'[w] = todo[w]
    \/ \E id \in DOMAIN todo[w] : IsNext(w, id) /\ TakesOff(w, id)
    \/ SameTodo(w)

\* The control state is a function of the threads.
ThreadArrays ==
    /\ DOMAIN pc = Threads /\ DOMAIN call = Threads
    /\ DOMAIN answer = Threads /\ DOMAIN todo = Threads

LEMMA TypeArrays == TypeInv => ThreadArrays
BY DEF TypeInv, TypeOK, ThreadArrays

LEMMA OwnCame ==
    ASSUME ThreadArrays, NEW u \in Callers, CallerStep(u)
    PROVE  Came(u)
<1>0. u \in Threads /\ DOMAIN pc = Threads
      BY DEF Threads, ThreadArrays
<1>1. CASE Enter(u)
      BY <1>0, <1>1 DEF Enter, Goto, Came
<1>2. CASE Prepare(u)
      BY <1>0, <1>2 DEF Prepare, Goto, Came
<1>3. CASE Refuse(u)
      BY <1>0, <1>3 DEF Refuse, Leave, Came
<1>4. CASE Insert(u)
      BY <1>0, <1>4 DEF Insert, Inserts, Goto, Leave, Came
<1>5. CASE InsertLocked(u) \/ UpdateLocked(u)
      BY <1>0, <1>5 DEF InsertLocked, UpdateLocked, Locked, Goto, Leave, Came
<1>6. CASE WriteFile(u)
      BY <1>0, <1>6 DEF WriteFile, Goto, Came
<1>7. CASE DeliveryRaises(u)
      BY <1>0, <1>7 DEF DeliveryRaises, Leave, Came
<1>8. CASE SendNew(u)
      BY <1>0, <1>8 DEF SendNew, Goto, Came
<1>9. CASE Update(u)
      BY <1>0, <1>9 DEF Update, Leave, Came
<1> QED BY <1>1, <1>2, <1>3, <1>4, <1>5, <1>6, <1>7, <1>8, <1>9 DEF CallerStep

\* The steps of a thread leave the control state of the others alone.
LEMMA OtherSame ==
    ASSUME ThreadArrays, NEW t \in Threads, NEW u \in Threads, u # t,
           CallerStep(t) \/ WorkerStep(t)
    PROVE  SameCall(u) /\ SameTodo(u)
<1>0. /\ DOMAIN pc = Threads /\ DOMAIN call = Threads
      /\ DOMAIN answer = Threads /\ DOMAIN todo = Threads
      BY DEF ThreadArrays
<1>1. CASE Leave(t)
      BY <1>0, <1>1 DEF Leave, SameCall, SameTodo
<1>2. CASE Locked(t)
      BY <1>0, <1>1, <1>2 DEF Locked, Goto, SameCall, SameTodo
<1>3. CASE CallerStep(t)
  <2>1. CASE Enter(t) \/ Prepare(t)
        BY <1>0, <2>1 DEF Enter, Prepare, Goto, SameCall, SameTodo
  <2>2. CASE Refuse(t) \/ DeliveryRaises(t) \/ Update(t)
        BY <1>1, <2>2 DEF Refuse, DeliveryRaises, Update
  <2>3. CASE InsertLocked(t) \/ UpdateLocked(t)
        BY <1>2, <2>3 DEF InsertLocked, UpdateLocked
  <2>4. CASE Insert(t)
        BY <1>0, <1>1, <2>4 DEF Insert, Goto, SameCall, SameTodo
  <2>5. CASE WriteFile(t)
        BY <1>0, <2>5 DEF WriteFile, Goto, SameCall, SameTodo
  <2>6. CASE SendNew(t)
        BY <1>0, <2>6 DEF SendNew, Send, Goto, SameCall, SameTodo
  <2> QED BY <1>3, <2>1, <2>2, <2>3, <2>4, <2>5, <2>6 DEF CallerStep
<1>4. CASE WorkerStep(t)
  <2>1. CASE Scan(t)
        BY <1>0, <2>1 DEF Scan, Goto, SameCall, SameTodo
  <2>2. CASE EndScan(t)
        BY <1>1, <2>2 DEF EndScan
  <2>3. ASSUME NEW id \in DOMAIN todo[t], Resend(t, id)
        PROVE  SameCall(u) /\ SameTodo(u)
        BY <1>0, <2>3 DEF Resend, Send, Goto, SameCall, SameTodo
  <2>4. ASSUME NEW id \in DOMAIN todo[t], SkipMissing(t, id)
        PROVE  SameCall(u) /\ SameTodo(u)
        BY <1>0, <2>4 DEF SkipMissing, NextItem, SameCall, SameTodo
  <2>5. ASSUME NEW id \in DOMAIN todo[t], RecordRetry(t, id) \/ RetryFails(t, id)
        PROVE  SameCall(u) /\ SameTodo(u)
        BY <1>0, <2>5 DEF RecordRetry, RetryFails, NextItem, Goto, SameCall, SameTodo
  <2> QED BY <1>4, <2>1, <2>2, <2>3, <2>4, <2>5 DEF WorkerStep
<1> QED BY <1>3, <1>4

LEMMA CallersCame ==
    ASSUME ThreadArrays, [Next]_vars, NEW u \in Callers
    PROVE  Came(u)
<1>0. u \in Threads /\ Callers \subseteq Threads /\ Workers \subseteq Threads
      BY DEF Threads
<1>1. ASSUME NEW t \in Callers, NEW tn \in Tenants, NEW inv \in Invoices,
             NEW kind \in Kinds, Request(t, tn, inv, kind)
      PROVE  Came(u)
  <2>1. u # t => SameCall(u)
        BY <1>0, <1>1 DEF Request, Goto, SameCall, ThreadArrays
  <2>2. u = t => pc'[u] = "enter"
        BY <1>0, <1>1 DEF Request, Goto, ThreadArrays
  <2> QED BY <2>1, <2>2 DEF Came
<1>2. ASSUME NEW t \in Callers, CallerStep(t) PROVE Came(u)
      BY <1>0, <1>2, OwnCame, OtherSame DEF Came
<1>3. ASSUME NEW w \in Workers, WorkerStep(w) PROVE Came(u)
      BY <1>0, <1>3, OtherSame, ConstantsAssumption DEF Came
<1>4. CASE Crash
      BY <1>0, <1>4 DEF Crash, Came
<1>5. CASE UNCHANGED vars
      BY <1>5 DEF vars, Came, SameCall
<1> QED BY <1>1, <1>2, <1>3, <1>4, <1>5 DEF Next

LEMMA OwnWorkerCame ==
    ASSUME ThreadArrays, NEW w \in Workers, WorkerStep(w)
    PROVE  WorkerCame(w)
<1>0. w \in Threads /\ DOMAIN pc = Threads /\ DOMAIN todo = Threads
      BY DEF Threads, ThreadArrays
<1>1. CASE Scan(w)
      BY <1>0, <1>1 DEF Scan, Goto, WorkerCame
<1>2. CASE EndScan(w)
      BY <1>0, <1>2 DEF EndScan, Leave, WorkerCame
<1>3. ASSUME NEW id \in DOMAIN todo[w], IsNext(w, id), Resend(w, id)
      PROVE  WorkerCame(w)
      BY <1>0, <1>3 DEF Resend, Goto, WorkerCame
<1>4. ASSUME NEW id \in DOMAIN todo[w], IsNext(w, id),
             SkipMissing(w, id) \/ RecordRetry(w, id) \/ RetryFails(w, id)
      PROVE  WorkerCame(w)
  <2>1. TakesOff(w, id)
        BY <1>0, <1>4 DEF SkipMissing, RecordRetry, RetryFails, NextItem, Goto,
                          TakesOff, Inside
  <2> QED BY <1>4, <2>1 DEF WorkerCame
<1> QED BY <1>1, <1>2, <1>3, <1>4 DEF WorkerStep

LEMMA WorkersCame ==
    ASSUME ThreadArrays, [Next]_vars, NEW w \in Workers
    PROVE  WorkerCame(w)
<1>0. w \in Threads /\ Callers \subseteq Threads /\ Workers \subseteq Threads
      BY DEF Threads
<1>1. ASSUME NEW t \in Callers, NEW tn \in Tenants, NEW inv \in Invoices,
             NEW kind \in Kinds, Request(t, tn, inv, kind)
      PROVE  WorkerCame(w)
  <2>1. SameTodo(w)
        BY <1>0, <1>1, ConstantsAssumption DEF Request, Goto, SameTodo, ThreadArrays
  <2> QED BY <2>1 DEF WorkerCame
<1>2. ASSUME NEW t \in Callers, CallerStep(t) PROVE WorkerCame(w)
      BY <1>0, <1>2, OtherSame, ConstantsAssumption DEF WorkerCame
<1>3. ASSUME NEW v \in Workers, WorkerStep(v) PROVE WorkerCame(w)
      BY <1>0, <1>3, OwnWorkerCame, OtherSame DEF WorkerCame
<1>4. CASE Crash
      BY <1>0, <1>4 DEF Crash, WorkerCame
<1>5. CASE UNCHANGED vars
      BY <1>5 DEF vars, WorkerCame, SameTodo
<1> QED BY <1>1, <1>2, <1>3, <1>4, <1>5 DEF Next

\* While a thread is inside, nobody else writes rows.
LEMMA OnlyMine ==
    ASSUME TypeInv, LockHeld, [Next]_vars, NEW u \in Threads, Inside(u)
    PROVE  \/ UNCHANGED rows
           \/ u \in Callers /\ (Inserts(u) \/ Update(u))
           \/ u \in Workers /\ \E id \in DOMAIN todo[u] :
                                   IsNext(u, id) /\ RecordRetry(u, id)
<1>1. ASSUME NEW t \in Callers, Inserts(t) \/ Update(t) PROVE t = u
      BY <1>1, Alone DEF Inserts, Insert, Update, Inside, Threads
<1>2. ASSUME NEW w \in Workers, NEW id \in DOMAIN todo[w], RecordRetry(w, id)
      PROVE  w = u
      BY <1>2, Alone DEF RecordRetry, Inside, Threads
<1> QED BY <1>1, <1>2, WritesRows
-----------------------------------------------------------------------------
(***************************************************************************)
(* Cancellations.                                                          *)
(***************************************************************************)

\* What CancelPaired says of a table.
Paired(table) ==
    \A i \in DOMAIN table :
        /\ table[i].kind = "alta" =>
              (table[i].status = "ANULADA" <=>
                   \E j \in DOMAIN table :
                       j > i /\ table[j].inv = table[i].inv
                             /\ table[j].kind = "anulacion")
        /\ table[i].kind = "anulacion" =>
              \E j \in 1..(i - 1) :
                  table[j].inv = table[i].inv /\ table[j].kind = "alta"
        /\ \A j \in DOMAIN table :
              table[j].inv = table[i].inv /\ table[j].kind = table[i].kind
                  => i = j

Marked(table) ==
    \A i \in DOMAIN table :
        table[i].kind = "anulacion" => table[i].status = "ANULADA"

LEMMA PairedTables ==
    (CancelPaired <=> \A tn \in Tenants : Paired(rows[tn]))
    /\ (CancelledStatus <=> \A tn \in Tenants : Marked(rows[tn]))
BY DEF CancelPaired, CancelledStatus, Paired, Marked

LEMMA SamePaired ==
    ASSUME NEW a, NEW b, NEW m \in Nat, DOMAIN a = 1..m, DOMAIN b = 1..m,
           \A i \in 1..m : /\ b[i].inv = a[i].inv /\ b[i].kind = a[i].kind
                           /\ b[i].status = a[i].status,
           Paired(a), Marked(a)
    PROVE  Paired(b) /\ Marked(b)
<1>1. ASSUME NEW i \in 1..m, b[i].kind = "alta"
      PROVE  b[i].status = "ANULADA" <=>
                 \E j \in 1..m : j > i /\ b[j].inv = b[i].inv
                                       /\ b[j].kind = "anulacion"
  <2>1. a[i].status = "ANULADA" <=>
            \E j \in 1..m : j > i /\ a[j].inv = a[i].inv
                                  /\ a[j].kind = "anulacion"
        BY <1>1 DEF Paired
  <2> QED BY <2>1
<1>3. ASSUME NEW i \in 1..m, b[i].kind = "anulacion"
      PROVE  \E j \in 1..(i - 1) : b[j].inv = b[i].inv /\ b[j].kind = "alta"
  <2>1. PICK j \in 1..(i - 1) : a[j].inv = a[i].inv /\ a[j].kind = "alta"
        BY <1>3 DEF Paired
  <2> QED BY <2>1
<1>4. ASSUME NEW i \in 1..m, NEW j \in 1..m,
             b[j].inv = b[i].inv, b[j].kind = b[i].kind
      PROVE  i = j
      BY <1>4 DEF Paired
<1>2. Marked(b)
      BY DEF Marked
<1> QED BY <1>1, <1>2, <1>3, <1>4 DEF Paired

\* The table after an INSERT: the row added is new, and a cancellation finds
\* its invoice before it.
LEMMA InsertPaired ==
    ASSUME NEW a, NEW b, NEW n \in Nat, n > 0, NEW inv, NEW kind \in Kinds,
           DOMAIN a = 1..(n - 1), DOMAIN b = 1..n,
           b[n].inv = inv, b[n].kind = kind,
           b[n].status = (IF kind = "alta" THEN "ALTA" ELSE "ANULADA"),
           \A i \in 1..(n - 1) :
               /\ b[i].inv = a[i].inv /\ b[i].kind = a[i].kind
               /\ b[i].status = IF /\ kind = "anulacion" /\ a[i].inv = inv
                                   /\ a[i].kind = "alta"
                                THEN "ANULADA" ELSE a[i].status,
           ~Has(a, inv, kind), kind = "anulacion" => Has(a, inv, "alta"),
           Paired(a), Marked(a)
    PROVE  Paired(b) /\ Marked(b)
<1>1. kind \in {"alta", "anulacion"} /\ "alta" # "anulacion" /\ "ALTA" # "ANULADA"
      BY DEF Kinds
<1>2. \A i \in 1..(n - 1) : ~(a[i].inv = inv /\ a[i].kind = kind)
      BY DEF Has
<1>3. ASSUME NEW i \in 1..n
      PROVE  b[i].kind = "alta" =>
                 (b[i].status = "ANULADA" <=>
                      \E j \in 1..n : j > i /\ b[j].inv = b[i].inv
                                            /\ b[j].kind = "anulacion")
  <2>1. CASE i = n
        BY <1>1, <2>1
  <2>2. CASE i \in 1..(n - 1)
    <3>1. b[i].kind = "alta" =>
              (a[i].status = "ANULADA" <=>
                   \E j \in 1..(n - 1) : j > i /\ a[j].inv = a[i].inv
                                               /\ a[j].kind = "anulacion")
          BY <2>2 DEF Paired
    <3>2. CASE kind = "anulacion" /\ a[i].inv = inv
          BY <2>2, <3>2
    <3>3. CASE ~(kind = "anulacion" /\ a[i].inv = inv)
      <4>1. b[i].status = a[i].status \/ b[i].kind # "alta"
            BY <2>2, <3>3
      <4>2. ASSUME NEW j \in 1..n, j > i, b[j].inv = b[i].inv, b[j].kind = "anulacion"
            PROVE  j \in 1..(n - 1)
        <5>1. CASE j = n
              BY <2>2, <3>3, <4>2, <5>1
        <5> QED BY <4>2, <5>1
      <4>3. (\E j \in 1..n : j > i /\ b[j].inv = b[i].inv /\ b[j].kind = "anulacion")
            <=> \E j \in 1..(n - 1) : j > i /\ a[j].inv = a[i].inv
                                            /\ a[j].kind = "anulacion"
            BY <2>2, <4>2
      <4> QED BY <2>2, <3>1, <4>1, <4>3
    <3> QED BY <3>2, <3>3
  <2> QED BY <2>1, <2>2
<1>4. ASSUME NEW i \in 1..n, b[i].kind = "anulacion"
      PROVE  \E j \in 1..(i - 1) : b[j].inv = b[i].inv /\ b[j].kind = "alta"
  <2>1. CASE i = n
    <3>1. PICK j \in 1..(n - 1) : a[j].inv = inv /\ a[j].kind = "alta"
          BY <1>4, <2>1 DEF Has
    <3> QED BY <2>1, <3>1
  <2>2. CASE i \in 1..(n - 1)
    <3>1. PICK j \in 1..(i - 1) : a[j].inv = a[i].inv /\ a[j].kind = "alta"
          BY <1>4, <2>2 DEF Paired
    <3> QED BY <2>2, <3>1
  <2> QED BY <2>1, <2>2
<1>5. ASSUME NEW i \in 1..n, NEW j \in 1..n,
             b[j].inv = b[i].inv, b[j].kind = b[i].kind
      PROVE  i = j
  <2>1. CASE i \in 1..(n - 1) /\ j \in 1..(n - 1)
        BY <1>5, <2>1 DEF Paired
  <2> QED BY <1>2, <1>5, <2>1
<1>6. Marked(b)
  <2> SUFFICES ASSUME NEW i \in 1..n, b[i].kind = "anulacion"
               PROVE  b[i].status = "ANULADA"
      BY DEF Marked
  <2>1. CASE i = n
        BY <1>1, <2>1
  <2>2. CASE i \in 1..(n - 1)
        BY <2>2 DEF Marked
  <2> QED BY <2>1, <2>2
<1> QED BY <1>3, <1>4, <1>5, <1>6 DEF Paired

\* A request comes to its INSERT with what it has seen.
LEMMA CancelKnownStep ==
    ASSUME TypeInv, CancelKnown, [Next]_vars
    PROVE  CancelKnown'
<1> SUFFICES ASSUME NEW u \in Callers, pc'[u] = "insert", call'[u].kind = "anulacion"
             PROVE  Has(rows'[call'[u].tenant], call'[u].inv, "alta")
    BY DEF CancelKnown
<1>1. CASE Prepare(u)
  <2>1. u \in Threads /\ pc[u] # "idle"
        BY <1>1 DEF Prepare, Threads
  <2>2. /\ call'[u].tenant = call[u].tenant /\ call'[u].inv = call[u].inv
        /\ call'[u].kind = call[u].kind
        BY <1>1, <2>1, TypeInvParts DEF Prepare, ThreadsOK, CallSet
  <2>3. Cancellable(rows[call[u].tenant], call[u].inv)
        BY <1>1, <2>2 DEF Prepare
  <2>4. rows' = rows
        BY <1>1 DEF Prepare
  <2> QED BY <2>2, <2>3, <2>4 DEF Cancellable, Has
<1>2. CASE SameCall(u)
  <2>1. pc[u] = "insert" /\ call'[u] = call[u]
        BY <1>2 DEF SameCall
  <2>2. Has(rows[call[u].tenant], call[u].inv, "alta")
        BY <2>1 DEF CancelKnown
  <2>3. call[u].tenant \in Tenants
        BY <2>1, CallerTypes
  <2> QED BY <2>1, <2>2, <2>3, RecordsKept DEF Has, KeepRecords
<1> QED BY <1>1, <1>2, TypeArrays, CallersCame DEF Came

LEMMA PairStep ==
    ASSUME TypeInv, PairInv, [Next]_vars
    PROVE  PairInv'
<1>0. \A tn \in Tenants : Paired(rows[tn]) /\ Marked(rows[tn])
      BY PairedTables DEF PairInv
<1>1. ASSUME UNCHANGED rows, NEW o \in Tenants
      PROVE  Paired(rows'[o]) /\ Marked(rows'[o])
      BY <1>0, <1>1
<1>2. ASSUME NEW t \in Callers, Inserts(t), NEW o \in Tenants
      PROVE  Paired(rows'[o]) /\ Marked(rows'[o])
  <2>1. CASE o # call[t].tenant
        BY <1>0, <1>2, <2>1, InsertedAt
  <2>2. CASE o = call[t].tenant
    <3> DEFINE n == Len(rows[o]) + 1
               c == call[t]
    <3>1. /\ n \in Nat /\ n > 0
          /\ DOMAIN rows[o] = 1..(n - 1) /\ DOMAIN rows'[o] = 1..n
          /\ rows'[o][n] = Row(c.inv, c.kind, c.prev)
          /\ \A i \in 1..(n - 1) :
                /\ rows'[o][i].inv = rows[o][i].inv /\ rows'[o][i].kind = rows[o][i].kind
                /\ rows'[o][i].status =
                      IF /\ c.kind = "anulacion" /\ rows[o][i].inv = c.inv
                         /\ rows[o][i].kind = "alta"
                      THEN "ANULADA" ELSE rows[o][i].status
          BY <1>2, <2>2, InsertedAt
    <3>2. /\ rows'[o][n].inv = c.inv /\ rows'[o][n].kind = c.kind
          /\ rows'[o][n].status = (IF c.kind = "alta" THEN "ALTA" ELSE "ANULADA")
          BY <3>1 DEF Row
    <3>3. /\ ~Has(rows[o], c.inv, c.kind) /\ c.kind \in Kinds
          /\ c.kind = "anulacion" => Has(rows[o], c.inv, "alta")
          BY <1>2, <2>2, CallerTypes DEF Inserts, Insert, PairInv, CancelKnown
    <3> HIDE DEF n, c
    <3> QED BY <1>0, <3>1, <3>2, <3>3, InsertPaired
  <2> QED BY <2>1, <2>2
<1>3. ASSUME NEW o \in Tenants, DOMAIN rows'[o] = DOMAIN rows[o],
             \A i \in DOMAIN rows[o] : /\ rows'[o][i].inv = rows[o][i].inv
                                       /\ rows'[o][i].kind = rows[o][i].kind
                                       /\ rows'[o][i].status = rows[o][i].status
      PROVE  Paired(rows'[o]) /\ Marked(rows'[o])
  <2>1. /\ Len(rows[o]) \in Nat /\ DOMAIN rows[o] = 1..Len(rows[o])
        /\ Paired(rows[o]) /\ Marked(rows[o])
        BY <1>0 DEF TypeInv, TypeOK
  <2> QED BY <1>3, <2>1, SamePaired
<1>4. ASSUME NEW t \in Callers, Update(t), NEW o \in Tenants
      PROVE  Paired(rows'[o]) /\ Marked(rows'[o])
  <2>1. CASE o # call[t].tenant
        BY <1>0, <1>4, <2>1, AnsweredAt
  <2>2. CASE o = call[t].tenant
        BY <1>3, <1>4, <2>2, AnsweredAt
  <2> QED BY <2>1, <2>2
<1>5. ASSUME NEW w \in Workers, NEW id \in DOMAIN todo[w], RecordRetry(w, id),
             NEW o \in Tenants
      PROVE  Paired(rows'[o]) /\ Marked(rows'[o])
  <2>1. CASE o # DefaultTenant
        BY <1>0, <1>5, <2>1, RetriedAt
  <2>2. CASE o = DefaultTenant
        BY <1>3, <1>5, <2>2, RetriedAt
  <2> QED BY <2>1, <2>2
<1>6. \A o \in Tenants : Paired(rows'[o]) /\ Marked(rows'[o])
      BY <1>0, <1>1, <1>2, <1>4, <1>5, WritesRows
<1>7. CancelPaired' /\ CancelledStatus'
      BY <1>6 DEF CancelPaired, CancelledStatus, Paired, Marked
<1> QED BY <1>7, CancelKnownStep DEF PairInv

\* Marked as cancelled and cancelled are the same, and one row is kept of each
\* record.
THEOREM PairInvariant == Spec => []PairInv
<1>1. Init => PairInv
      BY DEF Init, PairInv, CancelPaired, CancelKnown, CancelledStatus, Threads
<1>2. TypeInv /\ PairInv /\ [Next]_vars => PairInv'
      BY PairStep
<1> QED BY <1>1, <1>2, TypeInvariant, PTL DEF Spec

\* The columns and the chain never disagree on what is cancelled.
THEOREM AlwaysPaired == Spec => []CancelPaired
<1>1. PairInv => CancelPaired
      BY DEF PairInv
<1> QED BY <1>1, PairInvariant, PTL
-----------------------------------------------------------------------------
(***************************************************************************)
(* What is sent is registered.                                             *)
(***************************************************************************)

LEMMA HasRowKept ==
    ASSUME TypeInv, [Next]_vars, NEW xml, xml.tenant \in Tenants, HasRow(xml)
    PROVE  HasRow(xml)'
<1>1. PICK i \in DOMAIN rows[xml.tenant] : RowXml(xml.tenant, rows[xml.tenant][i]) = xml
      BY DEF HasRow
<1>2. /\ i \in DOMAIN rows'[xml.tenant]
      /\ RowXml(xml.tenant, rows'[xml.tenant][i]) = xml
      BY <1>1, RecordsKept DEF KeepRecords, RowXml
<1> QED BY <1>2 DEF HasRow

LEMMA SendsOne ==
    ASSUME NEW t, NEW xml, Send(t, xml)
    PROVE  aeat \subseteq aeat' /\ aeat' \subseteq aeat \cup {xml}
BY DEF Send

\* The AEAT gets the record of a request, or the file of the row a worker is
\* at, and forgets nothing.
LEMMA SendsWhat ==
    ASSUME [Next]_vars
    PROVE  /\ aeat \subseteq aeat'
           /\ \/ aeat' = aeat
              \/ \E t \in Callers : SendNew(t) /\ aeat' \subseteq aeat \cup {CallXml(t)}
              \/ \E w \in Workers : \E id \in DOMAIN todo[w] :
                     /\ IsNext(w, id) /\ Resend(w, id)
                     /\ aeat' \subseteq aeat \cup {FileOf(todo[w][id])}
<1>1. ASSUME NEW t \in Callers, SendNew(t)
      PROVE  aeat \subseteq aeat' /\ aeat' \subseteq aeat \cup {CallXml(t)}
      BY <1>1, SendsOne DEF SendNew, CallXml
<1>2. ASSUME NEW w \in Workers, NEW id \in DOMAIN todo[w], Resend(w, id)
      PROVE  aeat \subseteq aeat' /\ aeat' \subseteq aeat \cup {FileOf(todo[w][id])}
      BY <1>2, SendsOne DEF Resend
<1>3. ASSUME NEW t \in Callers, CallerStep(t) PROVE aeat' = aeat \/ SendNew(t)
      BY <1>3 DEF CallerStep, Enter, Prepare, Refuse, Insert, InsertLocked, WriteFile,
                  DeliveryRaises, Update, UpdateLocked
<1>4. ASSUME NEW w \in Workers, WorkerStep(w)
      PROVE  aeat' = aeat \/ \E id \in DOMAIN todo[w] : IsNext(w, id) /\ Resend(w, id)
      BY <1>4 DEF WorkerStep, Scan, SkipMissing, RecordRetry, RetryFails, EndScan
<1>5. CASE aeat' = aeat
      BY <1>5
<1>6. CASE aeat' # aeat
  <2>1. \/ \E t \in Callers : SendNew(t)
        \/ \E w \in Workers : \E id \in DOMAIN todo[w] : IsNext(w, id) /\ Resend(w, id)
        BY <1>3, <1>4, <1>6 DEF Next, Request, Crash, vars
  <2> QED BY <1>1, <1>2, <2>1
<1> QED BY <1>5, <1>6

LEMMA WritesFile ==
    ASSUME [Next]_vars
    PROVE  UNCHANGED files \/ \E t \in Callers : WriteFile(t)
<1>1. ASSUME NEW t \in Callers, CallerStep(t) PROVE UNCHANGED files \/ WriteFile(t)
      BY <1>1 DEF CallerStep, Enter, Prepare, Refuse, Insert, InsertLocked,
                  DeliveryRaises, SendNew, Update, UpdateLocked
<1>2. ASSUME NEW w \in Workers, WorkerStep(w) PROVE UNCHANGED files
      BY <1>2 DEF WorkerStep, Scan, Resend, SkipMissing, RecordRetry, RetryFails, EndScan
<1> QED BY <1>1, <1>2 DEF Next, Request, Crash, vars

\* A request leaves its INSERT with its row.
LEMMA InHandStep ==
    ASSUME TypeInv, InHand, [Next]_vars
    PROVE  InHand'
<1> SUFFICES ASSUME NEW u \in Callers, pc'[u] \in {"file", "send", "update"}
             PROVE  HasRow(CallXml(u))'
    BY DEF InHand
<1>1. CASE Inserts(u) /\ call'[u] = call[u]
  <2> DEFINE tn == call[u].tenant
             n == Len(rows[tn]) + 1
  <2>1. /\ n \in DOMAIN rows'[tn]
        /\ rows'[tn][n] = Row(call[u].inv, call[u].kind, call[u].prev)
    <3>1. /\ n \in Nat /\ n > 0 /\ DOMAIN rows'[tn] = 1..n
          /\ rows'[tn][n] = Row(call[u].inv, call[u].kind, call[u].prev)
          BY <1>1, InsertedAt
    <3> HIDE DEF n, tn
    <3> QED BY <3>1
  <2>2. RowXml(tn, rows'[tn][n]) = CallXml(u)
        BY <2>1 DEF RowXml, Row, CallXml
  <2>3. CallXml(u).tenant = tn
        BY DEF CallXml, Xml
  <2>4. CallXml(u)' = CallXml(u)
        BY <1>1 DEF CallXml
  <2> HIDE DEF n, tn
  <2> QED BY <2>1, <2>2, <2>3, <2>4 DEF HasRow
<1>2. CASE pc[u] \in {"file", "send", "update"} /\ call'[u] = call[u]
  <2>1. HasRow(CallXml(u)) /\ CallXml(u).tenant \in Tenants
        BY <1>2, CallerTypes DEF InHand, CallXml, Xml
  <2>2. CallXml(u)' = CallXml(u)
        BY <1>2 DEF CallXml
  <2>3. ASSUME NEW xml, xml = CallXml(u) PROVE HasRow(xml)'
        BY <2>1, <2>3, HasRowKept
  <2> QED BY <2>2, <2>3 DEF HasRow
<1> QED BY <1>1, <1>2, TypeArrays, CallersCame DEF Came, WriteFile, SendNew, SameCall

LEMMA SentStep ==
    ASSUME TypeInv, SentInv, [Next]_vars
    PROVE  SentInv'
<1>1. ASSUME NEW xml \in XmlSet, HasRow(xml) PROVE HasRow(xml)'
      BY <1>1, HasRowKept DEF XmlSet
<1>2. aeat \subseteq XmlSet
      BY DEF TypeInv, TypeOK
<1>3. \A xml \in aeat' : xml \in XmlSet /\ HasRow(xml)
  <2>1. \A xml \in aeat : HasRow(xml)
        BY DEF SentInv, SentIsRegistered, HasRow
  <2>2. ASSUME NEW t \in Callers, SendNew(t)
        PROVE  CallXml(t) \in XmlSet /\ HasRow(CallXml(t))
        BY <2>2, CallerTypes, XmlType DEF SendNew, SentInv, InHand, CallXml
  <2>3. ASSUME NEW w \in Workers, NEW id \in DOMAIN todo[w], Resend(w, id)
        PROVE  FileOf(todo[w][id]) \in XmlSet /\ HasRow(FileOf(todo[w][id]))
    <3>1. /\ todo[w][id].inv \in Invoices /\ todo[w][id].xmlKind \in Kinds
          /\ FileOf(todo[w][id]) # None
          BY <2>3, TypeInvParts DEF Resend, TodosOK, TodoOK, ItemSet, Threads
    <3> QED BY <3>1 DEF FileOf, SentInv, FilesRegistered, TypeInv, TypeOK
  <2> QED BY <1>2, <2>1, <2>2, <2>3, SendsWhat
<1>4. SentIsRegistered'
      BY <1>1, <1>3 DEF SentIsRegistered, HasRow
<1>5. FilesRegistered'
  <2> SUFFICES ASSUME NEW inv \in Invoices, NEW kind \in Kinds,
                      files'[<<inv, kind>>] # None
               PROVE  /\ HasRow(files[<<inv, kind>>])'
                      /\ files'[<<inv, kind>>].inv = inv
                      /\ files'[<<inv, kind>>].kind = kind
      BY DEF FilesRegistered, HasRow
  <2>1. CASE files'[<<inv, kind>>] = files[<<inv, kind>>]
    <3>1. /\ files[<<inv, kind>>] \in XmlSet /\ HasRow(files[<<inv, kind>>])
          /\ files[<<inv, kind>>].inv = inv /\ files[<<inv, kind>>].kind = kind
          BY <2>1 DEF SentInv, FilesRegistered, TypeInv, TypeOK
    <3>2. ASSUME NEW xml, xml = files[<<inv, kind>>] PROVE HasRow(xml)'
          BY <1>1, <3>1, <3>2
    <3> QED BY <2>1, <3>1, <3>2 DEF HasRow
  <2>2. CASE files'[<<inv, kind>>] # files[<<inv, kind>>]
    <3>1. PICK t \in Callers : WriteFile(t)
          BY <2>2, WritesFile
    <3>2. /\ CallXml(t) \in XmlSet /\ HasRow(CallXml(t))
          /\ files' = [files EXCEPT ![<<call[t].inv, call[t].kind>>] = CallXml(t)]
          BY <3>1, CallerTypes, XmlType DEF WriteFile, SentInv, InHand, CallXml
    <3>3. /\ files'[<<inv, kind>>] = CallXml(t)
          /\ inv = call[t].inv /\ kind = call[t].kind
          BY <2>2, <3>2 DEF TypeInv, TypeOK
    <3>4. CallXml(t).inv = inv /\ CallXml(t).kind = kind
          BY <3>3 DEF CallXml, Xml
    <3>5. ASSUME NEW xml, xml = CallXml(t) PROVE HasRow(xml)'
          BY <1>1, <3>2, <3>5
    <3> QED BY <3>3, <3>4, <3>5 DEF HasRow
  <2> QED BY <2>1, <2>2
<1> QED BY <1>4, <1>5, InHandStep DEF SentInv

\* What the AEAT holds, what is in a file and what a request has written are
\* rows of the register.
THEOREM SentInvariant == Spec => []SentInv
<1>1. Init => SentInv
      BY DEF Init, SentInv, SentIsRegistered, FilesRegistered, InHand, Threads
<1>2. TypeInv /\ SentInv /\ [Next]_vars => SentInv'
      BY SentStep
<1> QED BY <1>1, <1>2, TypeInvariant, PTL DEF Spec

\* Whatever the AEAT holds has a committed row with the same link.
THEOREM AlwaysRegistered == Spec => []SentIsRegistered
<1>1. SentInv => SentIsRegistered
      BY DEF SentInv
<1> QED BY <1>1, SentInvariant, PTL
-----------------------------------------------------------------------------
(***************************************************************************)
(* No record is in two exchanges, and what is settled stays so.            *)
(***************************************************************************)

LEMMA CallOpenStep ==
    ASSUME TypeInv, LockHeld, [Next]_vars, NEW u \in Callers, CallOpen(u)
    PROVE  CallOpen(u)'
<1> SUFFICES ASSUME pc'[u] \in {"file", "send", "update"},
                    NEW i \in DOMAIN rows'[call'[u].tenant],
                    rows'[call'[u].tenant][i].inv = call'[u].inv,
                    rows'[call'[u].tenant][i].kind = call'[u].kind
             PROVE  /\ rows'[call'[u].tenant][i].delivery = "PENDIENTE"
                    /\ rows'[call'[u].tenant][i].retries = 0
    BY DEF CallOpen
<1>1. CASE Inserts(u) /\ call'[u] = call[u]
  <2> DEFINE tn == call[u].tenant
             n == Len(rows[tn]) + 1
  <2>1. /\ n \in Nat /\ n > 0 /\ DOMAIN rows[tn] = 1..(n - 1)
        /\ DOMAIN rows'[tn] = 1..n
        /\ rows'[tn][n] = Row(call[u].inv, call[u].kind, call[u].prev)
        /\ \A k \in 1..(n - 1) : /\ rows'[tn][k].inv = rows[tn][k].inv
                                 /\ rows'[tn][k].kind = rows[tn][k].kind
        BY <1>1, InsertedAt
  <2>2. CASE i = n
    <3>1. /\ Row(call[u].inv, call[u].kind, call[u].prev).delivery = "PENDIENTE"
          /\ Row(call[u].inv, call[u].kind, call[u].prev).retries = 0
          BY DEF Row
    <3>2. call'[u].tenant = tn
          BY <1>1
    <3> HIDE DEF tn, n
    <3> QED BY <2>1, <2>2, <3>1, <3>2
  <2>3. CASE i # n
    <3>1. ~Has(rows[tn], call[u].inv, call[u].kind)
          BY <1>1 DEF Inserts
    <3>2. i \in 1..(n - 1)
          BY <1>1, <2>1, <2>3
    <3> HIDE DEF n
    <3> QED BY <1>1, <2>1, <3>1, <3>2 DEF Has
  <2> QED BY <2>2, <2>3
<1>2. CASE pc[u] \in {"file", "send", "update"} /\ call'[u] = call[u]
  <2>1. u \in Threads /\ u \notin Workers /\ Inside(u)
        BY <1>2, ConstantsAssumption DEF Threads, Inside
  <2>2. ~Inserts(u)
        BY <1>2 DEF Inserts, Insert
  <2>3. ~Update(u)
        BY <2>1 DEF Update, Leave, TypeInv, TypeOK
  <2>4. rows' = rows
        BY <2>1, <2>2, <2>3, OnlyMine
  <2> QED BY <1>2, <2>4 DEF CallOpen
<1> QED BY <1>1, <1>2, TypeArrays, CallersCame DEF Came, WriteFile, SendNew, SameCall

\* The row a worker records is the first of its list.
LEMMA NextIsOne ==
    ASSUME TypeInv, NEW w \in Workers, NEW i \in DOMAIN todo[w], NEW j \in DOMAIN todo[w],
           IsNext(w, i), IsNext(w, j)
    PROVE  i = j
<1>1. DOMAIN todo[w] \subseteq DOMAIN rows[DefaultTenant] /\ DefaultTenant \in Tenants
      BY ConstantsAssumption, TypeInvParts DEF TodosOK, TodoOK, Threads
<1>2. i \in Nat /\ j \in Nat
      BY <1>1 DEF TypeInv, TypeOK
<1> QED BY <1>2 DEF IsNext

LEMMA TodoStep ==
    ASSUME TypeInv, LockHeld, [Next]_vars, NEW w \in Workers, TodoIsTable(w)
    PROVE  TodoIsTable(w)'
<1>0. w \in Threads /\ w \notin Callers /\ DefaultTenant \in Tenants
      BY ConstantsAssumption DEF Threads
<1> SUFFICES ASSUME NEW k \in DOMAIN todo'[w]
             PROVE  /\ Inside(w)'
                    /\ Pending(rows'[DefaultTenant][k])
                    /\ todo'[w][k] = Item(rows'[DefaultTenant][k])
    BY DEF TodoIsTable
<1>1. CASE DOMAIN todo'[w] = {}
      BY <1>1
<1>2. CASE Scan(w) /\ pc'[w] = "next" /\ todo'[w] = Selected(rows[DefaultTenant])
  <2>1. rows' = rows
        BY <1>2 DEF Scan
  <2> QED BY <1>2, <2>1 DEF Selected, Inside
<1>3. ASSUME NEW id \in DOMAIN todo[w], Resend(w, id), pc'[w] = "record",
             todo'[w] = todo[w]
      PROVE  /\ Inside(w)'
             /\ Pending(rows'[DefaultTenant][k])
             /\ todo'[w][k] = Item(rows'[DefaultTenant][k])
  <2>1. rows' = rows
        BY <1>3 DEF Resend
  <2> QED BY <1>3, <2>1 DEF TodoIsTable, Inside
<1>4. ASSUME NEW id \in DOMAIN todo[w], IsNext(w, id), TakesOff(w, id)
      PROVE  /\ Inside(w)'
             /\ Pending(rows'[DefaultTenant][k])
             /\ todo'[w][k] = Item(rows'[DefaultTenant][k])
  <2>1. k \in DOMAIN todo[w] /\ k # id /\ todo'[w][k] = todo[w][k] /\ Inside(w)'
        BY <1>4 DEF TakesOff, Inside
  <2>2. rows'[DefaultTenant][k] = rows[DefaultTenant][k]
    <3>1. CASE UNCHANGED rows
          BY <3>1
    <3>2. ASSUME NEW j \in DOMAIN todo[w], IsNext(w, j), RecordRetry(w, j)
          PROVE  rows'[DefaultTenant][k] = rows[DefaultTenant][k]
      <4>1. k # j /\ k \in DOMAIN rows[DefaultTenant]
            BY <1>0, <1>4, <2>1, <3>2, NextIsOne, TypeInvParts DEF TodosOK, TodoOK
      <4> QED BY <3>2, <4>1, RetriedAt
    <3> QED BY <1>0, <1>4, <3>1, <3>2, OnlyMine DEF TakesOff
  <2> QED BY <2>1, <2>2 DEF TodoIsTable
<1>5. CASE SameTodo(w)
  <2>1. k \in DOMAIN todo[w] /\ Inside(w) /\ Inside(w)' /\ todo'[w] = todo[w]
        BY <1>5 DEF SameTodo, TodoIsTable, Inside
  <2>2. ASSUME NEW j \in DOMAIN todo[w], RecordRetry(w, j) PROVE FALSE
        BY <1>0, <1>5, <2>2 DEF RecordRetry, Goto, SameTodo, TypeInv, TypeOK
  <2>3. rows' = rows
        BY <1>0, <2>1, <2>2, OnlyMine
  <2> QED BY <2>1, <2>3 DEF TodoIsTable
<1> QED BY <1>1, <1>2, <1>3, <1>4, <1>5, TypeArrays, WorkersCame DEF WorkerCame

LEMMA ItemFields ==
    ASSUME NEW row
    PROVE  /\ Item(row).inv = row.inv /\ Item(row).retries = row.retries
           /\ Item(row).xmlKind = IF row.status = "ANULADA" THEN "anulacion" ELSE "alta"
BY DEF Item

\* A request in progress and the list of a worker agree with the table.
THEOREM OpenInvariant == Spec => []OpenInv
<1>1. Init => OpenInv
      BY DEF Init, OpenInv, CallOpen, TodoIsTable, Threads
<1>2. TypeInv /\ ChainInv /\ OpenInv /\ [Next]_vars => OpenInv'
      BY CallOpenStep, TodoStep DEF OpenInv, ChainInv
<1> QED BY <1>1, <1>2, TypeInvariant, ChainInvariant, PTL DEF Spec

\* No record is in two exchanges at once, and no row is settled by another
\* thread while its record is on its way or on the list of a worker.
THEOREM AlwaysOpen == Spec => []InFlightIsOpen
<1>1. OpenInv => InFlightIsOpen
  <2> SUFFICES ASSUME OpenInv PROVE InFlightIsOpen
      OBVIOUS
  <2>1. ASSUME NEW w \in Workers, NEW id \in DOMAIN todo[w]
        PROVE  /\ Pending(rows[DefaultTenant][id])
               /\ rows[DefaultTenant][id].retries = todo[w][id].retries
        BY ItemFields DEF OpenInv, TodoIsTable
  <2> QED BY <2>1 DEF OpenInv, CallOpen, InFlightIsOpen
<1> QED BY <1>1, OpenInvariant, PTL

\* What SettledIsFinal says of a step.
SettledStep ==
    \A tn \in Tenants : \A i \in DOMAIN rows[tn] :
        /\ rows'[tn][i].retries >= rows[tn][i].retries
        /\ rows[tn][i].delivery \notin Retryable =>
               rows'[tn][i].delivery = rows[tn][i].delivery

LEMMA SettledStepHolds == TypeInv /\ OpenInv /\ [Next]_vars => SettledStep
<1> SUFFICES ASSUME TypeInv, OpenInv, [Next]_vars,
                    NEW tn \in Tenants, NEW i \in DOMAIN rows[tn]
             PROVE  /\ rows'[tn][i].retries >= rows[tn][i].retries
                    /\ rows[tn][i].delivery \notin Retryable =>
                           rows'[tn][i].delivery = rows[tn][i].delivery
    BY DEF SettledStep
<1>1. rows[tn][i].retries \in Nat
  <2>1. rows[tn][i] \in RowSet
        BY RowFields, TypeInvParts
  <2> QED BY <2>1, ConstantsAssumption DEF RowSet
<1>2. CASE rows'[tn] = rows[tn]
      BY <1>1, <1>2
<1>3. ASSUME NEW t \in Callers, Inserts(t), tn = call[t].tenant
      PROVE  /\ rows'[tn][i].retries = rows[tn][i].retries
             /\ rows'[tn][i].delivery = rows[tn][i].delivery
  <2> DEFINE n == Len(rows[tn]) + 1
  <2>1. /\ DOMAIN rows[tn] = 1..(n - 1)
        /\ \A k \in 1..(n - 1) : /\ rows'[tn][k].retries = rows[tn][k].retries
                                 /\ rows'[tn][k].delivery = rows[tn][k].delivery
        BY <1>3, InsertedAt
  <2> HIDE DEF n
  <2> QED BY <2>1
<1>4. ASSUME NEW t \in Callers, Update(t), tn = call[t].tenant
      PROVE  /\ rows'[tn][i].retries = rows[tn][i].retries
             /\ rows[tn][i].delivery \notin Retryable =>
                    rows'[tn][i].delivery = rows[tn][i].delivery
  <2>1. /\ rows[tn][i].inv = call[t].inv /\ rows[tn][i].kind = call[t].kind
        => rows[tn][i].delivery = "PENDIENTE"
        BY <1>4 DEF Update, OpenInv, CallOpen
  <2> QED BY <1>4, <2>1, AnsweredAt DEF Retryable
<1>5. ASSUME NEW w \in Workers, NEW id \in DOMAIN todo[w], RecordRetry(w, id),
             tn = DefaultTenant
      PROVE  /\ rows'[tn][i].retries >= rows[tn][i].retries
             /\ rows[tn][i].delivery \notin Retryable =>
                    rows'[tn][i].delivery = rows[tn][i].delivery
  <2>1. CASE i = id
    <3>1. /\ rows[tn][i].delivery \in Retryable
          /\ todo[w][id].retries = rows[tn][i].retries
          BY <1>5, <2>1, ItemFields DEF OpenInv, TodoIsTable, Pending
    <3>2. rows'[tn][i].retries = todo[w][id].retries + 1
          BY <1>5, <2>1, RetriedAt
    <3> QED BY <1>1, <3>1, <3>2
  <2>2. CASE i # id
        BY <1>1, <1>5, <2>2, RetriedAt
  <2> QED BY <2>1, <2>2
<1>6. \/ rows'[tn] = rows[tn]
      \/ \E t \in Callers : (Inserts(t) \/ Update(t)) /\ tn = call[t].tenant
      \/ \E w \in Workers : \E id \in DOMAIN todo[w] :
             RecordRetry(w, id) /\ tn = DefaultTenant
      BY WritesRows, InsertedAt, AnsweredAt, RetriedAt
<1> QED BY <1>1, <1>2, <1>3, <1>4, <1>5, <1>6

\* A status the AEAT has settled never changes, and retry_count never drops.
THEOREM AlwaysFinal == Spec => SettledIsFinal
BY TypeInvariant, OpenInvariant, SettledStepHolds, PTL
   DEF Spec, SettledIsFinal, SettledStep
-----------------------------------------------------------------------------
(***************************************************************************)
(* What stands as accepted is held, for a single tenant: with two of them  *)
(* the worker may find the file of the other's invoice of the same number. *)
(***************************************************************************)

LEMMA SendAccepts ==
    ASSUME NEW t \in Threads, NEW xml, Send(t, xml), DOMAIN answer = Threads,
           answer'[t] \in Accepted
    PROVE  xml \in aeat'
<1>1. PICK status \in Answers, stored \in BOOLEAN :
          /\ AnswerFor(status, stored)
          /\ aeat' = IF stored THEN aeat \cup {xml} ELSE aeat
          /\ answer' = [answer EXCEPT ![t] = status]
      BY DEF Send
<1>2. stored
      BY <1>1 DEF AnswerFor
<1> QED BY <1>1, <1>2

LEMMA AnswerKnownStep ==
    ASSUME TypeInv, LockHeld, OpenInv, AnswerKnown, [Next]_vars
    PROVE  AnswerKnown'
<1>0. DOMAIN answer = Threads
      BY DEF TypeInv, TypeOK
<1>1. ASSUME NEW u \in Callers, pc'[u] = "update", answer'[u] \in Accepted
      PROVE  CallXml(u)' \in aeat'
  <2>1. CASE SendNew(u) /\ call'[u] = call[u]
    <3>1. Send(u, CallXml(u)) /\ u \in Threads
          BY <2>1 DEF SendNew, CallXml, Threads
    <3> QED BY <1>0, <1>1, <2>1, <3>1, SendAccepts DEF CallXml
  <2>2. CASE SameCall(u)
    <3>1. CallXml(u) \in aeat
          BY <1>1, <2>2 DEF AnswerKnown, SameCall
    <3>2. CallXml(u)' = CallXml(u)
          BY <2>2 DEF SameCall, CallXml
    <3> QED BY <3>1, <3>2, SendsWhat
  <2> QED BY <1>1, <2>1, <2>2, TypeArrays, CallersCame DEF Came
<1>2. ASSUME NEW w \in Workers, pc'[w] = "record",
             NEW id \in DOMAIN todo'[w], IsNext(w, id)'
      PROVE  /\ FileOf(todo[w][id])' # None
             /\ answer'[w] \in Accepted => FileOf(todo[w][id])' \in aeat'
  <2>0. w \in Threads /\ w \notin Callers
        BY ConstantsAssumption DEF Threads
  <2>1. ASSUME NEW k \in DOMAIN todo[w], IsNext(w, k), Resend(w, k), todo'[w] = todo[w]
        PROVE  /\ FileOf(todo[w][id])' # None
               /\ answer'[w] \in Accepted => FileOf(todo[w][id])' \in aeat'
    <3>1. id \in DOMAIN todo[w] /\ IsNext(w, id)
          BY <1>2, <2>1 DEF IsNext
    <3>2. id = k
          BY <2>1, <3>1, NextIsOne
    <3>3. FileOf(todo[w][id])' = FileOf(todo[w][k])
          BY <2>1, <3>2 DEF Resend, FileOf
    <3>4. FileOf(todo[w][k]) # None /\ Send(w, FileOf(todo[w][k]))
          BY <2>1 DEF Resend
    <3> QED BY <1>0, <2>0, <3>3, <3>4, SendAccepts
  <2>2. CASE SameTodo(w)
    <3>1. /\ pc[w] = "record" /\ id \in DOMAIN todo[w] /\ IsNext(w, id)
          /\ todo'[w] = todo[w] /\ answer'[w] = answer[w]
          BY <1>2, <2>2 DEF SameTodo, IsNext
    <3>2. files' = files
      <4>1. ASSUME NEW t \in Callers, WriteFile(t) PROVE FALSE
            BY <2>0, <3>1, <4>1, Alone DEF WriteFile, Inside, Threads
      <4> QED BY <4>1, WritesFile
    <3>3. FileOf(todo[w][id])' = FileOf(todo[w][id])
          BY <3>1, <3>2 DEF FileOf
    <3>4. /\ FileOf(todo[w][id]) # None
          /\ answer[w] \in Accepted => FileOf(todo[w][id]) \in aeat
          BY <3>1 DEF AnswerKnown
    <3> QED BY <3>1, <3>3, <3>4, SendsWhat
  <2> QED BY <1>2, <2>1, <2>2, TypeArrays, WorkersCame DEF WorkerCame, TakesOff
<1> QED BY <1>1, <1>2 DEF AnswerKnown

\* A record with a row is the record of the row with its number and kind.
LEMMA RowOfXml ==
    ASSUME CancelPaired, NEW xml, xml.tenant \in Tenants, HasRow(xml),
           NEW i \in DOMAIN rows[xml.tenant],
           rows[xml.tenant][i].inv = xml.inv, rows[xml.tenant][i].kind = xml.kind
    PROVE  RowXml(xml.tenant, rows[xml.tenant][i]) = xml
<1>1. PICK j \in DOMAIN rows[xml.tenant] : RowXml(xml.tenant, rows[xml.tenant][j]) = xml
      BY DEF HasRow
<1>2. rows[xml.tenant][j].inv = xml.inv /\ rows[xml.tenant][j].kind = xml.kind
      BY <1>1 DEF RowXml, Xml
<1>3. i = j
      BY <1>2 DEF CancelPaired
<1> QED BY <1>1, <1>3

Standing(row) == row.delivery \in Accepted /\ (row.kind = "alta" => row.status = "ALTA")

LEMMA StandingStep ==
    ASSUME TypeInv, PairInv, SentInv, OpenInv, HeldInv, [Next]_vars,
           Tenants = {DefaultTenant},
           NEW tn \in Tenants, NEW i \in DOMAIN rows'[tn], Standing(rows'[tn][i])
    PROVE  RowXml(tn, rows'[tn][i]) \in aeat
<1>0. ASSUME NEW k \in DOMAIN rows[tn], Standing(rows[tn][k])
      PROVE  RowXml(tn, rows[tn][k]) \in aeat
      BY <1>0 DEF HeldInv, StandingAcceptedIsHeld, Standing
<1>1. CASE rows'[tn] = rows[tn]
      BY <1>0, <1>1
<1>2. ASSUME NEW t \in Callers, Inserts(t), tn = call[t].tenant
      PROVE  RowXml(tn, rows'[tn][i]) \in aeat
  <2> DEFINE n == Len(rows[tn]) + 1
  <2>1. /\ n \in Nat /\ DOMAIN rows[tn] = 1..(n - 1) /\ DOMAIN rows'[tn] = 1..n
        /\ rows'[tn][n] = Row(call[t].inv, call[t].kind, call[t].prev)
        /\ \A k \in 1..(n - 1) :
              /\ rows'[tn][k].inv = rows[tn][k].inv
              /\ rows'[tn][k].kind = rows[tn][k].kind
              /\ rows'[tn][k].prev = rows[tn][k].prev
              /\ rows'[tn][k].delivery = rows[tn][k].delivery
              /\ rows'[tn][k].status = "ALTA" => rows[tn][k].status = "ALTA"
        BY <1>2, InsertedAt
  <2> HIDE DEF n
  <2>2. i # n
    <3>1. Row(call[t].inv, call[t].kind, call[t].prev).delivery = "PENDIENTE"
          BY DEF Row
    <3> QED BY <2>1, <3>1 DEF Standing, Accepted
  <2>3. i \in DOMAIN rows[tn] /\ Standing(rows[tn][i])
        BY <2>1, <2>2 DEF Standing
  <2>4. RowXml(tn, rows'[tn][i]) = RowXml(tn, rows[tn][i])
        BY <2>1, <2>2 DEF RowXml
  <2> QED BY <1>0, <2>3, <2>4
<1>3. ASSUME NEW t \in Callers, Update(t), tn = call[t].tenant
      PROVE  RowXml(tn, rows'[tn][i]) \in aeat
  <2>1. /\ i \in DOMAIN rows[tn]
        /\ rows'[tn][i].inv = rows[tn][i].inv /\ rows'[tn][i].kind = rows[tn][i].kind
        /\ rows'[tn][i].prev = rows[tn][i].prev
        /\ rows'[tn][i].status = rows[tn][i].status
        /\ rows'[tn][i].delivery =
              IF rows[tn][i].inv = call[t].inv /\ rows[tn][i].kind = call[t].kind
              THEN answer[t] ELSE rows[tn][i].delivery
        BY <1>3, AnsweredAt
  <2>2. RowXml(tn, rows'[tn][i]) = RowXml(tn, rows[tn][i])
        BY <2>1 DEF RowXml
  <2>3. CASE rows[tn][i].inv = call[t].inv /\ rows[tn][i].kind = call[t].kind
    <3>1. CallXml(t) \in aeat
          BY <1>3, <2>1, <2>3 DEF Standing, Update, HeldInv, AnswerKnown
    <3>2. HasRow(CallXml(t))
          BY <1>3 DEF Update, SentInv, InHand
    <3>3. /\ CallXml(t).tenant = tn /\ CallXml(t).inv = call[t].inv
          /\ CallXml(t).kind = call[t].kind
          BY <1>3 DEF CallXml, Xml
    <3>4. RowXml(tn, rows[tn][i]) = CallXml(t)
          BY <2>1, <2>3, <3>2, <3>3, RowOfXml DEF PairInv
    <3> QED BY <2>2, <3>1, <3>4
  <2>4. CASE ~(rows[tn][i].inv = call[t].inv /\ rows[tn][i].kind = call[t].kind)
        BY <1>0, <2>1, <2>2, <2>4 DEF Standing
  <2> QED BY <2>3, <2>4
<1>4. ASSUME NEW w \in Workers, NEW id \in DOMAIN todo[w], IsNext(w, id),
             RecordRetry(w, id)
      PROVE  RowXml(tn, rows'[tn][i]) \in aeat
  <2>1. tn = DefaultTenant /\ i \in DOMAIN rows[tn]
        BY <1>4, RetriedAt
  <2>2. CASE i # id
        BY <1>0, <1>4, <2>1, <2>2, RetriedAt
  <2>3. CASE i = id
    <3> DEFINE file == FileOf(todo[w][id])
    <3>1. /\ rows'[tn][i].inv = rows[tn][i].inv /\ rows'[tn][i].kind = rows[tn][i].kind
          /\ rows'[tn][i].prev = rows[tn][i].prev
          /\ rows'[tn][i].status = rows[tn][i].status
          /\ rows'[tn][i].delivery = answer[w]
          BY <1>4, <2>1, <2>3, RetriedAt
    <3>2. file # None /\ file \in aeat
          BY <1>4, <3>1 DEF Standing, RecordRetry, HeldInv, AnswerKnown
    <3>3. rows[tn][i] \in RowSet
          BY <2>1, RowFields, TypeInvParts
    <3>4. todo[w][id].inv = rows[tn][i].inv /\ todo[w][id].xmlKind = rows[tn][i].kind
      <4>1. /\ todo[w][id].inv = rows[tn][i].inv
            /\ todo[w][id].xmlKind =
                  IF rows[tn][i].status = "ANULADA" THEN "anulacion" ELSE "alta"
            BY <2>1, <2>3, ItemFields DEF OpenInv, TodoIsTable
      <4>2. CASE rows[tn][i].kind = "alta"
            BY <3>1, <4>1, <4>2 DEF Standing
      <4>3. CASE rows[tn][i].kind = "anulacion"
            BY <2>1, <4>1, <4>3 DEF PairInv, CancelledStatus
      <4> QED BY <3>3, <4>1, <4>2, <4>3 DEF RowSet, Kinds
    <3>5. file = files[<<rows[tn][i].inv, rows[tn][i].kind>>]
          BY <3>4 DEF FileOf
    <3>6. /\ HasRow(file) /\ file.inv = rows[tn][i].inv /\ file.kind = rows[tn][i].kind
          /\ file.tenant = tn
      <4>1. rows[tn][i].inv \in Invoices /\ rows[tn][i].kind \in Kinds
            BY <3>3 DEF RowSet
      <4>2. file \in XmlSet
            BY <3>2 DEF TypeInv, TypeOK
      <4> HIDE DEF file
      <4> QED BY <2>1, <3>2, <3>5, <4>1, <4>2 DEF SentInv, FilesRegistered, XmlSet
    <3>7. RowXml(tn, rows[tn][i]) = file
      <4> HIDE DEF file
      <4> QED BY <2>1, <3>6, RowOfXml DEF PairInv
    <3>8. RowXml(tn, rows'[tn][i]) = RowXml(tn, rows[tn][i])
          BY <3>1 DEF RowXml
    <3> QED BY <3>2, <3>7, <3>8
  <2> QED BY <2>2, <2>3
<1>5. \/ rows'[tn] = rows[tn]
      \/ \E t \in Callers : (Inserts(t) \/ Update(t)) /\ tn = call[t].tenant
      \/ \E w \in Workers : \E id \in DOMAIN todo[w] : IsNext(w, id) /\ RecordRetry(w, id)
      BY WritesRows, InsertedAt, AnsweredAt
<1> QED BY <1>1, <1>2, <1>3, <1>4, <1>5

\* A row shown as accepted is a record the AEAT holds, but for the invoices
\* cancelled since.
THEOREM AlwaysStandingHeld ==
    ASSUME Tenants = {DefaultTenant}
    PROVE  Spec => []StandingAcceptedIsHeld
<1>1. Init => HeldInv
      BY DEF Init, HeldInv, StandingAcceptedIsHeld, AnswerKnown, Threads
<1>2. TypeInv /\ ChainInv /\ PairInv /\ SentInv /\ OpenInv /\ HeldInv /\ [Next]_vars
          => HeldInv'
  <2> SUFFICES ASSUME TypeInv, ChainInv, PairInv, SentInv, OpenInv, HeldInv, [Next]_vars
               PROVE  HeldInv'
      OBVIOUS
  <2>1. AnswerKnown'
        BY AnswerKnownStep DEF ChainInv, HeldInv
  <2>2. StandingAcceptedIsHeld'
        BY StandingStep, SendsWhat DEF StandingAcceptedIsHeld, Standing
  <2> QED BY <2>1, <2>2 DEF HeldInv
<1>3. HeldInv => StandingAcceptedIsHeld
      BY DEF HeldInv
<1> QED BY <1>1, <1>2, <1>3, TypeInvariant, ChainInvariant, PairInvariant,
           SentInvariant, OpenInvariant, PTL DEF Spec
===============================================================================

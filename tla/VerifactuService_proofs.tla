----------------------- MODULE VerifactuService_proofs -----------------------
(***************************************************************************)
(* Proofs about VerifactuService, for any number of threads, tenants and   *)
(* invoices, any bound on retries and any number of faults.                *)
(***************************************************************************)
EXTENDS VerifactuService, SequenceTheorems, TLAPS

LEMMA InitTypeInv == Init => TypeInv
<1> SUFFICES ASSUME Init PROVE TypeInv
    OBVIOUS
<1> USE ConstantsAssumption
<1>1. rows \in [Tenants -> Seq(RowSet)]
      BY DEF Init
<1>2. files \in [Invoices \X Kinds -> XmlSet \cup {None}]
      BY DEF Init
<1>3. writer \in [Tenants -> {None}] /\ aeat \subseteq XmlSet
      BY DEF Init
<1>4. pc \in [Threads -> {"idle"} \cup CallerSteps \cup WorkerSteps]
      BY DEF Init
<1>5. call \in [Threads -> [tenant : Tenants, inv : Invoices \cup {None},
                            kind : Kinds, prev : Seq(Invoices), attempt : Nat]]
      BY DEF Init, NoCall, Kinds, Genesis
<1>6. DOMAIN todo = Threads /\ \A w \in Threads : TodoOK(w)
      BY DEF Init, TodoOK
<1>7. answer \in [Threads -> Answers \cup {None}] /\ faults \in 0..MaxFaults
      BY DEF Init
<1>8. LocalsOK
      BY DEF Init, LocalsOK, Threads
<1> QED
    BY <1>1, <1>2, <1>3, <1>4, <1>5, <1>6, <1>7, <1>8 DEF Init, TypeInv, TypeOK

(***************************************************************************)
(* Lemmas about the operators.                                             *)
(***************************************************************************)

\* Rows that only change their status or delivery keep their links.
SameLinks(a, b) ==
    /\ Len(a) = Len(b)
    /\ \A i \in 1..Len(a) : /\ a[i].inv = b[i].inv
                            /\ a[i].prev = b[i].prev
                            /\ a[i].hash = b[i].hash

LEMMA SameLinksLinked ==
    ASSUME NEW a \in Seq(RowSet), NEW b \in Seq(RowSet), SameLinks(a, b)
    PROVE  (Linked(a) => Linked(b)) /\ LastHash(a) = LastHash(b)
<1>1. LastHash(a) = LastHash(b)
      BY DEF SameLinks, LastHash
<1>2. \A i \in 1..Len(a) : HashBefore(a, i) = HashBefore(b, i)
      BY DEF SameLinks, HashBefore
<1> QED BY <1>1, <1>2 DEF SameLinks, Linked

LEMMA AppendLinked ==
    ASSUME NEW table \in Seq(RowSet), NEW row \in RowSet, Linked(table),
           row.prev = LastHash(table), row.hash = Digest(row.inv, row.prev)
    PROVE  Linked(Append(table, row))
<1> DEFINE new == Append(table, row)
<1>1. /\ new \in Seq(RowSet) /\ Len(new) = Len(table) + 1
      /\ DOMAIN new = 1..(Len(table) + 1)
      /\ new[Len(table) + 1] = row
      /\ \A i \in 1..Len(table) : new[i] = table[i]
      BY AppendProperties
<1>2. ASSUME NEW i \in 1..(Len(table) + 1)
      PROVE  new[i].prev = HashBefore(new, i)
             /\ new[i].hash = Digest(new[i].inv, new[i].prev)
  <2>1. CASE i = Len(table) + 1
        BY <1>1, <2>1 DEF HashBefore, LastHash
  <2>2. CASE i \in 1..Len(table)
        BY <1>1, <2>2 DEF HashBefore, Linked
  <2> QED BY <1>1, <1>2, <2>1, <2>2
<1> QED BY <1>1, <1>2 DEF Linked

LEMMA CancelledRows ==
    ASSUME NEW table \in Seq(RowSet), NEW inv
    PROVE  /\ Cancelled(table, inv) \in Seq(RowSet)
           /\ SameLinks(table, Cancelled(table, inv))
<1> DEFINE new == Cancelled(table, inv)
<1>1. DOMAIN table = 1..Len(table) /\ Len(table) \in Nat
      OBVIOUS
<1>2. DOMAIN new = 1..Len(table)
      BY <1>1 DEF Cancelled
<1>3. ASSUME NEW i \in 1..Len(table)
      PROVE  /\ new[i] \in RowSet /\ new[i].inv = table[i].inv
             /\ new[i].prev = table[i].prev /\ new[i].hash = table[i].hash
  <2>1. table[i] \in RowSet
        OBVIOUS
  <2>2. [table[i] EXCEPT !.status = "ANULADA"] \in RowSet
        BY <2>1 DEF RowSet
  <2> QED BY <1>1, <2>1, <2>2 DEF Cancelled, RowSet
<1>4. new = [i \in 1..Len(table) |-> new[i]]
      BY <1>1 DEF Cancelled
<1>5. new \in Seq(RowSet) /\ Len(new) = Len(table)
  <2> HIDE DEF new
  <2> QED BY <1>1, <1>2, <1>3, <1>4
<1> QED BY <1>3, <1>5 DEF SameLinks

LEMMA AnsweredRows ==
    ASSUME NEW table \in Seq(RowSet), NEW inv, NEW kind, NEW status \in Delivery
    PROVE  /\ Answered(table, inv, kind, status) \in Seq(RowSet)
           /\ SameLinks(table, Answered(table, inv, kind, status))
<1> DEFINE new == Answered(table, inv, kind, status)
<1>1. DOMAIN table = 1..Len(table) /\ Len(table) \in Nat
      OBVIOUS
<1>2. DOMAIN new = 1..Len(table)
      BY <1>1 DEF Answered
<1>3. ASSUME NEW i \in 1..Len(table)
      PROVE  /\ new[i] \in RowSet /\ new[i].inv = table[i].inv
             /\ new[i].prev = table[i].prev /\ new[i].hash = table[i].hash
  <2>1. table[i] \in RowSet
        OBVIOUS
  <2>2. [table[i] EXCEPT !.delivery = status] \in RowSet
        BY <2>1 DEF RowSet
  <2> QED BY <1>1, <2>1, <2>2 DEF Answered, RowSet
<1>4. new = [i \in 1..Len(table) |-> new[i]]
      BY <1>1 DEF Answered
<1>5. new \in Seq(RowSet) /\ Len(new) = Len(table)
  <2> HIDE DEF new
  <2> QED BY <1>1, <1>2, <1>3, <1>4
<1> QED BY <1>3, <1>5 DEF SameLinks

LEMMA RowType ==
    ASSUME NEW inv \in Invoices, NEW kind \in Kinds, NEW prev \in Seq(Invoices)
    PROVE  Row(inv, kind, prev) \in RowSet
BY ConstantsAssumption, AppendProperties
   DEF Row, RowSet, Digest, Delivery, Retryable

LEMMA LastHashType ==
    ASSUME NEW table \in Seq(RowSet)
    PROVE  LastHash(table) \in Seq(Invoices)
<1>1. CASE table = <<>>
      BY <1>1 DEF LastHash, Genesis
<1>2. CASE table # <<>>
  <2>1. Len(table) \in 1..Len(table)
        BY <1>2
  <2>2. table[Len(table)] \in RowSet
        BY <2>1
  <2> QED BY <1>2, <2>2 DEF LastHash, RowSet
<1> QED BY <1>1, <1>2

(***************************************************************************)
(* The type invariant.                                                     *)
(***************************************************************************)

CallSet == [tenant : Tenants, inv : Invoices \cup {None}, kind : Kinds,
            prev : Seq(Invoices), attempt : Nat]

\* What the type invariant says of the control state of the threads.
ThreadsOK ==
    /\ lock \in Threads \cup {None}
    /\ pc \in [Threads -> {"idle"} \cup CallerSteps \cup WorkerSteps]
    /\ call \in [Threads -> CallSet]
    /\ answer \in [Threads -> Answers \cup {None}]
    /\ LocalsOK

TodosOK == DOMAIN todo = Threads /\ \A w \in Threads : TodoOK(w)

StoreOK ==
    /\ rows \in [Tenants -> Seq(RowSet)]
    /\ files \in [Invoices \X Kinds -> XmlSet \cup {None}]
    /\ aeat \subseteq XmlSet
    /\ writer \in [Tenants -> {None}]
    /\ faults \in 0..MaxFaults

LEMMA TypeInvParts == TypeInv <=> ThreadsOK /\ TodosOK /\ StoreOK
BY DEF TypeInv, TypeOK, ThreadsOK, TodosOK, StoreOK, CallSet

LEMMA TypeInvNext == ThreadsOK' /\ TodosOK' /\ StoreOK' => TypeInv'
BY DEF TypeInv, TypeOK, ThreadsOK, TodosOK, StoreOK, CallSet

LEMMA LeaveThreads ==
    ASSUME ThreadsOK, NEW t \in Threads, Leave(t)
    PROVE  ThreadsOK'
<1>1. NoCall \in CallSet
      BY ConstantsAssumption DEF NoCall, CallSet, Kinds, Genesis
<1>2. LocalsOK'
      BY DEF ThreadsOK, LocalsOK, Leave, Threads
<1> QED BY <1>1, <1>2 DEF ThreadsOK, Leave

\* The lists of the workers stay good while the table of the default tenant
\* only grows and a list is kept or emptied.
LEMMA TodosKept ==
    ASSUME TodosOK, DOMAIN todo' = Threads,
           DOMAIN rows[DefaultTenant] \subseteq DOMAIN rows'[DefaultTenant],
           \A w \in Threads : todo'[w] = todo[w] \/ todo'[w] = <<>>
    PROVE  TodosOK'
BY DEF TodosOK, TodoOK

LEMMA LeaveTodos ==
    ASSUME TodosOK, NEW t \in Threads, Leave(t),
           DOMAIN rows[DefaultTenant] \subseteq DOMAIN rows'[DefaultTenant]
    PROVE  TodosOK'
<1>1. DOMAIN todo' = Threads
      BY DEF Leave, TodosOK
<1>2. \A w \in Threads : todo'[w] = todo[w] \/ todo'[w] = <<>>
      BY DEF Leave, TodosOK
<1> QED BY <1>1, <1>2, TodosKept

LEMMA NextItemTodos ==
    ASSUME TodosOK, NEW w \in Threads, NEW id, NextItem(w, id),
           DOMAIN rows[DefaultTenant] \subseteq DOMAIN rows'[DefaultTenant]
    PROVE  TodosOK'
<1>1. DOMAIN todo' = Threads
      BY DEF NextItem, TodosOK
<1>2. ASSUME NEW v \in Threads PROVE TodoOK(v)'
  <2>1. CASE v = w
    <3>1. todo'[w] = [j \in DOMAIN todo[w] \ {id} |-> todo[w][j]]
          BY DEF NextItem, TodosOK
    <3> QED BY <2>1, <3>1 DEF TodosOK, TodoOK
  <2>2. CASE v # w
    <3>1. todo'[v] = todo[v]
          BY <2>2 DEF NextItem, TodosOK
    <3> QED BY <3>1 DEF TodosOK, TodoOK
  <2> QED BY <2>1, <2>2
<1> QED BY <1>1, <1>2 DEF TodosOK

\* One row of the table of one tenant is rewritten, or a row is added.
LEMMA RowsReplaced ==
    ASSUME rows \in [Tenants -> Seq(RowSet)], NEW tn \in Tenants,
           NEW table \in Seq(RowSet), Len(rows[tn]) <= Len(table),
           rows' = [rows EXCEPT ![tn] = table]
    PROVE  /\ rows' \in [Tenants -> Seq(RowSet)]
           /\ DOMAIN rows[DefaultTenant] \subseteq DOMAIN rows'[DefaultTenant]
<1>1. DefaultTenant \in Tenants
      BY ConstantsAssumption
<1>2. rows' \in [Tenants -> Seq(RowSet)]
      OBVIOUS
<1>3. Len(rows[DefaultTenant]) <= Len(rows'[DefaultTenant])
  <2>1. CASE tn = DefaultTenant
        BY <2>1
  <2>2. CASE tn # DefaultTenant
    <3>1. rows'[DefaultTenant] = rows[DefaultTenant]
          BY <1>1, <2>2
    <3> QED BY <1>1, <3>1
  <2> QED BY <2>1, <2>2
<1>4. /\ rows[DefaultTenant] \in Seq(RowSet)
      /\ rows'[DefaultTenant] \in Seq(RowSet)
      BY <1>1, <1>2
<1> QED BY <1>2, <1>3, <1>4

\* Facts about the step at hand that most actions need.
LEMMA CallerTypes ==
    ASSUME TypeInv, NEW t \in Callers, pc[t] # "idle"
    PROVE  /\ t \in Threads
           /\ call[t].tenant \in Tenants /\ call[t].inv \in Invoices
           /\ call[t].kind \in Kinds /\ call[t].prev \in Seq(Invoices)
           /\ call[t] \in CallSet
           /\ rows[call[t].tenant] \in Seq(RowSet)
BY DEF TypeInv, TypeOK, LocalsOK, Threads, CallSet

LEMMA XmlType ==
    ASSUME NEW tn \in Tenants, NEW inv \in Invoices, NEW kind \in Kinds,
           NEW prev \in Seq(Invoices)
    PROVE  Xml(tn, inv, kind, prev) \in XmlSet
BY DEF Xml, XmlSet

\* An exchange that moves on to a step in which the answer is recorded.
LEMMA SendTypes ==
    ASSUME TypeInv, NEW t \in Threads, NEW xml \in XmlSet, Send(t, xml),
           NEW step \in {"update", "record"}, Goto(t, step),
           pc[t] # "idle", UNCHANGED <<lock, call>>
    PROVE  ThreadsOK' /\ aeat' \subseteq XmlSet
<1>1. aeat' \subseteq XmlSet
      BY DEF Send, TypeInv, TypeOK
<1>2. PICK status \in Answers : answer' = [answer EXCEPT ![t] = status]
      BY DEF Send
<1>3. status # None
      BY ConstantsAssumption
<1>4. LocalsOK'
      BY <1>2, <1>3 DEF TypeInv, TypeOK, LocalsOK, Goto
<1>5. pc' \in [Threads -> {"idle"} \cup CallerSteps \cup WorkerSteps]
      BY DEF TypeInv, TypeOK, Goto, CallerSteps, WorkerSteps
<1> QED BY <1>1, <1>2, <1>4, <1>5, TypeInvParts DEF ThreadsOK

LEMMA RequestTypes ==
    ASSUME TypeInv, NEW t \in Callers, NEW tn \in Tenants, NEW inv \in Invoices,
           NEW kind \in Kinds, Request(t, tn, inv, kind)
    PROVE  TypeInv'
<1>1. [tenant |-> tn, inv |-> inv, kind |-> kind, prev |-> Genesis,
       attempt |-> 1] \in CallSet
      BY DEF CallSet, Genesis
<1>2. inv # None
      BY ConstantsAssumption
<1>3. call' \in [Threads -> CallSet]
      BY <1>1, TypeInvParts DEF Request, ThreadsOK
<1>4. pc' \in [Threads -> {"idle"} \cup CallerSteps \cup WorkerSteps]
      BY DEF Request, Goto, TypeInv, TypeOK, CallerSteps
<1>5. LocalsOK'
      BY <1>2, TypeInvParts DEF Request, Goto, ThreadsOK, LocalsOK, Threads
<1>6. ThreadsOK'
      BY <1>3, <1>4, <1>5, TypeInvParts DEF Request, ThreadsOK
<1>7. TodosOK'
      BY TypeInvParts DEF Request, TodosOK, TodoOK
<1>8. StoreOK'
      BY TypeInvParts DEF Request, StoreOK
<1> QED BY <1>6, <1>7, <1>8, TypeInvNext

LEMMA EnterTypes ==
    ASSUME TypeInv, NEW t \in Callers, Enter(t)
    PROVE  TypeInv'
<1>1. pc' \in [Threads -> {"idle"} \cup CallerSteps \cup WorkerSteps]
      BY DEF Enter, Goto, TypeInv, TypeOK, CallerSteps
<1>2. LocalsOK'
      BY DEF Enter, Goto, TypeInv, TypeOK, LocalsOK, Threads
<1>3. ThreadsOK'
      BY <1>1, <1>2, TypeInvParts DEF Enter, ThreadsOK, Threads
<1>4. TodosOK' /\ StoreOK'
      BY TypeInvParts DEF Enter, TodosOK, TodoOK, StoreOK
<1> QED BY <1>3, <1>4, TypeInvNext

LEMMA PrepareTypes ==
    ASSUME TypeInv, NEW t \in Callers, Prepare(t)
    PROVE  TypeInv'
<1>1. ReadPrev(t) \in Seq(Invoices)
      BY CallerTypes, LastHashType DEF Prepare, ReadPrev
<1>2. [call[t] EXCEPT !.prev = ReadPrev(t)] \in CallSet
      BY <1>1, CallerTypes DEF Prepare, CallSet
<1>3. call' = [call EXCEPT ![t] = [call[t] EXCEPT !.prev = ReadPrev(t)]]
      BY DEF Prepare
<1>4. call' \in [Threads -> CallSet]
      BY <1>2, <1>3, TypeInvParts DEF ThreadsOK
<1>5. pc' \in [Threads -> {"idle"} \cup CallerSteps \cup WorkerSteps]
      BY DEF Prepare, Goto, TypeInv, TypeOK, CallerSteps
<1>6. LocalsOK'
  <2>1. \A c \in Callers : call'[c].inv = call[c].inv
        BY <1>3, TypeInvParts DEF ThreadsOK, CallSet, Threads
  <2> QED BY <2>1 DEF Prepare, Goto, TypeInv, TypeOK, LocalsOK, Threads
<1>7. ThreadsOK'
      BY <1>4, <1>5, <1>6, TypeInvParts DEF Prepare, ThreadsOK
<1>8. TodosOK' /\ StoreOK'
      BY TypeInvParts DEF Prepare, TodosOK, TodoOK, StoreOK
<1> QED BY <1>7, <1>8, TypeInvNext

\* A fault stays within its bound.
LEMMA FaultType ==
    ASSUME faults \in 0..MaxFaults, Fault
    PROVE  faults' \in 0..MaxFaults
BY ConstantsAssumption DEF Fault

\* Every step that only ends an operation.
LEMMA LeaveTypes ==
    ASSUME TypeInv, NEW t \in Threads, Leave(t), StoreOK',
           DOMAIN rows[DefaultTenant] \subseteq DOMAIN rows'[DefaultTenant]
    PROVE  TypeInv'
BY LeaveThreads, LeaveTodos, TypeInvParts, TypeInvNext

LEMMA LockedTypes ==
    ASSUME TypeInv, NEW t \in Callers, pc[t] # "idle", Locked(t),
           UNCHANGED <<rows, files, aeat, writer>>
    PROVE  TypeInv'
<1>1. StoreOK'
      BY FaultType, TypeInvParts DEF Locked, StoreOK
<1>2. CASE Leave(t)
      BY <1>1, <1>2, LeaveTypes DEF Threads
<1>3. CASE ~Leave(t)
  <2>1. /\ lock' = None
        /\ Goto(t, "enter")
        /\ call' = [call EXCEPT ![t].attempt = @ + 1, ![t].prev = Genesis]
        /\ answer' = [answer EXCEPT ![t] = None]
        /\ UNCHANGED todo
        BY <1>3 DEF Locked
  <2> DEFINE again == [call[t] EXCEPT !.attempt = call[t].attempt + 1, !.prev = Genesis]
  <2>2. call' \in [Threads -> CallSet] /\ \A c \in Callers : call'[c].inv = call[c].inv
    <3>1. again \in CallSet /\ again.inv = call[t].inv
      <4>1. call[t] \in CallSet /\ Genesis \in Seq(Invoices)
            BY CallerTypes DEF Genesis
      <4> DEFINE once == [call[t] EXCEPT !.attempt = call[t].attempt + 1]
      <4>2. once \in CallSet /\ once.inv = call[t].inv
            BY <4>1 DEF CallSet
      <4>3. again = [once EXCEPT !.prev = Genesis]
            BY <4>1 DEF CallSet
      <4> HIDE DEF once, again
      <4> QED BY <4>1, <4>2, <4>3 DEF CallSet
    <3>2. call' = [call EXCEPT ![t] = again]
          BY <2>1
    <3> QED BY <3>1, <3>2, TypeInvParts DEF ThreadsOK, Threads
  <2>3. pc' \in [Threads -> {"idle"} \cup CallerSteps \cup WorkerSteps]
        BY <2>1 DEF Goto, TypeInv, TypeOK, CallerSteps
  <2>4. LocalsOK'
        BY <2>1, <2>2 DEF Goto, TypeInv, TypeOK, LocalsOK, Threads
  <2>5. ThreadsOK'
        BY <2>1, <2>2, <2>3, <2>4, TypeInvParts DEF ThreadsOK
  <2>6. TodosOK'
        BY <2>1, TypeInvParts DEF TodosOK, TodoOK
  <2> QED BY <1>1, <2>5, <2>6, TypeInvNext
<1> QED BY <1>2, <1>3

LEMMA RefuseTypes ==
    ASSUME TypeInv, NEW t \in Callers, Refuse(t)
    PROVE  TypeInv'
<1>1. StoreOK'
      BY TypeInvParts DEF Refuse, StoreOK
<1> QED BY <1>1, LeaveTypes DEF Refuse, Threads

\* The table an INSERT commits.
LEMMA InsertedRows ==
    ASSUME TypeInv, NEW t \in Callers, pc[t] # "idle"
    PROVE  LET old == rows[call[t].tenant]
               new == Inserted(old, call[t])
               base == IF call[t].kind = "anulacion"
                       THEN Cancelled(old, call[t].inv) ELSE old
               row == Row(call[t].inv, call[t].kind, call[t].prev)
           IN  /\ base \in Seq(RowSet) /\ SameLinks(old, base)
               /\ row \in RowSet
               /\ new = Append(base, row)
               /\ new \in Seq(RowSet) /\ Len(new) = Len(old) + 1
<1> DEFINE old == rows[call[t].tenant]
           base == IF call[t].kind = "anulacion"
                   THEN Cancelled(old, call[t].inv) ELSE old
           row == Row(call[t].inv, call[t].kind, call[t].prev)
<1>1. old \in Seq(RowSet)
      BY CallerTypes
<1>2. SameLinks(old, old)
      BY DEF SameLinks
<1>3. base \in Seq(RowSet) /\ SameLinks(old, base)
      BY <1>1, <1>2, CancelledRows
<1>4. row \in RowSet
      BY CallerTypes, RowType
<1>5. Len(base) = Len(old)
      BY <1>3 DEF SameLinks
<1>6. Inserted(old, call[t]) = Append(base, row)
      BY DEF Inserted
<1>7. Append(base, row) \in Seq(RowSet) /\ Len(Append(base, row)) = Len(base) + 1
  <2> HIDE DEF base, row
  <2> QED BY <1>3, <1>4, AppendProperties
<1> QED BY <1>3, <1>4, <1>5, <1>6, <1>7

LEMMA InsertTypes ==
    ASSUME TypeInv, NEW t \in Callers, Insert(t)
    PROVE  TypeInv'
<1> DEFINE tn == call[t].tenant
           new == Inserted(rows[tn], call[t])
<1>1. CASE Has(rows[tn], call[t].inv, call[t].kind)
  <2>1. Leave(t) /\ UNCHANGED <<rows, files, aeat, writer, faults>>
        BY <1>1 DEF Insert
  <2>2. StoreOK'
        BY <2>1, TypeInvParts DEF StoreOK
  <2> QED BY <2>1, <2>2, LeaveTypes DEF Threads
<1>2. CASE ~Has(rows[tn], call[t].inv, call[t].kind)
  <2>1. /\ rows' = [rows EXCEPT ![tn] = new]
        /\ Goto(t, "file") /\ pc[t] = "insert"
        /\ UNCHANGED <<files, aeat, lock, writer, call, todo, answer, faults>>
        BY <1>2 DEF Insert
  <2>2. /\ tn \in Tenants /\ rows[tn] \in Seq(RowSet)
        /\ new \in Seq(RowSet) /\ Len(new) = Len(rows[tn]) + 1
        BY <2>1, CallerTypes, InsertedRows
  <2>3. /\ rows' \in [Tenants -> Seq(RowSet)]
        /\ DOMAIN rows[DefaultTenant] \subseteq DOMAIN rows'[DefaultTenant]
    <3> HIDE DEF new, tn
    <3> QED BY <2>1, <2>2, RowsReplaced, TypeInvParts DEF StoreOK
  <2>4. StoreOK'
        BY <2>1, <2>3, TypeInvParts DEF StoreOK
  <2>5. TodosOK'
        BY <2>1, <2>3, TypeInvParts, TodosKept DEF TodosOK
  <2>6. pc' \in [Threads -> {"idle"} \cup CallerSteps \cup WorkerSteps]
        BY <2>1 DEF Goto, TypeInv, TypeOK, CallerSteps
  <2>7. LocalsOK'
        BY <2>1 DEF Goto, TypeInv, TypeOK, LocalsOK, Threads
  <2>8. ThreadsOK'
        BY <2>1, <2>6, <2>7, TypeInvParts DEF ThreadsOK
  <2> QED BY <2>4, <2>5, <2>8, TypeInvNext
<1> QED BY <1>1, <1>2

LEMMA InsertLockedTypes ==
    ASSUME TypeInv, NEW t \in Callers, InsertLocked(t)
    PROVE  TypeInv'
BY LockedTypes DEF InsertLocked

LEMMA UpdateLockedTypes ==
    ASSUME TypeInv, NEW t \in Callers, UpdateLocked(t)
    PROVE  TypeInv'
BY LockedTypes DEF UpdateLocked

LEMMA WriteFileTypes ==
    ASSUME TypeInv, NEW t \in Callers, WriteFile(t)
    PROVE  TypeInv'
<1> DEFINE c == call[t]
<1>1. Xml(c.tenant, c.inv, c.kind, c.prev) \in XmlSet
      BY CallerTypes, XmlType DEF WriteFile
<1>2. StoreOK'
      BY <1>1, TypeInvParts DEF WriteFile, StoreOK
<1>3. pc' \in [Threads -> {"idle"} \cup CallerSteps \cup WorkerSteps]
      BY DEF WriteFile, Goto, TypeInv, TypeOK, CallerSteps
<1>4. LocalsOK'
      BY DEF WriteFile, Goto, TypeInv, TypeOK, LocalsOK, Threads
<1>5. ThreadsOK'
      BY <1>3, <1>4, TypeInvParts DEF WriteFile, ThreadsOK
<1>6. TodosOK'
      BY TypeInvParts DEF WriteFile, TodosOK, TodoOK
<1> QED BY <1>2, <1>5, <1>6, TypeInvNext

LEMMA DeliveryRaisesTypes ==
    ASSUME TypeInv, NEW t \in Callers, DeliveryRaises(t)
    PROVE  TypeInv'
<1>1. StoreOK'
      BY FaultType, TypeInvParts DEF DeliveryRaises, StoreOK
<1> QED BY <1>1, LeaveTypes DEF DeliveryRaises, Threads

LEMMA SendNewTypes ==
    ASSUME TypeInv, NEW t \in Callers, SendNew(t)
    PROVE  TypeInv'
<1> DEFINE xml == Xml(call[t].tenant, call[t].inv, call[t].kind, call[t].prev)
<1>1. xml \in XmlSet /\ t \in Threads
      BY CallerTypes, XmlType DEF SendNew
<1>2. ThreadsOK' /\ aeat' \subseteq XmlSet
  <2>1. Send(t, xml) /\ Goto(t, "update") /\ pc[t] # "idle" /\ UNCHANGED <<lock, call>>
        BY DEF SendNew
  <2> HIDE DEF xml
  <2> QED BY <1>1, <2>1, SendTypes
<1>3. StoreOK' /\ TodosOK'
      BY <1>2, TypeInvParts DEF SendNew, StoreOK, TodosOK, TodoOK
<1> QED BY <1>2, <1>3, TypeInvNext

LEMMA UpdateTypes ==
    ASSUME TypeInv, NEW t \in Callers, Update(t)
    PROVE  TypeInv'
<1> DEFINE tn == call[t].tenant
           new == Answered(rows[tn], call[t].inv, call[t].kind, answer[t])
<1>1. answer[t] \in Delivery
      BY ConstantsAssumption DEF Update, TypeInv, TypeOK, LocalsOK, Threads
<1>2. tn \in Tenants /\ rows[tn] \in Seq(RowSet) /\ t \in Threads
      BY CallerTypes DEF Update
<1>3. new \in Seq(RowSet) /\ Len(new) = Len(rows[tn])
      BY <1>1, <1>2, AnsweredRows DEF SameLinks
<1>4. rows' = [rows EXCEPT ![tn] = new]
      BY DEF Update
<1>5. /\ rows' \in [Tenants -> Seq(RowSet)]
      /\ DOMAIN rows[DefaultTenant] \subseteq DOMAIN rows'[DefaultTenant]
  <2> HIDE DEF new, tn
  <2> QED BY <1>2, <1>3, <1>4, RowsReplaced, TypeInvParts DEF StoreOK
<1>6. StoreOK'
      BY <1>5, TypeInvParts DEF Update, StoreOK
<1> QED BY <1>2, <1>5, <1>6, LeaveTypes DEF Update

\* What a worker finds in a row it selects.
LEMMA SelectedTypes ==
    ASSUME NEW table \in Seq(RowSet)
    PROVE  /\ DOMAIN Selected(table) \subseteq DOMAIN table
           /\ \A id \in DOMAIN Selected(table) :
                 /\ Selected(table)[id] \in ItemSet
                 /\ Selected(table)[id].retries < MaxRetries
<1>1. ASSUME NEW id \in DOMAIN table, Pending(table[id])
      PROVE  Item(table[id]) \in ItemSet /\ Item(table[id]).retries < MaxRetries
  <2>1. table[id] \in RowSet /\ table[id].retries < MaxRetries
        BY <1>1 DEF Pending
  <2> QED BY <2>1 DEF Item, ItemSet, RowSet, Kinds
<1> QED BY <1>1 DEF Selected

LEMMA ScanTypes ==
    ASSUME TypeInv, NEW w \in Workers, Scan(w)
    PROVE  TypeInv'
<1>1. w \in Threads /\ rows[DefaultTenant] \in Seq(RowSet)
      BY ConstantsAssumption DEF TypeInv, TypeOK, Threads
<1>2. TodosOK'
  <2>1. DOMAIN todo' = Threads
        BY TypeInvParts DEF Scan, TodosOK
  <2>2. ASSUME NEW v \in Threads PROVE TodoOK(v)'
    <3>1. CASE v = w
      <4>1. todo'[w] = Selected(rows[DefaultTenant])
            BY <1>1, TypeInvParts DEF Scan, TodosOK
      <4> QED BY <1>1, <3>1, <4>1, SelectedTypes DEF Scan, TodoOK
    <3>2. CASE v # w
      <4>1. todo'[v] = todo[v]
            BY <3>2, TypeInvParts DEF Scan, TodosOK
      <4> QED BY <4>1, TypeInvParts DEF Scan, TodosOK, TodoOK
    <3> QED BY <3>1, <3>2
  <2> QED BY <2>1, <2>2 DEF TodosOK
<1>3. pc' \in [Threads -> {"idle"} \cup CallerSteps \cup WorkerSteps]
      BY DEF Scan, Goto, TypeInv, TypeOK, WorkerSteps
<1>4. LocalsOK'
      BY ConstantsAssumption DEF Scan, Goto, TypeInv, TypeOK, LocalsOK, Threads
<1>5. ThreadsOK'
      BY <1>1, <1>3, <1>4, TypeInvParts DEF Scan, ThreadsOK
<1>6. StoreOK'
      BY TypeInvParts DEF Scan, StoreOK
<1> QED BY <1>2, <1>5, <1>6, TypeInvNext

LEMMA EndScanTypes ==
    ASSUME TypeInv, NEW w \in Workers, EndScan(w)
    PROVE  TypeInv'
<1>1. StoreOK'
      BY TypeInvParts DEF EndScan, StoreOK
<1> QED BY <1>1, LeaveTypes DEF EndScan, Threads

LEMMA ResendTypes ==
    ASSUME TypeInv, NEW w \in Workers, NEW id \in DOMAIN todo[w], Resend(w, id)
    PROVE  TypeInv'
<1> DEFINE xml == FileOf(todo[w][id])
<1>1. w \in Threads
      BY DEF Threads
<1>2. todo[w][id] \in ItemSet
      BY <1>1, TypeInvParts DEF TodosOK, TodoOK
<1>3. xml \in XmlSet
      BY <1>2, TypeInvParts DEF Resend, FileOf, StoreOK, ItemSet
<1>4. ThreadsOK' /\ aeat' \subseteq XmlSet
  <2>1. Send(w, xml) /\ Goto(w, "record") /\ pc[w] # "idle" /\ UNCHANGED <<lock, call>>
        BY DEF Resend
  <2> HIDE DEF xml
  <2> QED BY <1>1, <1>3, <2>1, SendTypes
<1>5. StoreOK' /\ TodosOK'
      BY <1>4, TypeInvParts DEF Resend, StoreOK, TodosOK, TodoOK
<1> QED BY <1>4, <1>5, TypeInvNext

LEMMA SkipMissingTypes ==
    ASSUME TypeInv, NEW w \in Workers, NEW id, SkipMissing(w, id)
    PROVE  TypeInv'
<1>1. TodosOK'
      BY TypeInvParts, NextItemTodos DEF SkipMissing, Threads
<1>2. ThreadsOK' /\ StoreOK'
      BY TypeInvParts DEF SkipMissing, ThreadsOK, StoreOK, LocalsOK
<1> QED BY <1>1, <1>2, TypeInvNext

\* The step after a resend: on to the next row.
LEMMA NextRowThreads ==
    ASSUME ThreadsOK, NEW w \in Workers, Goto(w, "next"),
           answer' = [answer EXCEPT ![w] = None], UNCHANGED <<lock, call>>
    PROVE  ThreadsOK'
<1>1. pc' \in [Threads -> {"idle"} \cup CallerSteps \cup WorkerSteps]
      BY DEF Goto, ThreadsOK, WorkerSteps
<1>2. LocalsOK'
      BY ConstantsAssumption DEF Goto, ThreadsOK, LocalsOK, Threads
<1> QED BY <1>1, <1>2 DEF ThreadsOK

LEMMA RetryFailsTypes ==
    ASSUME TypeInv, NEW w \in Workers, NEW id, RetryFails(w, id)
    PROVE  TypeInv'
<1>1. TodosOK'
      BY TypeInvParts, NextItemTodos DEF RetryFails, Threads
<1>2. ThreadsOK'
      BY TypeInvParts, NextRowThreads DEF RetryFails
<1>3. StoreOK'
      BY TypeInvParts, FaultType DEF RetryFails, StoreOK
<1> QED BY <1>1, <1>2, <1>3, TypeInvNext

\* The table after the result of a resend is recorded in the row id.
LEMMA RetriedRows ==
    ASSUME NEW table \in Seq(RowSet), NEW id \in DOMAIN table,
           NEW status \in Delivery, NEW count \in 0..MaxRetries
    PROVE  LET new == [table EXCEPT ![id] = Retried(table[id], status, count)]
           IN  new \in Seq(RowSet) /\ SameLinks(table, new)
<1> DEFINE row == Retried(table[id], status, count)
           new == [table EXCEPT ![id] = row]
<1>1. table[id] \in RowSet
      OBVIOUS
<1>2. /\ row \in RowSet /\ row.inv = table[id].inv
      /\ row.prev = table[id].prev /\ row.hash = table[id].hash
      BY <1>1 DEF Retried, RowSet
<1>3. new \in Seq(RowSet) /\ Len(new) = Len(table)
  <2> HIDE DEF row
  <2> QED BY <1>2, ExceptSeq
<1>4. \A i \in 1..Len(table) : new[i] = IF i = id THEN row ELSE table[i]
  <2> HIDE DEF row
  <2> QED OBVIOUS
<1> QED BY <1>2, <1>3, <1>4 DEF SameLinks

LEMMA RecordRetryTypes ==
    ASSUME TypeInv, NEW w \in Workers, NEW id \in DOMAIN todo[w],
           RecordRetry(w, id)
    PROVE  TypeInv'
<1> DEFINE old == rows[DefaultTenant]
           count == todo[w][id].retries + 1
           new == [old EXCEPT ![id] = Retried(old[id], answer[w], count)]
<1>1. /\ w \in Threads /\ DefaultTenant \in Tenants
      /\ old \in Seq(RowSet) /\ answer[w] \in Delivery
      BY ConstantsAssumption
         DEF RecordRetry, TypeInv, TypeOK, LocalsOK, Threads
<1>2. id \in DOMAIN old /\ count \in 0..MaxRetries
  <2>1. /\ todo[w][id] \in ItemSet /\ todo[w][id].retries < MaxRetries
        /\ id \in DOMAIN old
        BY <1>1, TypeInvParts DEF TodosOK, TodoOK
  <2> QED BY <2>1, ConstantsAssumption DEF ItemSet
<1>3. new \in Seq(RowSet) /\ Len(new) = Len(old)
  <2> HIDE DEF old, count
  <2> QED BY <1>1, <1>2, RetriedRows DEF SameLinks
<1>4. rows' = [rows EXCEPT ![DefaultTenant] = new]
      BY DEF RecordRetry
<1>5. /\ rows' \in [Tenants -> Seq(RowSet)]
      /\ DOMAIN rows[DefaultTenant] \subseteq DOMAIN rows'[DefaultTenant]
  <2> HIDE DEF new
  <2> QED BY <1>1, <1>3, <1>4, RowsReplaced, TypeInvParts DEF StoreOK
<1>6. StoreOK'
      BY <1>5, TypeInvParts DEF RecordRetry, StoreOK
<1>7. TodosOK'
      BY <1>1, <1>5, TypeInvParts, NextItemTodos DEF RecordRetry
<1>8. ThreadsOK'
      BY TypeInvParts, NextRowThreads DEF RecordRetry
<1> QED BY <1>6, <1>7, <1>8, TypeInvNext

LEMMA CrashTypes == TypeInv /\ Crash => TypeInv'
<1> SUFFICES ASSUME TypeInv, Crash PROVE TypeInv'
    OBVIOUS
<1>1. NoCall \in CallSet
      BY ConstantsAssumption DEF NoCall, CallSet, Kinds, Genesis
<1>2. ThreadsOK' /\ TodosOK'
      BY <1>1 DEF Crash, ThreadsOK, LocalsOK, TodosOK, TodoOK, Threads
<1>3. StoreOK'
      BY TypeInvParts, FaultType DEF Crash, StoreOK
<1> QED BY <1>2, <1>3, TypeInvNext

LEMMA TypeInvStep == TypeInv /\ [Next]_vars => TypeInv'
<1> SUFFICES ASSUME TypeInv, [Next]_vars PROVE TypeInv'
    OBVIOUS
<1>1. ASSUME NEW t \in Callers, NEW tn \in Tenants, NEW inv \in Invoices,
             NEW kind \in Kinds, Request(t, tn, inv, kind)
      PROVE  TypeInv'
      BY <1>1, RequestTypes
<1>2. ASSUME NEW t \in Callers, CallerStep(t) PROVE TypeInv'
      BY <1>2, EnterTypes, PrepareTypes, RefuseTypes, InsertTypes,
         InsertLockedTypes, WriteFileTypes, DeliveryRaisesTypes, SendNewTypes,
         UpdateTypes, UpdateLockedTypes DEF CallerStep
<1>3. ASSUME NEW w \in Workers, WorkerStep(w) PROVE TypeInv'
      BY <1>3, ScanTypes, ResendTypes, SkipMissingTypes, RecordRetryTypes,
         RetryFailsTypes, EndScanTypes DEF WorkerStep
<1>4. CASE Crash
      BY <1>4, CrashTypes
<1>5. CASE UNCHANGED vars
      BY <1>5, TypeInvParts, TypeInvNext
         DEF vars, ThreadsOK, LocalsOK, TodosOK, TodoOK, StoreOK
<1> QED BY <1>1, <1>2, <1>3, <1>4, <1>5 DEF Next

\* In every reachable state every variable has its type, a request in
\* progress has an invoice and an exchange that ended has an answer.
THEOREM TypeInvariant == Spec => []TypeInv
BY InitTypeInv, TypeInvStep, PTL DEF Spec

\* The part of it the runs check.
THEOREM TypeCorrect == Spec => []TypeOK
<1>1. TypeInv => TypeOK
      BY DEF TypeInv
<1> QED BY <1>1, TypeInvariant, PTL

(***************************************************************************)
(* The chain.  A thread past "enter" is alone there, so the digest it has  *)
(* read is still the last one when it inserts its row.                     *)
(***************************************************************************)

LEMMA Alone ==
    ASSUME LockHeld, NEW t \in Threads, Inside(t)
    PROVE  lock = t /\ \A c \in Threads : Inside(c) => c = t
BY DEF LockHeld

\* The thread inside goes on, to a step other than the INSERT.
LEMMA GoesOn ==
    ASSUME TypeInv, LockHeld, NEW t \in Threads, Inside(t),
           NEW step, step # "insert", Goto(t, step), UNCHANGED lock
    PROVE  LockHeld' /\ PrevFresh'
<1>1. /\ \A c \in Threads : c # t => pc'[c] = pc[c]
      /\ pc'[t] = step
      BY DEF TypeInv, TypeOK, Goto
<1>2. \A c \in Threads : c # t => pc[c] \in {"idle", "enter"}
      BY Alone DEF Inside
<1>3. LockHeld'
      BY <1>1, <1>2, Alone DEF LockHeld, Inside
<1>4. PrevFresh'
      BY <1>1, <1>2 DEF PrevFresh, Threads
<1> QED BY <1>3, <1>4

\* The thread inside leaves, or goes back to "enter": nobody is inside.
LEMMA GoesOut ==
    ASSUME TypeInv, LockHeld, NEW t \in Threads, Inside(t),
           NEW step \in {"idle", "enter"}, pc' = [pc EXCEPT ![t] = step]
    PROVE  LockHeld' /\ PrevFresh'
<1>1. \A c \in Threads : pc'[c] \in {"idle", "enter"}
      BY Alone DEF TypeInv, TypeOK, Inside
<1> QED BY <1>1 DEF LockHeld, PrevFresh, Inside, Threads

LEMMA LeaveGoesOut ==
    ASSUME TypeInv, LockHeld, NEW t \in Threads, Inside(t), Leave(t)
    PROVE  LockHeld' /\ PrevFresh'
BY GoesOut DEF Leave

LEMMA LockedGoesOut ==
    ASSUME TypeInv, LockHeld, NEW t \in Threads, Inside(t), Locked(t)
    PROVE  LockHeld' /\ PrevFresh'
BY GoesOut, LeaveGoesOut DEF Locked, Goto

LEMMA SameRowsLinked == ChainLinked /\ UNCHANGED rows => ChainLinked'
BY DEF ChainLinked

\* One table is rewritten without touching its links.
LEMMA RewrittenLinked ==
    ASSUME StoreOK, ChainLinked, NEW tn \in Tenants, NEW new \in Seq(RowSet),
           SameLinks(rows[tn], new), rows' = [rows EXCEPT ![tn] = new]
    PROVE  ChainLinked'
<1>1. rows[tn] \in Seq(RowSet) /\ Linked(rows[tn])
      BY DEF StoreOK, ChainLinked
<1>2. Linked(new)
      BY <1>1, SameLinksLinked
<1>3. \A o \in Tenants : rows'[o] = IF o = tn THEN new ELSE rows[o]
      BY DEF StoreOK
<1> QED BY <1>2, <1>3 DEF ChainLinked

LEMMA InitChainInv == Init => ChainInv
<1> SUFFICES ASSUME Init PROVE ChainInv
    OBVIOUS
<1>1. LockHeld /\ PrevFresh
      BY DEF Init, LockHeld, PrevFresh, Inside, Threads
<1>2. ChainLinked
      BY DEF Init, ChainLinked, Linked
<1> QED BY <1>1, <1>2 DEF ChainInv

LEMMA RequestChain ==
    ASSUME TypeInv, ChainInv, NEW t \in Callers, NEW tn, NEW inv, NEW kind,
           Request(t, tn, inv, kind)
    PROVE  ChainInv'
<1>1. LockHeld'
      BY DEF Request, Goto, ChainInv, LockHeld, Inside, TypeInv, TypeOK
<1>2. PrevFresh'
      BY DEF Request, Goto, ChainInv, PrevFresh, TypeInv, TypeOK, Threads
<1>3. ChainLinked'
      BY SameRowsLinked DEF Request, ChainInv
<1> QED BY <1>1, <1>2, <1>3 DEF ChainInv

\* threading.Lock: whoever enters finds nobody inside.
LEMMA EntersAlone ==
    ASSUME TypeInv, LockHeld, NEW t \in Threads, lock = None, lock' = t,
           NEW step, step # "insert", Goto(t, step)
    PROVE  LockHeld' /\ PrevFresh'
<1>1. \A c \in Threads : pc[c] \in {"idle", "enter"}
      BY ConstantsAssumption DEF LockHeld, Inside
<1>2. /\ \A c \in Threads : c # t => pc'[c] = pc[c]
      /\ pc'[t] = step
      BY DEF TypeInv, TypeOK, Goto
<1> QED BY <1>1, <1>2 DEF LockHeld, PrevFresh, Inside, Threads

LEMMA PrepareChain ==
    ASSUME TypeInv, ChainInv, NEW t \in Callers, Prepare(t)
    PROVE  ChainInv'
<1>1. t \in Threads /\ Inside(t) /\ LockHeld
      BY DEF Prepare, Inside, Threads, ChainInv
<1>2. /\ \A c \in Threads : c # t => pc'[c] = pc[c]
      /\ \A c \in Threads : c # t => pc[c] \in {"idle", "enter"}
      BY <1>1, Alone DEF TypeInv, TypeOK, Prepare, Goto, Inside
<1>3. LockHeld'
      BY <1>1, <1>2, Alone DEF LockHeld, Prepare, Inside
<1>4. /\ call'[t].prev = LastHash(rows[call[t].tenant])
      /\ call'[t].tenant = call[t].tenant
      BY <1>1, CallerTypes, TypeInvParts
         DEF Prepare, ReadPrev, ThreadsOK, CallSet
<1>5. PrevFresh'
      BY <1>2, <1>4 DEF Prepare, PrevFresh, Threads
<1>6. ChainLinked'
      BY SameRowsLinked DEF Prepare, ChainInv
<1> QED BY <1>3, <1>5, <1>6 DEF ChainInv

LEMMA InsertChain ==
    ASSUME TypeInv, ChainInv, NEW t \in Callers, Insert(t)
    PROVE  ChainInv'
<1> DEFINE tn == call[t].tenant
           old == rows[tn]
           new == Inserted(old, call[t])
           base == IF call[t].kind = "anulacion"
                   THEN Cancelled(old, call[t].inv) ELSE old
           row == Row(call[t].inv, call[t].kind, call[t].prev)
<1>1. /\ t \in Threads /\ pc[t] = "insert" /\ Inside(t)
      /\ LockHeld /\ PrevFresh /\ ChainLinked
      BY DEF Insert, Inside, Threads, ChainInv
<1>2. CASE Has(old, call[t].inv, call[t].kind)
  <2>1. Leave(t) /\ UNCHANGED rows
        BY <1>2 DEF Insert
  <2> QED BY <1>1, <2>1, LeaveGoesOut, SameRowsLinked DEF ChainInv
<1>3. CASE ~Has(old, call[t].inv, call[t].kind)
  <2>1. /\ rows' = [rows EXCEPT ![tn] = new]
        /\ Goto(t, "file") /\ UNCHANGED lock
        BY <1>3 DEF Insert
  <2>2. /\ base \in Seq(RowSet) /\ SameLinks(old, base) /\ row \in RowSet
        /\ new = Append(base, row) /\ tn \in Tenants /\ old \in Seq(RowSet)
        BY <1>1, InsertedRows, CallerTypes
  <2>3. row.prev = LastHash(old) /\ row.hash = Digest(row.inv, row.prev)
        BY <1>1 DEF PrevFresh, Row
  <2>4. Linked(old)
        BY <1>1, <2>2 DEF ChainLinked
  <2>5. Linked(new)
    <3> HIDE DEF base, row, new, old
    <3> QED BY <2>2, <2>3, <2>4, SameLinksLinked, AppendLinked
  <2>6. ChainLinked'
    <3>1. \A o \in Tenants : rows'[o] = IF o = tn THEN new ELSE rows[o]
          BY <2>1, TypeInvParts DEF StoreOK
    <3> QED BY <1>1, <2>5, <3>1 DEF ChainLinked
  <2> QED BY <1>1, <2>1, <2>6, GoesOn DEF ChainInv
<1> QED BY <1>2, <1>3

\* The other steps of a thread that is inside touch no link.
LEMMA UpdateRewrites ==
    ASSUME TypeInv, NEW t \in Callers, Update(t)
    PROVE  \E tn \in Tenants, new \in Seq(RowSet) :
               /\ SameLinks(rows[tn], new)
               /\ rows' = [rows EXCEPT ![tn] = new]
<1> DEFINE tn == call[t].tenant
           new == Answered(rows[tn], call[t].inv, call[t].kind, answer[t])
<1>1. answer[t] \in Delivery
      BY ConstantsAssumption DEF Update, TypeInv, TypeOK, LocalsOK, Threads
<1>2. tn \in Tenants /\ rows[tn] \in Seq(RowSet)
      BY CallerTypes DEF Update
<1>3. new \in Seq(RowSet) /\ SameLinks(rows[tn], new)
      BY <1>1, <1>2, AnsweredRows
<1>4. rows' = [rows EXCEPT ![tn] = new]
      BY DEF Update
<1> HIDE DEF tn, new
<1> QED BY <1>2, <1>3, <1>4

LEMMA RecordRetryRewrites ==
    ASSUME TypeInv, NEW w \in Workers, NEW id \in DOMAIN todo[w],
           RecordRetry(w, id)
    PROVE  \E tn \in Tenants, new \in Seq(RowSet) :
               /\ SameLinks(rows[tn], new)
               /\ rows' = [rows EXCEPT ![tn] = new]
<1> DEFINE old == rows[DefaultTenant]
           count == todo[w][id].retries + 1
           new == [old EXCEPT ![id] = Retried(old[id], answer[w], count)]
<1>1. /\ w \in Threads /\ DefaultTenant \in Tenants
      /\ old \in Seq(RowSet) /\ answer[w] \in Delivery
      BY ConstantsAssumption
         DEF RecordRetry, TypeInv, TypeOK, LocalsOK, Threads
<1>2. id \in DOMAIN old /\ count \in 0..MaxRetries
  <2>1. /\ todo[w][id] \in ItemSet /\ todo[w][id].retries < MaxRetries
        /\ id \in DOMAIN old
        BY <1>1, TypeInvParts DEF TodosOK, TodoOK
  <2> QED BY <2>1, ConstantsAssumption DEF ItemSet
<1>3. new \in Seq(RowSet) /\ SameLinks(old, new)
  <2> HIDE DEF old, count
  <2> QED BY <1>1, <1>2, RetriedRows
<1>4. rows' = [rows EXCEPT ![DefaultTenant] = new]
      BY DEF RecordRetry
<1> HIDE DEF new
<1> QED BY <1>1, <1>3, <1>4

LEMMA RewritesChain ==
    ASSUME TypeInv, ChainLinked,
           NEW tn \in Tenants, NEW new \in Seq(RowSet),
           SameLinks(rows[tn], new), rows' = [rows EXCEPT ![tn] = new]
    PROVE  ChainLinked'
BY RewrittenLinked, TypeInvParts

LEMMA CallerChain ==
    ASSUME TypeInv, ChainInv, NEW t \in Callers, CallerStep(t)
    PROVE  ChainInv'
<1> USE DEF ChainInv
<1>1. t \in Threads
      BY DEF Threads
<1>2. CASE Enter(t)
      BY <1>1, <1>2, EntersAlone, SameRowsLinked DEF Enter, CanEnter
<1>3. CASE Prepare(t)
      BY <1>3, PrepareChain
<1>4. CASE Refuse(t)
      BY <1>1, <1>4, LeaveGoesOut, SameRowsLinked DEF Refuse, Inside
<1>5. CASE Insert(t)
      BY <1>5, InsertChain
<1>6. CASE InsertLocked(t)
      BY <1>1, <1>6, LockedGoesOut, SameRowsLinked DEF InsertLocked, Inside
<1>7. CASE WriteFile(t)
      BY <1>1, <1>7, GoesOn, SameRowsLinked DEF WriteFile, Inside
<1>8. CASE DeliveryRaises(t)
      BY <1>1, <1>8, LeaveGoesOut, SameRowsLinked DEF DeliveryRaises, Inside
<1>9. CASE SendNew(t)
      BY <1>1, <1>9, GoesOn, SameRowsLinked DEF SendNew, Inside
<1>10. CASE Update(t)
  <2>1. LockHeld' /\ PrevFresh'
        BY <1>1, <1>10, LeaveGoesOut DEF Update, Inside
  <2> QED BY <1>10, <2>1, UpdateRewrites, RewritesChain
<1>11. CASE UpdateLocked(t)
      BY <1>1, <1>11, LockedGoesOut, SameRowsLinked DEF UpdateLocked, Inside
<1> QED BY <1>2, <1>3, <1>4, <1>5, <1>6, <1>7, <1>8, <1>9, <1>10, <1>11
        DEF CallerStep

LEMMA WorkerChain ==
    ASSUME TypeInv, ChainInv, NEW w \in Workers, WorkerStep(w)
    PROVE  ChainInv'
<1> USE DEF ChainInv
<1>1. w \in Threads
      BY DEF Threads
<1>2. CASE Scan(w)
      BY <1>1, <1>2, EntersAlone, SameRowsLinked DEF Scan, CanEnter
<1>3. CASE EndScan(w)
      BY <1>1, <1>3, LeaveGoesOut, SameRowsLinked DEF EndScan, Inside
<1>4. ASSUME NEW id \in DOMAIN todo[w], Resend(w, id)
      PROVE  ChainInv'
      BY <1>1, <1>4, GoesOn, SameRowsLinked DEF Resend, Inside
<1>5. ASSUME NEW id \in DOMAIN todo[w], SkipMissing(w, id)
      PROVE  ChainInv'
      BY <1>5, SameRowsLinked DEF SkipMissing, LockHeld, PrevFresh, Inside
<1>6. ASSUME NEW id \in DOMAIN todo[w], RecordRetry(w, id)
      PROVE  ChainInv'
  <2>1. LockHeld' /\ PrevFresh'
        BY <1>1, <1>6, GoesOn DEF RecordRetry, Inside
  <2> QED BY <1>6, <2>1, RecordRetryRewrites, RewritesChain
<1>7. ASSUME NEW id \in DOMAIN todo[w], RetryFails(w, id)
      PROVE  ChainInv'
      BY <1>1, <1>7, GoesOn, SameRowsLinked DEF RetryFails, Inside
<1> QED BY <1>2, <1>3, <1>4, <1>5, <1>6, <1>7 DEF WorkerStep

LEMMA ChainInvStep == TypeInv /\ ChainInv /\ [Next]_vars => ChainInv'
<1> SUFFICES ASSUME TypeInv, ChainInv, [Next]_vars PROVE ChainInv'
    OBVIOUS
<1>1. CASE Crash
      BY <1>1, SameRowsLinked
         DEF Crash, ChainInv, LockHeld, PrevFresh, Inside, Threads
<1>2. CASE UNCHANGED vars
      BY <1>2, SameRowsLinked DEF vars, ChainInv, LockHeld, PrevFresh, Inside
<1> QED BY <1>1, <1>2, RequestChain, CallerChain, WorkerChain DEF Next

\* The chain of every tenant is linear, and the lock is why.
THEOREM ChainInvariant == Spec => []ChainInv
BY InitChainInv, ChainInvStep, TypeInvariant, PTL DEF Spec

\* Every row of a tenant is linked to the row before it.
THEOREM ChainAlwaysLinked == Spec => []ChainLinked
<1>1. ChainInv => ChainLinked
      BY DEF ChainInv
<1> QED BY <1>1, ChainInvariant, PTL

(***************************************************************************)
(* The refinement: the linked columns are an append-only log.              *)
(***************************************************************************)

\* The linked columns of a table: Chain[tn] is Columns(rows[tn]).
Columns(table) ==
    [i \in DOMAIN table |-> [inv |-> table[i].inv, prev |-> table[i].prev,
                             hash |-> table[i].hash]]

LEMMA ChainColumns == Chain = [tn \in Tenants |-> Columns(rows[tn])]
BY DEF Chain, Columns

LEMMA ChainColumnsNext == Chain' = [tn \in Tenants |-> Columns(rows'[tn])]
BY DEF Chain, Columns

LEMMA SameColumns ==
    ASSUME NEW a \in Seq(RowSet), NEW b \in Seq(RowSet), SameLinks(a, b)
    PROVE  Columns(a) = Columns(b)
BY DEF SameLinks, Columns

LEMMA ColumnsSeq ==
    ASSUME NEW a \in Seq(RowSet)
    PROVE  /\ Columns(a) \in Seq([inv : Invoices, prev : Seq(Invoices), hash : Seq(Invoices)])
           /\ Len(Columns(a)) = Len(a)
           /\ LastHash(Columns(a)) = LastHash(a)
<1> DEFINE Cols == [inv : Invoices, prev : Seq(Invoices), hash : Seq(Invoices)]
           F(i) == [inv |-> a[i].inv, prev |-> a[i].prev, hash |-> a[i].hash]
<1>1. Len(a) \in Nat /\ DOMAIN a = 1..Len(a)
      OBVIOUS
<1>2. \A i \in 1..Len(a) : F(i) \in Cols
  <2>1. \A i \in 1..Len(a) : a[i] \in RowSet
        OBVIOUS
  <2> QED BY <2>1 DEF RowSet
<1>3. Columns(a) = [i \in 1..Len(a) |-> F(i)]
      BY <1>1 DEF Columns
<1>4. Columns(a) \in Seq(Cols) /\ Len(Columns(a)) = Len(a)
  <2> HIDE DEF F, Cols
  <2> QED BY <1>1, <1>2, <1>3
<1>5. \A i \in 1..Len(a) : Columns(a)[i].hash = a[i].hash
      BY <1>3
<1>6. LastHash(Columns(a)) = LastHash(a)
  <2>1. CASE Len(a) = 0
        BY <1>4, <2>1 DEF LastHash
  <2>2. CASE Len(a) # 0
        BY <1>1, <1>4, <1>5, <2>2 DEF LastHash
  <2> QED BY <2>1, <2>2
<1> QED BY <1>4, <1>6

LEMMA ColumnsAppend ==
    ASSUME NEW a \in Seq(RowSet), NEW row \in RowSet
    PROVE  Columns(Append(a, row)) =
               Append(Columns(a), [inv |-> row.inv, prev |-> row.prev, hash |-> row.hash])
<1> DEFINE col == [inv |-> row.inv, prev |-> row.prev, hash |-> row.hash]
           Cols == [inv : Invoices, prev : Seq(Invoices), hash : Seq(Invoices)]
           new == Append(a, row)
<1>1. /\ new \in Seq(RowSet) /\ Len(new) = Len(a) + 1
      /\ new[Len(a) + 1] = row /\ \A i \in 1..Len(a) : new[i] = a[i]
      BY AppendProperties
<1>2. Columns(a) \in Seq(Cols) /\ Len(Columns(a)) = Len(a) /\ col \in Cols
      BY ColumnsSeq DEF RowSet
<1>3. /\ Append(Columns(a), col) \in Seq(Cols)
      /\ Len(Append(Columns(a), col)) = Len(a) + 1
      /\ Append(Columns(a), col)[Len(a) + 1] = col
      /\ \A i \in 1..Len(a) : Append(Columns(a), col)[i] = Columns(a)[i]
  <2> HIDE DEF col, Cols
  <2> QED BY <1>2, AppendProperties
<1>4. Columns(new) \in Seq(Cols) /\ Len(Columns(new)) = Len(a) + 1
      BY <1>1, ColumnsSeq
<1>5. ASSUME NEW i \in 1..(Len(a) + 1)
      PROVE  Columns(new)[i] = Append(Columns(a), col)[i]
  <2>1. Columns(new)[i] = [inv |-> new[i].inv, prev |-> new[i].prev, hash |-> new[i].hash]
        BY <1>1 DEF Columns
  <2>2. CASE i = Len(a) + 1
        BY <1>1, <1>3, <2>1, <2>2
  <2>3. CASE i \in 1..Len(a)
    <3>1. Columns(a)[i] = [inv |-> a[i].inv, prev |-> a[i].prev, hash |-> a[i].hash]
          BY <2>3 DEF Columns
    <3>2. new[i] = a[i] /\ Append(Columns(a), col)[i] = Columns(a)[i]
          BY <1>1, <1>3, <2>3
    <3>3. Columns(new)[i] = Columns(a)[i]
      <4> HIDE DEF new
      <4> QED BY <2>1, <3>1, <3>2
    <3> QED BY <3>2, <3>3
  <2>4. i = Len(a) + 1 \/ i \in 1..Len(a)
        OBVIOUS
  <2> QED BY <2>2, <2>3, <2>4
<1>6. Columns(new) = Append(Columns(a), col)
  <2> HIDE DEF new, col
  <2> QED BY SMTT(30), <1>3, <1>4, <1>5
<1> QED BY <1>6

LEMMA RewriteStutters ==
    ASSUME StoreOK, NEW tn \in Tenants, NEW new \in Seq(RowSet),
           SameLinks(rows[tn], new), rows' = [rows EXCEPT ![tn] = new]
    PROVE  UNCHANGED Chain
<1>1. \A o \in Tenants : rows'[o] = IF o = tn THEN new ELSE rows[o]
      BY DEF StoreOK
<1>2. rows[tn] \in Seq(RowSet)
      BY DEF StoreOK
<1>3. \A o \in Tenants : Columns(rows'[o]) = Columns(rows[o])
      BY <1>1, <1>2, SameColumns
<1> QED BY <1>3, ChainColumns, ChainColumnsNext

LEMMA SameRowsStutter == UNCHANGED rows => UNCHANGED Chain
BY DEF Chain

LEMMA InsertAppends ==
    ASSUME TypeInv, ChainInv, NEW t \in Callers, Insert(t)
    PROVE  Log!Next \/ UNCHANGED Chain
<1> DEFINE c == call[t]
           tn == c.tenant
           old == rows[tn]
           new == Inserted(old, c)
           base == IF c.kind = "anulacion" THEN Cancelled(old, c.inv) ELSE old
           row == Row(c.inv, c.kind, c.prev)
<1>1. CASE Has(old, c.inv, c.kind)
      BY <1>1, SameRowsStutter DEF Insert
<1>2. CASE ~Has(old, c.inv, c.kind)
  <2>1. rows' = [rows EXCEPT ![tn] = new]
        BY <1>2 DEF Insert
  <2>2. /\ base \in Seq(RowSet) /\ SameLinks(old, base) /\ row \in RowSet
        /\ new = Append(base, row) /\ tn \in Tenants /\ old \in Seq(RowSet)
        /\ c.inv \in Invoices
        BY InsertedRows, CallerTypes DEF Insert
  <2>3. [inv |-> row.inv, prev |-> row.prev, hash |-> row.hash]
            = Log!Record(c.inv, LastHash(old))
        BY DEF Insert, ChainInv, PrevFresh, Row, Log!Record, Digest, Log!Digest
  <2>4. Columns(new) = Append(Columns(old), Log!Record(c.inv, LastHash(Columns(old))))
    <3>1. Columns(base) = Columns(old) /\ LastHash(Columns(old)) = LastHash(old)
      <4> HIDE DEF base, old
      <4> QED BY <2>2, SameColumns, ColumnsSeq
    <3>2. Columns(Append(base, row)) =
              Append(Columns(base), [inv |-> row.inv, prev |-> row.prev, hash |-> row.hash])
      <4> HIDE DEF base, row
      <4> QED BY <2>2, ColumnsAppend
    <3> HIDE DEF base, row, old, new
    <3> QED BY <2>2, <2>3, <3>1, <3>2
  <2>5. Chain' = [Chain EXCEPT ![tn] = Columns(new)]
    <3>1. \A o \in Tenants : rows'[o] = IF o = tn THEN new ELSE rows[o]
          BY <2>1, TypeInvParts DEF StoreOK
    <3> HIDE DEF new, tn
    <3> QED BY <2>2, <3>1, ChainColumns, ChainColumnsNext
  <2>6. Chain[tn] = Columns(old)
        BY <2>2, ChainColumns
  <2>7. Log!AppendRecord(tn, c.inv)
        BY <2>4, <2>5, <2>6 DEF Log!AppendRecord, LastHash, Log!LastHash, Genesis, Log!Genesis
  <2> QED BY <2>2, <2>7 DEF Log!Next
<1> QED BY <1>1, <1>2

LEMMA StepRefines ==
    TypeInv /\ ChainInv /\ [Next]_vars => [Log!Next]_Chain
<1> SUFFICES ASSUME TypeInv, ChainInv, [Next]_vars PROVE [Log!Next]_Chain
    OBVIOUS
<1>1. ASSUME NEW t \in Callers, CallerStep(t) PROVE [Log!Next]_Chain
  <2>1. CASE Insert(t)
        BY <2>1, InsertAppends
  <2>2. CASE Update(t)
        BY <2>2, UpdateRewrites, RewriteStutters, TypeInvParts
  <2>3. CASE UNCHANGED rows
        BY <2>3, SameRowsStutter
  <2> QED BY <1>1, <2>1, <2>2, <2>3
          DEF CallerStep, Enter, Prepare, Refuse, InsertLocked, WriteFile,
              DeliveryRaises, SendNew, UpdateLocked
<1>2. ASSUME NEW w \in Workers, WorkerStep(w) PROVE [Log!Next]_Chain
  <2>1. ASSUME NEW id \in DOMAIN todo[w], RecordRetry(w, id)
        PROVE  [Log!Next]_Chain
        BY <2>1, RecordRetryRewrites, RewriteStutters, TypeInvParts
  <2>2. CASE UNCHANGED rows
        BY <2>2, SameRowsStutter
  <2> QED BY <1>2, <2>1, <2>2
          DEF WorkerStep, Scan, Resend, SkipMissing, RetryFails, EndScan
<1>3. CASE \/ \E t \in Callers, tn \in Tenants, inv \in Invoices, kind \in Kinds :
                  Request(t, tn, inv, kind)
           \/ Crash \/ UNCHANGED vars
      BY <1>3, SameRowsStutter DEF Request, Crash, vars
<1> QED BY <1>1, <1>2, <1>3 DEF Next

LEMMA InitRefines == Init => Log!Init
<1> SUFFICES ASSUME Init PROVE Log!Init
    OBVIOUS
<1>1. Columns(<<>>) = <<>>
      BY DEF Columns
<1>2. \A tn \in Tenants : rows[tn] = <<>>
      BY DEF Init
<1> QED BY <1>1, <1>2, ChainColumns DEF Log!Init

\* register_invoice, cancel_invoice and the worker implement the append-only
\* log: whatever interleaves, fails or crashes, no record is ever altered,
\* removed or linked to anything but the last one.
THEOREM ServiceImplementsLog == Spec => ImplementsLog
BY InitRefines, StepRefines, TypeInvariant, ChainInvariant, PTL
   DEF Spec, ImplementsLog, Log!Spec
=============================================================================

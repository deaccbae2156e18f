----------------------- MODULE VerifactuWriters_proofs -----------------------
(***************************************************************************)
(* Theorems about VerifactuWriters, for any number of threads of both      *)
(* writers, any number of invoices and of faults.                          *)
(*                                                                         *)
(* The writers have no lock in common, so that nothing a thread has read   *)
(* is still true at its next step but what neither writer ever undoes: a   *)
(* row stays, with its number, its kind and its writer.  That is enough.   *)
(* An UPDATE of the register finds its row by number, and a number has one *)
(* row (NumbersUnique).  The worker passes over an issued invoice because  *)
(* there is no XML file of its number: a file has a row of the register of *)
(* that number (FilesKnown), and there is no second one.  That holds for   *)
(* one tenant only, since tenants share the directory.                     *)
(***************************************************************************)
EXTENDS VerifactuWriters, VerifactuDelivery_proofs, WellFoundedInduction

RowColumns == {"inv", "kind", "prev", "hash", "status", "delivery", "retries"}
CallFields == {"tenant", "inv", "kind", "prev", "attempt"}
CmdFields == {"tenant", "inv", "verifactu", "prev", "status"}

IsRow(row) ==
    /\ row = [c \in RowColumns |-> row[c]]
    /\ row.inv \in Invoices /\ row.kind \in Kinds

IsTable(table) ==
    /\ table \in Seq({table[i] : i \in DOMAIN table})
    /\ \A i \in DOMAIN table : IsRow(table[i])

\* A number of the register and a kind are those of one row.
UniqueIn(table) ==
    \A i, j \in DOMAIN table :
        table[i].inv = table[j].inv /\ table[i].kind = table[j].kind => i = j

Tables ==
    /\ rows = [tn \in Tenants |-> rows[tn]]
    /\ \A tn \in Tenants : IsTable(rows[tn]) /\ UniqueIn(rows[tn])

\* A request of the register has its tenant, invoice and kind.
CallOK(t) ==
    /\ call[t] = [c \in CallFields |-> call[t][c]]
    /\ pc[t] # "idle" => /\ call[t].tenant \in Tenants
                         /\ call[t].inv \in Invoices /\ call[t].kind \in Kinds

\* A request for an issue has its invoice.
CmdOK(t) ==
    /\ cmd[t] = [c \in CmdFields |-> cmd[t][c]]
    /\ epc[t] \in {"begin", "send", "insert"} => cmd[t].inv \in Invoices

Arrays ==
    /\ ThreadArrays
    /\ DOMAIN epc = E!Threads /\ DOMAIN cmd = E!Threads
    /\ DOMAIN found = E!Threads /\ DOMAIN patch = E!Threads

BaseInv ==
    /\ Arrays /\ Tables
    /\ \A t \in Callers : CallOK(t)
    /\ \A t \in E!Threads : CmdOK(t)

\* What a row of the register is called by.
IsRegRow(row, inv, kind) == row.inv = inv /\ row.kind = kind /\ ~E!Issued(row)

RegRow(tn, inv, kind) ==
    \E i \in DOMAIN rows[tn] : IsRegRow(rows[tn][i], inv, kind)

\* An issued invoice is no cancellation.
IssuedAlta ==
    \A tn \in Tenants : \A i \in DOMAIN rows[tn] :
        E!Issued(rows[tn][i]) => rows[tn][i].kind = "alta"

\* A request has seen the invoice it cancels, and written its row.
RequestKnows(t) ==
    /\ pc[t] = "insert" /\ call[t].kind = "anulacion" =>
           RegRow(call[t].tenant, call[t].inv, "alta")
    /\ pc[t] \in {"file", "send", "update"} =>
           RegRow(call[t].tenant, call[t].inv, call[t].kind)

FilesKnown ==
    /\ DOMAIN files = Invoices \X Kinds
    /\ \A inv \in Invoices, kind \in Kinds : files[<<inv, kind>>] # None =>
           \E tn \in Tenants : RegRow(tn, inv, kind)

\* The list of a worker has the numbers of the table, the record of an issued
\* invoice would be that of the invoice, and what is sent is registered.
TodoKnows(w) ==
    /\ \A id \in DOMAIN todo[w] :
           /\ id \in DOMAIN rows[DefaultTenant]
           /\ todo[w][id].inv = rows[DefaultTenant][id].inv
           /\ todo[w][id].xmlKind \in Kinds
           /\ E!Issued(rows[DefaultTenant][id]) => todo[w][id].xmlKind = "alta"
    /\ pc[w] = "record" =>
           \A id \in DOMAIN todo[w] : IsNext(w, id) =>
               \E tn \in Tenants : RegRow(tn, todo[w][id].inv, todo[w][id].xmlKind)

\* A batch handles issued invoices.
BatchKnows(t) ==
    /\ \A i \in found[t] \cup DOMAIN patch[t] :
           /\ epc[t] = "resend" /\ cmd[t].tenant \in Tenants
           /\ i \in DOMAIN rows[cmd[t].tenant]
           /\ E!Issued(rows[cmd[t].tenant][i])
    /\ \A i \in DOMAIN patch[t] : patch[t][i] \in E!Status

KnownInv ==
    /\ IssuedAlta /\ FilesKnown
    /\ \A t \in Callers : RequestKnows(t)
    /\ \A w \in Workers : TodoKnows(w)
    /\ \A t \in E!Threads : BatchKnows(t)
-----------------------------------------------------------------------------
(***************************************************************************)
(* Tables.                                                                 *)
(***************************************************************************)

\* The rows of a table stay, with number and kind, and numbers stay unique.
TableStep(old, new) ==
    /\ IsTable(new) /\ UniqueIn(new)
    /\ \A i \in DOMAIN old : /\ i \in DOMAIN new
                             /\ new[i].inv = old[i].inv
                             /\ new[i].kind = old[i].kind

LEMMA TableDomain ==
    ASSUME NEW table, IsTable(table)
    PROVE  /\ Len(table) \in Nat /\ DOMAIN table = 1..Len(table)
           /\ table \in Seq({table[i] : i \in DOMAIN table})
<1>1. table \in Seq({table[i] : i \in DOMAIN table})
      BY DEF IsTable
<1> QED BY <1>1, LenProperties

LEMMA IdsAreNumbers ==
    ASSUME Tables, NEW tn \in Tenants, NEW i \in DOMAIN rows[tn]
    PROVE  i \in Nat
<1>1. IsTable(rows[tn])
      BY DEF Tables
<1>2. Len(rows[tn]) \in Nat /\ DOMAIN rows[tn] = 1..Len(rows[tn])
      BY <1>1, TableDomain
<1> QED BY <1>2

LEMMA SameTable ==
    ASSUME NEW old, IsTable(old), UniqueIn(old)
    PROVE  TableStep(old, old)
BY DEF TableStep

\* Rows that change in other columns.
LEMMA EditedTable ==
    ASSUME NEW old, IsTable(old), UniqueIn(old),
           NEW new, new = [i \in DOMAIN old |-> new[i]],
           \A i \in DOMAIN old : /\ IsRow(new[i])
                                 /\ new[i].inv = old[i].inv
                                 /\ new[i].kind = old[i].kind
    PROVE  TableStep(old, new) /\ DOMAIN new = DOMAIN old
<1>1. Len(old) \in Nat /\ DOMAIN old = 1..Len(old) /\ DOMAIN new = DOMAIN old
      BY TableDomain
<1>2. new \in Seq({new[i] : i \in DOMAIN new})
  <2>1. new \in [1..Len(old) -> {new[i] : i \in DOMAIN new}]
        BY <1>1
  <2> QED BY <1>1, <2>1, SeqDef
<1>3. \A i \in DOMAIN new : /\ IsRow(new[i]) /\ new[i].inv = old[i].inv
                           /\ new[i].kind = old[i].kind
      BY <1>1
<1>4. IsTable(new)
      BY <1>2, <1>3 DEF IsTable
<1>5. UniqueIn(new)
      BY <1>1, <1>3 DEF UniqueIn
<1> QED BY <1>1, <1>3, <1>4, <1>5 DEF TableStep

\* A new row with a number of its own.
LEMMA AppendedTable ==
    ASSUME NEW old, IsTable(old), UniqueIn(old), NEW row, IsRow(row),
           ~Has(old, row.inv, row.kind)
    PROVE  /\ TableStep(old, Append(old, row))
           /\ DOMAIN Append(old, row) = DOMAIN old \cup {Len(old) + 1}
           /\ Len(old) + 1 \notin DOMAIN old
           /\ Append(old, row)[Len(old) + 1] = row
           /\ \A i \in DOMAIN old : Append(old, row)[i] = old[i]
<1> DEFINE new == Append(old, row)
           n == Len(old) + 1
<1>1. Len(old) \in Nat /\ DOMAIN old = 1..Len(old)
      BY TableDomain
<1>2. old \in Seq({old[i] : i \in DOMAIN old} \cup {row})
  <2>1. old \in Seq({old[i] : i \in DOMAIN old})
        BY TableDomain
  <2> QED BY <2>1
<1>3. /\ new \in Seq({old[i] : i \in DOMAIN old} \cup {row})
      /\ Len(new) = Len(old) + 1 /\ new[n] = row
      /\ \A i \in 1..Len(old) : new[i] = old[i]
      BY <1>1, <1>2, AppendProperties
<1>4. DOMAIN new = 1..n
      BY <1>1, <1>3, LenProperties
<1> HIDE DEF new
<1>5. /\ DOMAIN new = DOMAIN old \cup {n} /\ n \notin DOMAIN old
      /\ \A i \in DOMAIN old : new[i] = old[i]
      BY <1>1, <1>3, <1>4
<1>6. IsTable(new)
  <2>1. new \in [1..n -> {new[i] : i \in DOMAIN new}]
    <3>1. new = [i \in 1..n |-> new[i]]
          BY <1>3, <1>4
    <3> HIDE DEF n
    <3> QED BY <1>4, <3>1
  <2>2. new \in Seq({new[i] : i \in DOMAIN new})
        BY <1>1, <2>1, SeqDef
  <2> HIDE DEF n
  <2> QED BY <1>3, <1>5, <2>2 DEF IsTable
<1>7. UniqueIn(new)
  <2> HIDE DEF n
  <2> QED BY <1>3, <1>5 DEF UniqueIn, Has
<1>8. TableStep(old, new)
  <2> HIDE DEF n
  <2> QED BY <1>5, <1>6, <1>7 DEF TableStep
<1> QED BY <1>3, <1>5, <1>8 DEF new
-----------------------------------------------------------------------------
(***************************************************************************)
(* The steps that write rows.                                              *)
(***************************************************************************)

\* A row with another status, delivery or retry_count.
SameRow(new, row) ==
    IsRow(new) /\ new.inv = row.inv /\ new.kind = row.kind

LEMMA EditedColumns ==
    ASSUME NEW row, IsRow(row),
           NEW new, new = [c \in RowColumns |-> new[c]],
           new.inv = row.inv, new.kind = row.kind
    PROVE  SameRow(new, row)
BY DEF SameRow, IsRow

LEMMA EditedRow ==
    ASSUME NEW row, IsRow(row), NEW value
    PROVE  /\ SameRow([row EXCEPT !.status = value], row)
           /\ [row EXCEPT !.status = value].status = value
           /\ SameRow([row EXCEPT !.delivery = value], row)
           /\ [row EXCEPT !.delivery = value].status = row.status
<1>1. DOMAIN row = RowColumns /\ row.inv \in Invoices /\ row.kind \in Kinds
      BY DEF IsRow
<1>2. ASSUME NEW new, \/ new = [row EXCEPT !.status = value]
                      \/ new = [row EXCEPT !.delivery = value]
      PROVE  SameRow(new, row)
  <2>1. new.inv = row.inv /\ new.kind = row.kind
        BY <1>1, <1>2 DEF RowColumns
  <2>2. new = [c \in RowColumns |-> new[c]]
        BY <1>1, <1>2
  <2> QED BY <2>1, <2>2, EditedColumns
<1>3. /\ [row EXCEPT !.status = value].status = value
      /\ [row EXCEPT !.delivery = value].status = row.status
      BY <1>1 DEF RowColumns
<1> QED BY <1>2, <1>3

LEMMA RetriedRow ==
    ASSUME NEW row, IsRow(row), NEW value, NEW count
    PROVE  /\ SameRow(Retried(row, value, count), row)
           /\ Retried(row, value, count).status = row.status
<1> DEFINE new == Retried(row, value, count)
<1>1. DOMAIN row = RowColumns
      BY DEF IsRow
<1>2. new.inv = row.inv /\ new.kind = row.kind /\ new.status = row.status
      BY <1>1 DEF Retried, RowColumns
<1>3. new = [c \in RowColumns |-> new[c]]
      BY <1>1 DEF Retried
<1> HIDE DEF new
<1>4. SameRow(new, row)
      BY <1>2, <1>3, EditedColumns
<1> QED BY <1>2, <1>4 DEF new

\* A step that writes one table.
Writes(tn) ==
    /\ tn \in Tenants /\ Tables'
    /\ TableStep(rows[tn], rows'[tn])
    /\ \A o \in Tenants \ {tn} : rows'[o] = rows[o]

LEMMA WritesTable ==
    ASSUME Tables, NEW tn \in Tenants, NEW new, TableStep(rows[tn], new),
           rows' = [rows EXCEPT ![tn] = new]
    PROVE  Writes(tn) /\ rows'[tn] = new
<1>1. /\ DOMAIN rows = Tenants /\ rows'[tn] = new
      /\ \A o \in Tenants \ {tn} : rows'[o] = rows[o]
      /\ rows' = [o \in Tenants |-> rows'[o]]
      BY DEF Tables
<1>2. \A o \in Tenants : IsTable(rows'[o]) /\ UniqueIn(rows'[o])
      BY <1>1 DEF Tables, TableStep
<1> QED BY <1>1, <1>2 DEF Tables, Writes

LEMMA RequestInserts ==
    ASSUME BaseInv, NEW t \in Callers, Inserts(t)
    PROVE  LET tn == call[t].tenant
               n == Len(rows[tn]) + 1
           IN  /\ Writes(tn)
               /\ DOMAIN rows'[tn] = DOMAIN rows[tn] \cup {n}
               /\ n \notin DOMAIN rows[tn]
               /\ rows'[tn][n] = Row(call[t].inv, call[t].kind, call[t].prev)
               /\ \A i \in DOMAIN rows[tn] :
                     \/ rows'[tn][i] = rows[tn][i]
                     \/ /\ call[t].kind = "anulacion"
                        /\ rows[tn][i].inv = call[t].inv
                        /\ rows[tn][i].kind = "alta"
                        /\ rows'[tn][i] = [rows[tn][i] EXCEPT !.status = "ANULADA"]
<1> DEFINE tn == call[t].tenant
           old == rows[tn]
           base == IF call[t].kind = "anulacion"
                   THEN Cancelled(old, call[t].inv) ELSE old
           row == Row(call[t].inv, call[t].kind, call[t].prev)
<1>1. /\ tn \in Tenants /\ call[t].inv \in Invoices /\ call[t].kind \in Kinds
      /\ IsTable(old) /\ UniqueIn(old) /\ Tables
      BY DEF BaseInv, CallOK, Tables, Inserts, Insert
<1>2. /\ rows' = [rows EXCEPT ![tn] = Append(base, row)]
      /\ ~Has(old, call[t].inv, call[t].kind)
      BY DEF Inserts, Insert, Inserted
<1>3. IsRow(row) /\ row.inv = call[t].inv /\ row.kind = call[t].kind
      BY <1>1 DEF Row, IsRow, RowColumns
<1> HIDE DEF row
<1>4. /\ TableStep(old, base) /\ DOMAIN base = DOMAIN old
      /\ \A i \in DOMAIN old :
            \/ base[i] = old[i]
            \/ /\ call[t].kind = "anulacion"
               /\ old[i].inv = call[t].inv /\ old[i].kind = "alta"
               /\ base[i] = [old[i] EXCEPT !.status = "ANULADA"]
  <2>1. CASE call[t].kind # "anulacion"
        BY <1>1, <2>1, SameTable
  <2>2. CASE call[t].kind = "anulacion"
    <3> DEFINE new == Cancelled(old, call[t].inv)
    <3>1. new = [i \in DOMAIN old |-> new[i]]
          BY DEF Cancelled
    <3>2. \A i \in DOMAIN old :
              new[i] = IF old[i].inv = call[t].inv /\ old[i].kind = "alta"
                       THEN [old[i] EXCEPT !.status = "ANULADA"] ELSE old[i]
          BY DEF Cancelled
    <3>3. base = new
          BY <2>2
    <3> HIDE DEF new, base, old
    <3>4. ASSUME NEW i \in DOMAIN old
          PROVE  /\ IsRow(new[i]) /\ new[i].inv = old[i].inv
                 /\ new[i].kind = old[i].kind
      <4>1. IsRow(old[i])
            BY <1>1 DEF IsTable
      <4>2. SameRow([old[i] EXCEPT !.status = "ANULADA"], old[i])
            BY <4>1, EditedRow
      <4> QED BY <3>2, <4>1, <4>2 DEF SameRow
    <3>5. TableStep(old, new) /\ DOMAIN new = DOMAIN old
          BY <1>1, <3>1, <3>4, EditedTable
    <3> QED BY <2>2, <3>2, <3>3, <3>5
  <2> QED BY <2>1, <2>2
<1>5. IsTable(base) /\ UniqueIn(base) /\ Len(base) = Len(old)
      /\ ~Has(base, row.inv, row.kind)
  <2> HIDE DEF base, old
  <2>1. IsTable(base) /\ UniqueIn(base)
        BY <1>4 DEF TableStep
  <2>2. Len(base) = Len(old)
        BY <1>1, <1>4, <2>1, TableDomain
  <2> QED BY <1>2, <1>3, <1>4, <2>1, <2>2 DEF Has, TableStep
<1> DEFINE new == Append(base, row)
           n == Len(old) + 1
<1>6. /\ TableStep(base, new) /\ DOMAIN new = DOMAIN old \cup {n}
      /\ n \notin DOMAIN old /\ new[n] = row
      /\ \A i \in DOMAIN old : new[i] = base[i]
  <2> HIDE DEF base, old
  <2> QED BY <1>3, <1>4, <1>5, AppendedTable
<1>7. rows' = [rows EXCEPT ![tn] = new]
      BY <1>2
<1> HIDE DEF new, base, n
<1>8. TableStep(old, new)
  <2> HIDE DEF old
  <2> QED BY <1>4, <1>6 DEF TableStep
<1>9. Writes(tn) /\ rows'[tn] = new
      BY <1>1, <1>7, <1>8, WritesTable
<1> QED BY <1>4, <1>6, <1>9 DEF n, row

LEMMA RequestUpdates ==
    ASSUME BaseInv, NEW t \in Callers, Update(t)
    PROVE  LET tn == call[t].tenant IN
           /\ Writes(tn) /\ DOMAIN rows'[tn] = DOMAIN rows[tn]
           /\ \A i \in DOMAIN rows[tn] :
                 /\ rows'[tn][i].status = rows[tn][i].status
                 /\ \/ rows'[tn][i] = rows[tn][i]
                    \/ /\ rows[tn][i].inv = call[t].inv
                       /\ rows[tn][i].kind = call[t].kind
<1> DEFINE tn == call[t].tenant
           old == rows[tn]
           new == Answered(old, call[t].inv, call[t].kind, answer[t])
<1>1. tn \in Tenants /\ IsTable(old) /\ UniqueIn(old) /\ Tables
      BY DEF BaseInv, CallOK, Tables, Update
<1>2. rows' = [rows EXCEPT ![tn] = new]
      BY DEF Update
<1>3. new = [i \in DOMAIN old |-> new[i]]
      BY DEF Answered
<1>4. \A i \in DOMAIN old :
          new[i] = IF old[i].inv = call[t].inv /\ old[i].kind = call[t].kind
                   THEN [old[i] EXCEPT !.delivery = answer[t]] ELSE old[i]
      BY DEF Answered
<1> HIDE DEF new
<1>5. \A i \in DOMAIN old : /\ IsRow(new[i]) /\ new[i].inv = old[i].inv
                            /\ new[i].kind = old[i].kind
                            /\ new[i].status = old[i].status
  <2>1. ASSUME NEW i \in DOMAIN old
        PROVE  /\ IsRow(new[i]) /\ new[i].inv = old[i].inv
               /\ new[i].kind = old[i].kind /\ new[i].status = old[i].status
    <3>1. IsRow(old[i])
          BY <1>1 DEF IsTable
    <3> HIDE DEF old
    <3>2. /\ SameRow([old[i] EXCEPT !.delivery = answer[t]], old[i])
          /\ [old[i] EXCEPT !.delivery = answer[t]].status = old[i].status
          BY <3>1, EditedRow
    <3> QED BY <1>4, <3>1, <3>2 DEF SameRow
  <2> QED BY <2>1
<1>6. TableStep(old, new) /\ DOMAIN new = DOMAIN old
  <2> HIDE DEF old
  <2> QED BY <1>1, <1>3, <1>5, EditedTable
<1>7. Writes(tn) /\ rows'[tn] = new
      BY <1>1, <1>2, <1>6, WritesTable
<1> QED BY <1>4, <1>5, <1>6, <1>7

LEMMA WorkerUpdates ==
    ASSUME BaseInv, NEW w \in Workers, NEW id, RecordRetry(w, id)
    PROVE  LET tn == DefaultTenant IN
           /\ Writes(tn) /\ DOMAIN rows'[tn] = DOMAIN rows[tn]
           /\ \A i \in DOMAIN rows[tn] :
                 /\ rows'[tn][i].status = rows[tn][i].status
                 /\ i # id => rows'[tn][i] = rows[tn][i]
<1> DEFINE tn == DefaultTenant
           old == rows[tn]
           row == Retried(old[id], answer[w], todo[w][id].retries + 1)
           new == [old EXCEPT ![id] = row]
<1>1. tn \in Tenants /\ IsTable(old) /\ UniqueIn(old) /\ Tables
      BY ConstantsAssumption DEF BaseInv, Tables
<1>2. rows' = [rows EXCEPT ![tn] = new]
      BY <1>1 DEF RecordRetry
<1>3. /\ new = [i \in DOMAIN old |-> new[i]]
      /\ \A i \in DOMAIN old : new[i] = IF i = id THEN row ELSE old[i]
      BY <1>1
<1> HIDE DEF new
<1>4. ASSUME NEW i \in DOMAIN old
      PROVE  SameRow(new[i], old[i]) /\ new[i].status = old[i].status
  <2>1. IsRow(old[i])
        BY <1>1 DEF IsTable
  <2>2. ASSUME i = id
        PROVE  SameRow(row, old[i]) /\ row.status = old[i].status
    <3>1. row = Retried(old[i], answer[w], todo[w][id].retries + 1)
          BY <2>2
    <3> HIDE DEF row, old
    <3> QED BY <2>1, <3>1, RetriedRow
  <2> HIDE DEF row, old
  <2> QED BY <1>3, <2>1, <2>2 DEF SameRow
<1> HIDE DEF row
<1>5. TableStep(old, new) /\ DOMAIN new = DOMAIN old
  <2> HIDE DEF old
  <2> QED BY <1>1, <1>3, <1>4, EditedTable DEF SameRow
<1>6. Writes(tn) /\ rows'[tn] = new
      BY <1>1, <1>2, <1>5, WritesTable
<1> QED BY <1>3, <1>4, <1>5, <1>6

LEMMA EmissionInserts ==
    ASSUME BaseInv, NEW t \in E!Threads, E!Insert(t), rows' # rows
    PROVE  LET tn == cmd[t].tenant
               n == Len(rows[tn]) + 1
           IN  /\ Writes(tn)
               /\ DOMAIN rows'[tn] = DOMAIN rows[tn] \cup {n}
               /\ n \notin DOMAIN rows[tn]
               /\ rows'[tn][n].kind = "alta"
               /\ \A i \in DOMAIN rows[tn] : rows'[tn][i] = rows[tn][i]
<1> DEFINE tn == cmd[t].tenant
           old == rows[tn]
           row == E!Row(cmd[t].inv, cmd[t].prev, cmd[t].status)
           new == Append(old, row)
           n == Len(old) + 1
<1>1. /\ rows' = [rows EXCEPT ![tn] = new]
      /\ ~E!NumberUsed(old, cmd[t].inv)
      /\ cmd[t].inv \in Invoices
      BY DEF E!Insert, BaseInv, CmdOK
<1>2. tn \in Tenants /\ IsTable(old) /\ UniqueIn(old) /\ Tables
      BY <1>1 DEF BaseInv, Tables
<1>3. IsRow(row) /\ row.inv = cmd[t].inv /\ row.kind = "alta"
      BY <1>1 DEF E!Row, IsRow, RowColumns, Kinds
<1> HIDE DEF row
<1>4. ~Has(old, row.inv, row.kind)
      BY <1>1, <1>3 DEF E!NumberUsed, Has
<1>5. /\ TableStep(old, new) /\ DOMAIN new = DOMAIN old \cup {n}
      /\ n \notin DOMAIN old /\ new[n] = row
      /\ \A i \in DOMAIN old : new[i] = old[i]
  <2> HIDE DEF old
  <2> QED BY <1>2, <1>3, <1>4, AppendedTable
<1> HIDE DEF new, n
<1>6. Writes(tn) /\ rows'[tn] = new
      BY <1>1, <1>2, <1>5, WritesTable
<1> QED BY <1>3, <1>5, <1>6 DEF n

LEMMA EmissionCommits ==
    ASSUME BaseInv, NEW t \in E!Threads, E!Commit(t), rows' # rows
    PROVE  LET tn == cmd[t].tenant IN
           /\ Writes(tn) /\ DOMAIN rows'[tn] = DOMAIN rows[tn]
           /\ \A i \in DOMAIN rows[tn] :
                 IF i \in DOMAIN patch[t]
                 THEN rows'[tn][i].status = patch[t][i]
                 ELSE rows'[tn][i] = rows[tn][i]
<1> DEFINE tn == cmd[t].tenant
           old == rows[tn]
           new == E!Patched(old, patch[t])
<1>1. rows' = [rows EXCEPT ![tn] = new]
      BY DEF E!Commit
<1>2. tn \in Tenants /\ IsTable(old) /\ UniqueIn(old) /\ Tables
      BY <1>1 DEF BaseInv, Tables
<1>3. /\ new = [i \in DOMAIN old |-> new[i]]
      /\ \A i \in DOMAIN old :
            new[i] = IF i \in DOMAIN patch[t]
                     THEN [old[i] EXCEPT !.status = patch[t][i]] ELSE old[i]
      BY DEF E!Patched
<1> HIDE DEF new
<1>4. ASSUME NEW i \in DOMAIN old
      PROVE  /\ SameRow(new[i], old[i])
             /\ IF i \in DOMAIN patch[t] THEN new[i].status = patch[t][i]
                ELSE new[i] = old[i]
  <2>1. IsRow(old[i])
        BY <1>2 DEF IsTable
  <2>2. /\ SameRow([old[i] EXCEPT !.status = patch[t][i]], old[i])
        /\ [old[i] EXCEPT !.status = patch[t][i]].status = patch[t][i]
        BY <2>1, EditedRow
  <2> HIDE DEF old
  <2> QED BY <1>3, <2>1, <2>2 DEF SameRow
<1>5. TableStep(old, new) /\ DOMAIN new = DOMAIN old
  <2> HIDE DEF old
  <2> QED BY <1>2, <1>3, <1>4, EditedTable DEF SameRow
<1>6. Writes(tn) /\ rows'[tn] = new
      BY <1>1, <1>2, <1>5, WritesTable
<1> QED BY <1>4, <1>5, <1>6

\* Emission writes rows in an INSERT or a COMMIT.
LEMMA EmissionWrites ==
    ASSUME EmissionStep
    PROVE  UNCHANGED rows \/ \E t \in E!Threads : E!Insert(t) \/ E!Commit(t)
<1>1. ASSUME NEW t \in Emitters, E!EmitterStep(t)
      PROVE  UNCHANGED rows \/ E!Insert(t)
      BY <1>1 DEF E!EmitterStep, E!Begin, E!Invalid, E!Send, E!Raises
<1>2. ASSUME NEW t \in Retriers, E!RetrierStep(t)
      PROVE  UNCHANGED rows \/ E!Commit(t)
      BY <1>2 DEF E!RetrierStep, E!BeginRetry, E!Resend, E!BatchRaises
<1>3. ASSUME NEW t \in Emitters, NEW tn \in Tenants, NEW inv \in Invoices,
             NEW verifactu \in BOOLEAN, E!Request(t, tn, inv, verifactu)
      PROVE  UNCHANGED rows
      BY <1>3 DEF E!Request
<1> QED BY <1>1, <1>2, <1>3 DEF EmissionStep, E!Threads

\* Every step that writes rows is one of these five.
LEMMA WritersRows ==
    ASSUME [WritersNext]_allVars
    PROVE  \/ UNCHANGED rows
           \/ \E t \in Callers : Inserts(t) \/ Update(t)
           \/ \E w \in Workers : \E id \in DOMAIN todo[w] :
                  IsNext(w, id) /\ RecordRetry(w, id)
           \/ \E t \in E!Threads : (E!Insert(t) \/ E!Commit(t)) /\ rows' # rows
<1>1. RegisterStep => [Next]_vars
      BY DEF RegisterStep, Next
<1>2. CASE EmissionStep
      BY <1>2, EmissionWrites
<1>3. CASE UNCHANGED allVars
      BY <1>3 DEF allVars
<1> QED BY <1>1, <1>2, <1>3, WritesRows DEF WritersNext

LEMMA TablesKept ==
    ASSUME BaseInv, [WritersNext]_allVars
    PROVE  Tables' /\ \A tn \in Tenants : TableStep(rows[tn], rows'[tn])
<1>1. CASE UNCHANGED rows
      BY <1>1, SameTable DEF BaseInv, Tables
<1>2. ASSUME NEW tn, Writes(tn)
      PROVE  Tables' /\ \A o \in Tenants : TableStep(rows[o], rows'[o])
      BY <1>2, SameTable DEF BaseInv, Tables, Writes
<1>3. ASSUME NEW t \in Callers, Inserts(t) \/ Update(t)
      PROVE  \E tn \in Tenants : Writes(tn)
  <2>1. Writes(call[t].tenant)
        BY <1>3, RequestInserts, RequestUpdates
  <2> QED BY <2>1 DEF Writes
<1>4. ASSUME NEW w \in Workers, NEW id \in DOMAIN todo[w], RecordRetry(w, id)
      PROVE  \E tn \in Tenants : Writes(tn)
  <2>1. Writes(DefaultTenant)
        BY <1>4, WorkerUpdates
  <2> QED BY <2>1 DEF Writes
<1>5. ASSUME NEW t \in E!Threads, E!Insert(t) \/ E!Commit(t), rows' # rows
      PROVE  \E tn \in Tenants : Writes(tn)
  <2>1. Writes(cmd[t].tenant)
        BY <1>5, EmissionInserts, EmissionCommits
  <2> QED BY <2>1 DEF Writes
<1> QED BY <1>1, <1>2, <1>3, <1>4, <1>5, WritersRows
-----------------------------------------------------------------------------
(***************************************************************************)
(* What the threads of both writers hold.                                  *)
(***************************************************************************)

LEMMA RequestOwnCall ==
    ASSUME Arrays, NEW t \in Callers, CallOK(t), CallerStep(t)
    PROVE  CallOK(t)'
<1>0. t \in Threads /\ DOMAIN pc = Threads /\ DOMAIN call = Threads
      BY DEF Threads, Arrays, ThreadArrays
<1>1. CASE Leave(t)
  <2>1. pc'[t] = "idle" /\ call'[t] = NoCall
        BY <1>0, <1>1 DEF Leave
  <2> QED BY <2>1 DEF CallOK, NoCall, CallFields
<1>2. CASE pc[t] # "idle" /\ UNCHANGED call
      BY <1>2 DEF CallOK
<1>3. CASE Prepare(t)
  <2>1. call'[t] = [call[t] EXCEPT !.prev = ReadPrev(t)] /\ pc[t] # "idle"
        BY <1>0, <1>3 DEF Prepare
  <2> QED BY <2>1 DEF CallOK, CallFields
<1>4. CASE Locked(t) /\ pc[t] # "idle"
  <2>1. CASE Leave(t)
        BY <1>1, <2>1
  <2>2. CASE ~Leave(t)
    <3>1. call'[t] = [call[t] EXCEPT !.attempt = call[t].attempt + 1, !.prev = Genesis]
          BY <1>0, <1>4, <2>2 DEF Locked
    <3> QED BY <1>4, <3>1 DEF CallOK, CallFields
  <2> QED BY <2>1, <2>2
<1>5. \/ Leave(t)
      \/ pc[t] # "idle" /\ UNCHANGED call
      \/ Prepare(t)
      \/ pc[t] # "idle" /\ Locked(t)
  <2>1. Refuse(t) \/ DeliveryRaises(t) \/ Update(t) => Leave(t)
        BY DEF Refuse, DeliveryRaises, Update
  <2>2. Enter(t) \/ WriteFile(t) \/ SendNew(t) => pc[t] # "idle" /\ UNCHANGED call
        BY DEF Enter, WriteFile, SendNew
  <2>3. Insert(t) => Leave(t) \/ (pc[t] # "idle" /\ UNCHANGED call)
        BY DEF Insert
  <2>4. InsertLocked(t) \/ UpdateLocked(t) => Locked(t) /\ pc[t] # "idle"
        BY DEF InsertLocked, UpdateLocked
  <2> QED BY <2>1, <2>2, <2>3, <2>4 DEF CallerStep
<1> QED BY <1>1, <1>2, <1>3, <1>4, <1>5

LEMMA ArraysStep ==
    ASSUME Arrays, [WritersNext]_allVars
    PROVE  Arrays'
<1>1. ASSUME NEW t \in Callers, CallerStep(t)
      PROVE  ThreadArrays'
      BY <1>1 DEF Arrays, ThreadArrays, CallerStep, Enter, Prepare, Refuse, Insert,
                  InsertLocked, WriteFile, DeliveryRaises, SendNew, Send, Update,
                  UpdateLocked, Locked, Leave, Goto
<1>2. ASSUME NEW w \in Workers, WorkerStep(w)
      PROVE  ThreadArrays'
      BY <1>2 DEF Arrays, ThreadArrays, WorkerStep, Scan, Resend, Send, SkipMissing,
                  RecordRetry, RetryFails, NextItem, EndScan, Leave, Goto
<1>3. CASE RegisterStep
      BY <1>1, <1>2, <1>3 DEF RegisterStep, Request, Goto, Arrays, ThreadArrays,
                              emissionVars
<1>4. CASE EmissionStep
  <2>1. ASSUME NEW t \in Emitters, E!EmitterStep(t)
        PROVE  /\ DOMAIN epc' = E!Threads /\ DOMAIN cmd' = E!Threads
               /\ DOMAIN found' = E!Threads /\ DOMAIN patch' = E!Threads
        BY <2>1 DEF Arrays, E!EmitterStep, E!Begin, E!Invalid, E!Send, E!Insert,
                    E!Raises, E!Leave, E!Goto
  <2>2. ASSUME NEW t \in Retriers, E!RetrierStep(t)
        PROVE  /\ DOMAIN epc' = E!Threads /\ DOMAIN cmd' = E!Threads
               /\ DOMAIN found' = E!Threads /\ DOMAIN patch' = E!Threads
        BY <2>2 DEF Arrays, E!RetrierStep, E!BeginRetry, E!Resend, E!Commit,
                    E!BatchRaises, E!Leave, E!Goto
  <2> QED BY <1>4, <2>1, <2>2 DEF EmissionStep, E!Request, E!Goto, Arrays,
                                  ThreadArrays, registerVars
<1>5. CASE UNCHANGED allVars
      BY <1>5 DEF allVars, registerVars, emissionVars, Arrays, ThreadArrays
<1> QED BY <1>3, <1>4, <1>5 DEF WritersNext

LEMMA CallsStep ==
    ASSUME BaseInv, [WritersNext]_allVars, NEW u \in Callers
    PROVE  CallOK(u)'
<1>0. /\ CallOK(u) /\ Arrays /\ u \in Threads
      /\ Callers \subseteq Threads /\ Workers \subseteq Threads
      BY DEF BaseInv, Threads
<1>1. CASE call'[u] = call[u] /\ pc'[u] = pc[u]
      BY <1>0, <1>1 DEF CallOK
<1>2. CASE RegisterStep
  <2>1. ASSUME NEW t \in Callers, NEW tn \in Tenants, NEW inv \in Invoices,
               NEW kind \in Kinds, Request(t, tn, inv, kind)
        PROVE  CallOK(u)'
    <3>1. DOMAIN call = Threads /\ DOMAIN pc = Threads
          BY <1>0 DEF Arrays, ThreadArrays
    <3>2. CASE u = t
      <4>1. call'[u] = [tenant |-> tn, inv |-> inv, kind |-> kind,
                        prev |-> Genesis, attempt |-> 1]
            BY <1>0, <2>1, <3>1, <3>2 DEF Request
      <4> QED BY <4>1 DEF CallOK, CallFields
    <3>3. CASE u # t
          BY <1>0, <1>1, <2>1, <3>1, <3>3 DEF Request, Goto
    <3> QED BY <3>2, <3>3
  <2>2. ASSUME NEW t \in Threads, CallerStep(t) \/ WorkerStep(t), u # t
        PROVE  CallOK(u)'
        BY <1>0, <1>1, <2>2, OtherSame DEF Arrays, SameCall
  <2>3. ASSUME CallerStep(u) PROVE CallOK(u)'
        BY <1>0, <2>3, RequestOwnCall
  <2>4. u \notin Workers
        BY ConstantsAssumption
  <2> QED BY <1>0, <1>2, <2>1, <2>2, <2>3, <2>4 DEF RegisterStep
<1>3. CASE EmissionStep \/ UNCHANGED allVars
      BY <1>1, <1>3 DEF EmissionStep, allVars, registerVars
<1> QED BY <1>2, <1>3 DEF WritersNext

LEMMA CmdsStep ==
    ASSUME BaseInv, [WritersNext]_allVars, NEW u \in E!Threads
    PROVE  CmdOK(u)'
<1>0. /\ CmdOK(u) /\ DOMAIN epc = E!Threads /\ DOMAIN cmd = E!Threads
      BY DEF BaseInv, Arrays
<1>1. CASE cmd'[u] = cmd[u] /\ epc'[u] = epc[u]
      BY <1>0, <1>1 DEF CmdOK
<1>2. ASSUME NEW t, E!Leave(t) PROVE CmdOK(u)'
  <2>1. CASE u = t
    <3>1. cmd'[u] = E!NoCmd /\ epc'[u] = "idle"
          BY <1>0, <1>2, <2>1 DEF E!Leave
    <3> QED BY <3>1 DEF CmdOK, E!NoCmd, CmdFields
  <2>2. CASE u # t
        BY <1>0, <1>1, <1>2, <2>2 DEF E!Leave
  <2> QED BY <2>1, <2>2
<1>3. ASSUME NEW t \in Emitters, NEW tn \in Tenants, NEW inv \in Invoices,
             NEW verifactu \in BOOLEAN, E!Request(t, tn, inv, verifactu)
      PROVE  CmdOK(u)'
  <2>1. CASE u = t
    <3>1. cmd'[u] = [E!NoCmd EXCEPT !.tenant = tn, !.inv = inv, !.verifactu = verifactu]
          BY <1>0, <1>3, <2>1 DEF E!Request
    <3> QED BY <3>1 DEF CmdOK, E!NoCmd, CmdFields
  <2>2. CASE u # t
        BY <1>0, <1>1, <1>3, <2>2 DEF E!Request, E!Goto
  <2> QED BY <2>1, <2>2
<1>4. ASSUME NEW t, E!Begin(t) PROVE CmdOK(u)'
  <2>1. CASE u = t
    <3>1. /\ cmd'[u] = [cmd[u] EXCEPT !.prev = E!SeriesHash(cmd[u].tenant, cmd[u].inv[1])]
          /\ epc[u] = "begin"
          BY <1>0, <1>4, <2>1 DEF E!Begin
    <3> QED BY <1>0, <3>1 DEF CmdOK, CmdFields
  <2>2. CASE u # t
        BY <1>0, <1>1, <1>4, <2>2 DEF E!Begin, E!Goto
  <2> QED BY <2>1, <2>2
<1>5. ASSUME NEW t, E!Send(t) PROVE CmdOK(u)'
  <2>1. CASE u = t
    <3>1. PICK outcome \in E!Outcomes :
              cmd' = [cmd EXCEPT ![t].status = E!StatusAfter(outcome)]
          BY <1>5 DEF E!Send
    <3>2. /\ cmd'[u] = [cmd[u] EXCEPT !.status = E!StatusAfter(outcome)]
          /\ epc[u] = "send"
          BY <1>0, <1>5, <2>1, <3>1 DEF E!Send
    <3> QED BY <1>0, <3>2 DEF CmdOK, CmdFields
  <2>2. CASE u # t
        BY <1>0, <1>1, <1>5, <2>2 DEF E!Send, E!Goto
  <2> QED BY <2>1, <2>2
<1>6. ASSUME NEW t, NEW tn \in Tenants, E!BeginRetry(t, tn) PROVE CmdOK(u)'
  <2>1. CASE u = t
    <3>1. cmd'[u] = [cmd[u] EXCEPT !.tenant = tn] /\ epc'[u] = "resend"
          BY <1>0, <1>6, <2>1 DEF E!BeginRetry, E!Goto
    <3> QED BY <1>0, <3>1 DEF CmdOK, CmdFields
  <2>2. CASE u # t
        BY <1>0, <1>1, <1>6, <2>2 DEF E!BeginRetry, E!Goto
  <2> QED BY <2>1, <2>2
<1>7. ASSUME NEW t, E!Resend(t) PROVE CmdOK(u)'
      BY <1>1, <1>7 DEF E!Resend
<1>8. ASSUME NEW t \in Emitters, E!EmitterStep(t) PROVE CmdOK(u)'
      BY <1>2, <1>4, <1>5, <1>8 DEF E!EmitterStep, E!Invalid, E!Insert, E!Raises
<1>9. ASSUME NEW t \in Retriers, E!RetrierStep(t) PROVE CmdOK(u)'
      BY <1>2, <1>6, <1>7, <1>9 DEF E!RetrierStep, E!Commit, E!BatchRaises
<1>10. CASE RegisterStep \/ UNCHANGED allVars
       BY <1>1, <1>10 DEF RegisterStep, allVars, emissionVars
<1> QED BY <1>3, <1>8, <1>9, <1>10 DEF WritersNext, EmissionStep

\* The tables, and what a thread of either writer was asked for, keep their
\* shape, and numbers stay unique.
THEOREM BaseInvariant == WritersSpec => []BaseInv
<1>1. WritersInit => BaseInv
  <2> SUFFICES ASSUME WritersInit PROVE BaseInv
      OBVIOUS
  <2>1. Arrays
        BY DEF WritersInit, Init, E!Init, Arrays, ThreadArrays
  <2>2. Tables
    <3>1. IsTable(<<>>) /\ UniqueIn(<<>>)
          BY DEF IsTable, UniqueIn
    <3> QED BY <3>1 DEF WritersInit, Init, Tables
  <2>3. \A t \in Callers : CallOK(t)
        BY DEF WritersInit, Init, CallOK, NoCall, CallFields, Threads
  <2>4. \A t \in E!Threads : CmdOK(t)
        BY DEF WritersInit, E!Init, CmdOK, E!NoCmd, CmdFields
  <2> QED BY <2>1, <2>2, <2>3, <2>4 DEF BaseInv
<1>2. BaseInv /\ [WritersNext]_allVars => BaseInv'
  <2> SUFFICES ASSUME BaseInv, [WritersNext]_allVars PROVE BaseInv'
      OBVIOUS
  <2>1. Arrays' /\ Tables'
        BY ArraysStep, TablesKept DEF BaseInv
  <2>2. (\A t \in Callers : CallOK(t))'
        BY CallsStep
  <2>3. (\A t \in E!Threads : CmdOK(t))'
        BY CmdsStep
  <2> QED BY <2>1, <2>2, <2>3 DEF BaseInv
<1> QED BY <1>1, <1>2, PTL DEF WritersSpec

\* register_invoice, cancel_invoice and emitir_factura_legal never leave two
\* rows of one number and kind in the table of a tenant.
THEOREM AlwaysUnique == WritersSpec => []NumbersUnique
<1>1. BaseInv => NumbersUnique
      BY DEF BaseInv, Tables, UniqueIn, NumbersUnique
<1> QED BY <1>1, BaseInvariant, PTL
-----------------------------------------------------------------------------
(***************************************************************************)
(* Whose row a row is.                                                     *)
(***************************************************************************)

LEMMA RegisterStatuses ==
    {"ALTA", "ANULADA"} \cap E!Status = {}
BY DEF E!Status

LEMMA UniqueRow ==
    ASSUME Tables, NEW tn \in Tenants, NEW inv, NEW kind, RegRow(tn, inv, kind),
           NEW i \in DOMAIN rows[tn], rows[tn][i].inv = inv, rows[tn][i].kind = kind
    PROVE  ~E!Issued(rows[tn][i])
<1>1. UniqueIn(rows[tn])
      BY DEF Tables
<1> QED BY <1>1 DEF UniqueIn, RegRow, IsRegRow

\* A request of the register writes no issued row.
LEMMA RequestLeaves ==
    ASSUME BaseInv, KnownInv, NEW t \in Callers, Inserts(t) \/ Update(t),
           NEW tn \in Tenants, NEW i \in DOMAIN rows[tn]
    PROVE  /\ E!Issued(rows[tn][i]) => rows'[tn][i] = rows[tn][i]
           /\ E!Issued(rows'[tn][i]) <=> E!Issued(rows[tn][i])
<1>1. RequestKnows(t) /\ Tables
      BY DEF KnownInv, BaseInv
<1>2. CASE tn # call[t].tenant
      BY <1>2, RequestInserts, RequestUpdates DEF Writes
<1>3. CASE tn = call[t].tenant /\ Inserts(t)
  <2>1. CASE rows'[tn][i] = rows[tn][i]
        BY <2>1
  <2>2. CASE /\ call[t].kind = "anulacion"
             /\ rows[tn][i].inv = call[t].inv
             /\ rows[tn][i].kind = "alta"
             /\ rows'[tn][i] = [rows[tn][i] EXCEPT !.status = "ANULADA"]
    <3>1. ~E!Issued(rows[tn][i])
          BY <1>1, <1>3, <2>2, UniqueRow DEF RequestKnows, Inserts, Insert
    <3>2. IsRow(rows[tn][i])
          BY <1>1 DEF Tables, IsTable
    <3>3. rows'[tn][i].status = "ANULADA"
          BY <2>2, <3>2, EditedRow
    <3> QED BY <3>1, <3>3, RegisterStatuses DEF E!Issued
  <2> QED BY <1>3, <2>1, <2>2, RequestInserts
<1>4. CASE tn = call[t].tenant /\ Update(t)
  <2>1. /\ rows'[tn][i].status = rows[tn][i].status
        /\ \/ rows'[tn][i] = rows[tn][i]
           \/ rows[tn][i].inv = call[t].inv /\ rows[tn][i].kind = call[t].kind
        BY <1>4, RequestUpdates
  <2>2. RegRow(tn, call[t].inv, call[t].kind)
        BY <1>1, <1>4 DEF RequestKnows, Update
  <2>3. rows'[tn][i] = rows[tn][i] \/ ~E!Issued(rows[tn][i])
        BY <1>1, <2>1, <2>2, UniqueRow
  <2> QED BY <2>1, <2>3 DEF E!Issued
<1> QED BY <1>2, <1>3, <1>4

\* The worker does not change whose row it is.
LEMMA WorkerLeaves ==
    ASSUME BaseInv, NEW w \in Workers, NEW id, RecordRetry(w, id),
           NEW tn \in Tenants, NEW i \in DOMAIN rows[tn]
    PROVE  E!Issued(rows'[tn][i]) <=> E!Issued(rows[tn][i])
BY WorkerUpdates DEF Writes, E!Issued

\* Emission writes no row of the register.
LEMMA EmissionLeaves ==
    ASSUME BaseInv, KnownInv, NEW t \in E!Threads, E!Insert(t) \/ E!Commit(t),
           rows' # rows, NEW tn \in Tenants, NEW i \in DOMAIN rows[tn]
    PROVE  /\ ~E!Issued(rows[tn][i]) => rows'[tn][i] = rows[tn][i]
           /\ E!Issued(rows'[tn][i]) <=> E!Issued(rows[tn][i])
<1>1. CASE tn # cmd[t].tenant
      BY <1>1, EmissionInserts, EmissionCommits DEF Writes
<1>2. CASE tn = cmd[t].tenant /\ E!Insert(t)
      BY <1>2, EmissionInserts
<1>3. CASE tn = cmd[t].tenant /\ E!Commit(t)
  <2>1. IF i \in DOMAIN patch[t] THEN rows'[tn][i].status = patch[t][i]
        ELSE rows'[tn][i] = rows[tn][i]
        BY <1>3, EmissionCommits
  <2>2. i \in DOMAIN patch[t] => E!Issued(rows[tn][i]) /\ patch[t][i] \in E!Status
        BY <1>3 DEF KnownInv, BatchKnows
  <2> QED BY <2>1, <2>2 DEF E!Issued
<1> QED BY <1>1, <1>2, <1>3

LEMMA IssuedKept ==
    ASSUME BaseInv, KnownInv, [WritersNext]_allVars,
           NEW tn \in Tenants, NEW i \in DOMAIN rows[tn]
    PROVE  /\ i \in DOMAIN rows'[tn]
           /\ rows'[tn][i].inv = rows[tn][i].inv
           /\ rows'[tn][i].kind = rows[tn][i].kind
           /\ E!Issued(rows'[tn][i]) <=> E!Issued(rows[tn][i])
<1>1. TableStep(rows[tn], rows'[tn])
      BY TablesKept
<1>2. E!Issued(rows'[tn][i]) <=> E!Issued(rows[tn][i])
      BY WritersRows, RequestLeaves, WorkerLeaves, EmissionLeaves
<1> QED BY <1>1, <1>2 DEF TableStep

LEMMA RegRowKept ==
    ASSUME BaseInv, KnownInv, [WritersNext]_allVars,
           NEW tn \in Tenants, NEW inv, NEW kind, RegRow(tn, inv, kind)
    PROVE  RegRow(tn, inv, kind)'
<1>1. PICK i \in DOMAIN rows[tn] : IsRegRow(rows[tn][i], inv, kind)
      BY DEF RegRow
<1>2. i \in DOMAIN rows'[tn] /\ IsRegRow(rows'[tn][i], inv, kind)
      BY <1>1, IssuedKept DEF IsRegRow
<1> QED BY <1>2 DEF RegRow

LEMMA IssuedAltaStep ==
    ASSUME BaseInv, KnownInv, [WritersNext]_allVars
    PROVE  IssuedAlta'
<1>1. ASSUME NEW tn \in Tenants, NEW i \in DOMAIN rows'[tn], i \in DOMAIN rows[tn],
             E!Issued(rows'[tn][i])
      PROVE  rows'[tn][i].kind = "alta"
      BY <1>1, IssuedKept DEF KnownInv, IssuedAlta
<1>2. ASSUME NEW tn \in Tenants, NEW i \in DOMAIN rows'[tn], i \notin DOMAIN rows[tn],
             E!Issued(rows'[tn][i])
      PROVE  rows'[tn][i].kind = "alta"
  <2>1. ASSUME NEW t \in Callers, Inserts(t)
        PROVE  rows'[tn][i].kind = "alta"
    <3>1. CASE tn # call[t].tenant
          BY <1>2, <2>1, <3>1, RequestInserts DEF Writes
    <3>2. CASE tn = call[t].tenant
      <4>1. rows'[tn][i] = Row(call[t].inv, call[t].kind, call[t].prev)
            BY <1>2, <2>1, <3>2, RequestInserts
      <4>2. rows'[tn][i].status \in {"ALTA", "ANULADA"}
            BY <4>1 DEF Row
      <4> QED BY <1>2, <4>2, RegisterStatuses DEF E!Issued
    <3> QED BY <3>1, <3>2
  <2>2. ASSUME NEW t \in Callers, Update(t) PROVE FALSE
        BY <1>2, <2>2, RequestUpdates DEF Writes
  <2>3. ASSUME NEW w \in Workers, NEW id \in DOMAIN todo[w], RecordRetry(w, id)
        PROVE  FALSE
        BY <1>2, <2>3, WorkerUpdates DEF Writes
  <2>4. ASSUME NEW t \in E!Threads, E!Insert(t), rows' # rows
        PROVE  rows'[tn][i].kind = "alta"
        BY <1>2, <2>4, EmissionInserts DEF Writes
  <2>5. ASSUME NEW t \in E!Threads, E!Commit(t), rows' # rows PROVE FALSE
        BY <1>2, <2>5, EmissionCommits DEF Writes
  <2> QED BY <1>2, <2>1, <2>2, <2>3, <2>4, <2>5, WritersRows
<1> QED BY <1>1, <1>2 DEF IssuedAlta
-----------------------------------------------------------------------------
(***************************************************************************)
(* What the threads of the register know.                                  *)
(***************************************************************************)

LEMMA WritersCame ==
    ASSUME Arrays, [WritersNext]_allVars
    PROVE  /\ \A u \in Callers : Came(u)
           /\ \A w \in Workers : WorkerCame(w)
<1>1. RegisterStep => [Next]_vars
      BY DEF RegisterStep, Next
<1>2. EmissionStep \/ UNCHANGED allVars => UNCHANGED <<pc, call, todo, answer>>
      BY DEF EmissionStep, allVars, registerVars
<1>3. CASE RegisterStep
      BY <1>1, <1>3, CallersCame, WorkersCame DEF Arrays
<1>4. CASE UNCHANGED <<pc, call, todo, answer>>
      BY <1>4 DEF Came, WorkerCame, SameCall, SameTodo
<1> QED BY <1>2, <1>3, <1>4 DEF WritersNext

LEMMA RequestKnowsStep ==
    ASSUME BaseInv, KnownInv, [WritersNext]_allVars, NEW u \in Callers
    PROVE  RequestKnows(u)'
<1>0. /\ RequestKnows(u) /\ CallOK(u) /\ Came(u)
      /\ u \in Threads /\ DOMAIN call = Threads
      BY WritersCame DEF KnownInv, BaseInv, Arrays, ThreadArrays, Threads
<1>1. CASE pc'[u] \in {"idle", "enter", "read"}
      BY <1>1 DEF RequestKnows
<1>2. CASE Prepare(u) /\ pc'[u] = "insert"
  <2>1. /\ call'[u] = [call[u] EXCEPT !.prev = ReadPrev(u)]
        /\ call[u].tenant \in Tenants
        BY <1>0, <1>2 DEF Prepare, CallOK
  <2>2. /\ call'[u].kind = call[u].kind /\ call'[u].tenant = call[u].tenant
        /\ call'[u].inv = call[u].inv
        BY <1>0, <2>1 DEF CallOK, CallFields
  <2>3. call[u].kind = "anulacion" => RegRow(call[u].tenant, call[u].inv, "alta")
        BY <1>2, RegisterStatuses DEF Prepare, Cancellable, RegRow, IsRegRow, E!Issued
  <2>4. call[u].kind = "anulacion" => RegRow(call[u].tenant, call[u].inv, "alta")'
        BY <2>1, <2>3, RegRowKept
  <2> QED BY <1>2, <2>2, <2>4 DEF RequestKnows, RegRow
<1>3. CASE Inserts(u) /\ pc'[u] = "file" /\ call'[u] = call[u]
  <2> DEFINE tn == call[u].tenant
             n == Len(rows[tn]) + 1
  <2>0. Inserts(u)
        BY <1>3
  <2>1. /\ DOMAIN rows'[tn] = DOMAIN rows[tn] \cup {n}
        /\ rows'[tn][n] = Row(call[u].inv, call[u].kind, call[u].prev)
        BY <2>0, RequestInserts
  <2> HIDE DEF n
  <2>2. IsRegRow(rows'[tn][n], call[u].inv, call[u].kind)
        BY <2>1, RegisterStatuses DEF IsRegRow, E!Issued, Row
  <2>3. RegRow(tn, call[u].inv, call[u].kind)'
        BY <1>3, <2>1, <2>2 DEF RegRow
  <2> QED BY <1>3, <2>3 DEF RequestKnows, RegRow
<1>4. CASE /\ pc[u] \in {"file", "send", "update"} /\ pc'[u] \in {"file", "send", "update"}
           /\ call'[u] = call[u]
  <2>1. RegRow(call[u].tenant, call[u].inv, call[u].kind)'
        BY <1>0, <1>4, RegRowKept DEF RequestKnows, CallOK
  <2> QED BY <1>4, <2>1 DEF RequestKnows, RegRow
<1>5. CASE SameCall(u)
  <2>1. CASE pc[u] = "insert" /\ call[u].kind = "anulacion"
    <3>1. RegRow(call[u].tenant, call[u].inv, "alta")'
          BY <1>0, <1>5, <2>1, RegRowKept DEF RequestKnows, CallOK, SameCall
    <3> QED BY <1>5, <2>1, <3>1 DEF RequestKnows, RegRow, SameCall
  <2>2. CASE pc[u] \in {"file", "send", "update"}
        BY <1>4, <1>5, <2>2 DEF SameCall
  <2> QED BY <1>5, <2>1, <2>2 DEF RequestKnows, SameCall
<1> QED BY <1>0, <1>1, <1>2, <1>3, <1>4, <1>5 DEF Came, WriteFile, SendNew

LEMMA FilesKnownStep ==
    ASSUME BaseInv, KnownInv, [WritersNext]_allVars
    PROVE  FilesKnown'
<1>1. CASE UNCHANGED files
      BY <1>1, RegRowKept DEF KnownInv, FilesKnown
<1>2. ASSUME NEW t \in Callers, WriteFile(t) PROVE FilesKnown'
  <2> DEFINE name == <<call[t].inv, call[t].kind>>
             xml == Xml(call[t].tenant, call[t].inv, call[t].kind, call[t].prev)
  <2>1. files' = [files EXCEPT ![name] = xml]
        BY <1>2 DEF WriteFile
  <2>2. /\ call[t].tenant \in Tenants
        /\ RegRow(call[t].tenant, call[t].inv, call[t].kind)
        BY <1>2 DEF WriteFile, BaseInv, CallOK, KnownInv, RequestKnows
  <2> HIDE DEF xml
  <2>3. ASSUME NEW inv \in Invoices, NEW kind \in Kinds, files'[<<inv, kind>>] # None
        PROVE  \E tn \in Tenants : RegRow(tn, inv, kind)
    <3>1. CASE <<inv, kind>> = name
          BY <2>2, <3>1
    <3>2. CASE <<inv, kind>> # name
          BY <2>1, <2>3, <3>2 DEF KnownInv, FilesKnown
    <3> QED BY <3>1, <3>2
  <2>4. DOMAIN files' = Invoices \X Kinds
        BY <2>1 DEF KnownInv, FilesKnown
  <2> QED BY <2>3, <2>4, RegRowKept DEF FilesKnown
<1>3. \/ UNCHANGED files
      \/ \E t \in Callers : WriteFile(t)
  <2>1. ASSUME NEW t \in Callers, CallerStep(t)
        PROVE  UNCHANGED files \/ WriteFile(t)
        BY <2>1 DEF CallerStep, Enter, Prepare, Refuse, Insert, InsertLocked,
                    DeliveryRaises, SendNew, Update, UpdateLocked
  <2>2. ASSUME NEW w \in Workers, WorkerStep(w) PROVE UNCHANGED files
        BY <2>2 DEF WorkerStep, Scan, Resend, SkipMissing, RecordRetry, RetryFails,
                    EndScan
  <2>3. EmissionStep \/ UNCHANGED allVars => UNCHANGED files
        BY DEF EmissionStep, allVars, registerVars
  <2> QED BY <2>1, <2>2, <2>3 DEF WritersNext, RegisterStep, Request
<1> QED BY <1>1, <1>2, <1>3

LEMMA TodoKnowsStep ==
    ASSUME BaseInv, KnownInv, [WritersNext]_allVars, NEW w \in Workers
    PROVE  TodoKnows(w)'
<1>0. /\ TodoKnows(w) /\ WorkerCame(w) /\ DefaultTenant \in Tenants
      /\ w \in Threads /\ DOMAIN todo = Threads
      BY WritersCame, ConstantsAssumption
         DEF KnownInv, BaseInv, Arrays, ThreadArrays, Threads
<1>1. CASE DOMAIN todo'[w] = {}
      BY <1>1 DEF TodoKnows
\* Items that stay on the list.
<1>2. ASSUME DOMAIN todo'[w] \subseteq DOMAIN todo[w],
             \A id \in DOMAIN todo'[w] : todo'[w][id] = todo[w][id]
      PROVE  \A id \in DOMAIN todo'[w] :
                 /\ id \in DOMAIN rows'[DefaultTenant]
                 /\ todo'[w][id].inv = rows'[DefaultTenant][id].inv
                 /\ todo'[w][id].xmlKind \in Kinds
                 /\ E!Issued(rows'[DefaultTenant][id]) => todo'[w][id].xmlKind = "alta"
      BY <1>0, <1>2, IssuedKept DEF TodoKnows
<1>3. CASE /\ Scan(w) /\ pc'[w] = "next"
           /\ todo'[w] = Selected(rows[DefaultTenant])
  <2>1. ASSUME NEW id \in DOMAIN todo'[w]
        PROVE  /\ id \in DOMAIN rows[DefaultTenant]
               /\ todo'[w][id] = Item(rows[DefaultTenant][id])
        BY <1>3, <2>1 DEF Selected
  <2>2. ASSUME NEW id \in DOMAIN todo'[w]
        PROVE  /\ todo'[w][id].inv = rows[DefaultTenant][id].inv
               /\ todo'[w][id].xmlKind \in Kinds
               /\ E!Issued(rows[DefaultTenant][id]) => todo'[w][id].xmlKind = "alta"
    <3> DEFINE row == rows[DefaultTenant][id]
    <3>1. todo'[w][id] = Item(row)
          BY <2>1
    <3> HIDE DEF row
    <3>2. /\ Item(row).inv = row.inv
          /\ Item(row).xmlKind = IF row.status = "ANULADA" THEN "anulacion" ELSE "alta"
          BY DEF Item
    <3>3. row.status \in E!Status => row.status # "ANULADA"
          BY RegisterStatuses
    <3>4. todo'[w][id].inv = row.inv /\ todo'[w][id].xmlKind \in Kinds
          BY <3>1, <3>2 DEF Kinds
    <3>5. E!Issued(row) => todo'[w][id].xmlKind = "alta"
          BY <3>1, <3>2, <3>3 DEF E!Issued
    <3> QED BY <3>4, <3>5 DEF row
  <2>3. rows' = rows
        BY <1>3 DEF Scan
  <2> QED BY <1>3, <2>1, <2>2, <2>3 DEF TodoKnows
<1>4. ASSUME NEW id \in DOMAIN todo[w], IsNext(w, id), Resend(w, id),
             pc'[w] = "record", todo'[w] = todo[w]
      PROVE  TodoKnows(w)'
  <2> DEFINE item == todo[w][id]
  <2>1. item.inv \in Invoices /\ item.xmlKind \in Kinds
    <3>1. IsRow(rows[DefaultTenant][id])
          BY <1>0, <1>4 DEF TodoKnows, BaseInv, Tables, IsTable
    <3> QED BY <1>0, <1>4, <3>1 DEF TodoKnows, IsRow
  <2>2. files[<<item.inv, item.xmlKind>>] # None
        BY <1>4 DEF Resend, FileOf
  <2>3. PICK tn \in Tenants : RegRow(tn, item.inv, item.xmlKind)
        BY <2>1, <2>2 DEF KnownInv, FilesKnown
  <2>4. rows' = rows
        BY <1>4 DEF Resend
  <2>5. \A j \in DOMAIN todo'[w] : IsNext(w, j)' => j = id
    <3>1. \A j \in DOMAIN todo[w] : j \in Nat
          BY <1>0, IdsAreNumbers DEF TodoKnows, BaseInv
    <3> QED BY <1>4, <3>1 DEF IsNext
  <2>6. RegRow(tn, item.inv, item.xmlKind)'
    <3> HIDE DEF item
    <3>1. \E i \in DOMAIN rows'[tn] : IsRegRow(rows'[tn][i], item.inv, item.xmlKind)
          BY <2>3, <2>4 DEF RegRow
    <3> QED BY <1>4, <3>1 DEF RegRow, item
  <2> QED BY <1>2, <1>4, <2>5, <2>6 DEF TodoKnows
<1>5. ASSUME NEW id \in DOMAIN todo[w], TakesOff(w, id)
      PROVE  TodoKnows(w)'
      BY <1>2, <1>5 DEF TakesOff, TodoKnows
<1>6. CASE SameTodo(w)
  <2>1. ASSUME pc[w] = "record", NEW id \in DOMAIN todo[w], IsNext(w, id)
        PROVE  \E tn \in Tenants : RegRow(tn, todo[w][id].inv, todo[w][id].xmlKind)'
    <3> DEFINE inv == todo[w][id].inv
               kind == todo[w][id].xmlKind
    <3>1. PICK tn \in Tenants : RegRow(tn, inv, kind)
          BY <1>0, <2>1 DEF TodoKnows
    <3>2. todo'[w] = todo[w]
          BY <1>6 DEF SameTodo
    <3> QED BY <3>1, <3>2, RegRowKept DEF RegRow
  <2>2. \A id \in DOMAIN todo'[w] : IsNext(w, id)' => IsNext(w, id)
        BY <1>6 DEF SameTodo, IsNext
  <2> QED BY <1>2, <1>6, <2>1, <2>2 DEF TodoKnows, SameTodo
<1> QED BY <1>0, <1>1, <1>3, <1>4, <1>5, <1>6 DEF WorkerCame
-----------------------------------------------------------------------------
(***************************************************************************)
(* What a batch of emission knows.                                         *)
(***************************************************************************)

LEMMA FirstIsFound ==
    ASSUME NEW ids \in SUBSET Nat, ids # {}
    PROVE  E!First(ids) \in ids
<1> DEFINE Below == {ss \in Nat \X Nat : ss[1] < ss[2]}
<1>1. IsWellFoundedOn(Below, Nat)
      BY NatLessThanWellFounded DEF OpToRel
<1>2. \A x, y \in Nat : <<y, x>> \notin Below => x <= y
      OBVIOUS
<1> HIDE DEF Below
<1>3. \E x \in ids : \A y \in ids : <<y, x>> \notin Below
      BY <1>1, WFMin
<1> QED BY <1>2, <1>3 DEF E!First

\* A batch that keeps its rows, or some of them.
LEMMA BatchKept ==
    ASSUME BaseInv, KnownInv, [WritersNext]_allVars, NEW u \in E!Threads,
           found'[u] \subseteq found[u], patch'[u] = patch[u],
           epc'[u] = epc[u] \/ epc[u] # "resend",
           cmd'[u] = cmd[u] \/ epc[u] # "resend"
    PROVE  BatchKnows(u)'
<1>1. BatchKnows(u)
      BY DEF KnownInv
<1>2. \A i \in found'[u] \cup DOMAIN patch'[u] :
          /\ epc[u] = "resend" /\ cmd[u].tenant \in Tenants
          /\ i \in DOMAIN rows[cmd[u].tenant]
          /\ E!Issued(rows[cmd[u].tenant][i])
      BY <1>1 DEF BatchKnows
<1>3. \A i \in found'[u] \cup DOMAIN patch'[u] :
          /\ epc'[u] = "resend" /\ cmd'[u].tenant \in Tenants
          /\ i \in DOMAIN rows'[cmd'[u].tenant]
          /\ E!Issued(rows'[cmd'[u].tenant][i])
      BY <1>2, IssuedKept
<1> QED BY <1>1, <1>3 DEF BatchKnows

LEMMA BatchKnowsStep ==
    ASSUME BaseInv, KnownInv, [WritersNext]_allVars, NEW u \in E!Threads
    PROVE  BatchKnows(u)'
<1>0. /\ BatchKnows(u) /\ CmdOK(u)
      /\ DOMAIN epc = E!Threads /\ DOMAIN cmd = E!Threads
      /\ DOMAIN found = E!Threads /\ DOMAIN patch = E!Threads
      BY DEF KnownInv, BaseInv, Arrays
<1>1. ASSUME NEW t, E!Leave(t) PROVE BatchKnows(u)'
  <2>1. CASE u = t
    <3>1. found'[u] = {} /\ patch'[u] = <<>>
          BY <1>0, <1>1, <2>1 DEF E!Leave
    <3> QED BY <3>1 DEF BatchKnows
  <2>2. CASE u # t
        BY <1>0, <1>1, <2>2, BatchKept DEF E!Leave
  <2> QED BY <2>1, <2>2
<1>2. ASSUME NEW t \in Emitters, NEW tn \in Tenants, NEW inv \in Invoices,
             NEW verifactu \in BOOLEAN, E!Request(t, tn, inv, verifactu)
      PROVE  BatchKnows(u)'
      BY <1>0, <1>2, BatchKept DEF E!Request, E!Goto
<1>3. ASSUME NEW t, E!Begin(t) \/ E!Send(t) PROVE BatchKnows(u)'
  <2>1. /\ found' = found /\ patch' = patch
        /\ epc'[u] = epc[u] \/ epc[u] # "resend"
        /\ cmd'[u] = cmd[u] \/ epc[u] # "resend"
        BY <1>0, <1>3 DEF E!Begin, E!Send, E!Goto
  <2> QED BY <2>1, BatchKept
<1>4. ASSUME NEW t \in Emitters, E!EmitterStep(t) PROVE BatchKnows(u)'
      BY <1>1, <1>3, <1>4 DEF E!EmitterStep, E!Invalid, E!Insert, E!Raises
<1>5. ASSUME NEW t \in Retriers, NEW tn \in Tenants, E!BeginRetry(t, tn)
      PROVE  BatchKnows(u)'
  <2>1. CASE u # t
        BY <1>0, <1>5, <2>1, BatchKept DEF E!BeginRetry, E!Goto
  <2>2. CASE u = t
    <3>1. /\ found'[u] = E!Selected(rows[tn]) /\ patch'[u] = patch[u]
          /\ epc'[u] = "resend" /\ rows' = rows
          /\ cmd'[u] = [cmd[u] EXCEPT !.tenant = tn] /\ epc[u] = "idle"
          BY <1>0, <1>5, <2>2 DEF E!BeginRetry, E!Goto
    <3>2. cmd'[u].tenant = tn
          BY <1>0, <3>1 DEF CmdOK, CmdFields
    <3>3. DOMAIN patch'[u] = {}
          BY <1>0, <3>1 DEF BatchKnows
    <3>4. \A i \in found'[u] : i \in DOMAIN rows[tn] /\ E!Issued(rows[tn][i])
          BY <3>1 DEF E!Selected, E!Incident, E!Issued, E!Status
    <3> QED BY <3>1, <3>2, <3>3, <3>4 DEF BatchKnows
  <2> QED BY <2>1, <2>2
<1>6. ASSUME NEW t, E!Resend(t) PROVE BatchKnows(u)'
  <2>1. CASE u # t
        BY <1>0, <1>6, <2>1, BatchKept DEF E!Resend
  <2>2. CASE u = t
    <3> DEFINE id == E!First(found[u])
    <3>1. /\ found'[u] \subseteq found[u] /\ found[u] # {}
          /\ UNCHANGED <<rows, epc, cmd>>
          /\ \/ patch' = patch
             \/ \E outcome \in {"success", "rejected"} :
                    patch'[u] = E!With(patch[u], id, E!StatusAfter(outcome))
          BY <1>0, <1>6, <2>2 DEF E!Resend, E!Outcomes
    <3>2. CASE patch' = patch
          BY <3>1, <3>2, BatchKept
    <3>3. ASSUME NEW outcome \in {"success", "rejected"},
                 patch'[u] = E!With(patch[u], id, E!StatusAfter(outcome))
          PROVE  BatchKnows(u)'
      <4>1. id \in found[u]
        <5>1. \A i \in found[u] : /\ cmd[u].tenant \in Tenants
                                  /\ i \in DOMAIN rows[cmd[u].tenant]
              BY <1>0 DEF BatchKnows
        <5>2. found[u] \in SUBSET Nat
              BY <3>1, <5>1, IdsAreNumbers DEF BaseInv
        <5> QED BY <3>1, <5>2, FirstIsFound
      <4>2. E!StatusAfter(outcome) \in E!Status
            BY DEF E!StatusAfter, E!Status
      <4> HIDE DEF id
      <4>3. /\ DOMAIN patch'[u] = DOMAIN patch[u] \cup {id}
            /\ \A i \in DOMAIN patch'[u] : patch'[u][i] \in E!Status
            BY <1>0, <3>3, <4>2 DEF E!With, BatchKnows
      <4> QED BY <1>0, <3>1, <4>1, <4>3 DEF BatchKnows
    <3> QED BY <3>1, <3>2, <3>3
  <2> QED BY <2>1, <2>2
<1>7. ASSUME NEW t \in Retriers, E!RetrierStep(t) PROVE BatchKnows(u)'
      BY <1>1, <1>5, <1>6, <1>7 DEF E!RetrierStep, E!Commit, E!BatchRaises
<1>8. CASE RegisterStep \/ UNCHANGED allVars
  <2>1. UNCHANGED emissionVars
        BY <1>8 DEF RegisterStep, allVars
  <2> QED BY <2>1, BatchKept DEF emissionVars
<1> QED BY <1>2, <1>4, <1>7, <1>8 DEF WritersNext, EmissionStep

\* What requests, workers and batches know of the rows stays true, although
\* the two writers have no lock in common.
THEOREM KnownInvariant == WritersSpec => []KnownInv
<1>1. WritersInit => KnownInv
  <2> SUFFICES ASSUME WritersInit PROVE KnownInv
      OBVIOUS
  <2>1. IssuedAlta /\ FilesKnown
        BY DEF WritersInit, Init, IssuedAlta, FilesKnown
  <2>2. \A t \in Callers : RequestKnows(t)
        BY DEF WritersInit, Init, RequestKnows, Threads
  <2>3. \A w \in Workers : TodoKnows(w)
        BY DEF WritersInit, Init, TodoKnows, Threads
  <2>4. \A t \in E!Threads : BatchKnows(t)
        BY DEF WritersInit, E!Init, BatchKnows
  <2> QED BY <2>1, <2>2, <2>3, <2>4 DEF KnownInv
<1>2. BaseInv /\ KnownInv /\ [WritersNext]_allVars => KnownInv'
  <2> SUFFICES ASSUME BaseInv, KnownInv, [WritersNext]_allVars PROVE KnownInv'
      OBVIOUS
  <2>1. IssuedAlta' /\ FilesKnown'
        BY IssuedAltaStep, FilesKnownStep
  <2>2. (\A t \in Callers : RequestKnows(t))'
        BY RequestKnowsStep
  <2>3. (\A w \in Workers : TodoKnows(w))'
        BY TodoKnowsStep
  <2>4. (\A t \in E!Threads : BatchKnows(t))'
        BY BatchKnowsStep
  <2> QED BY <2>1, <2>2, <2>3, <2>4 DEF KnownInv
<1> QED BY <1>1, <1>2, BaseInvariant, PTL DEF WritersSpec
-----------------------------------------------------------------------------
(***************************************************************************)
(* Each writer leaves the rows of the other alone.                         *)
(***************************************************************************)

\* RowsKept as a formula about one step.
KeptStep ==
    \A tn \in Tenants : \A i \in DOMAIN rows[tn] :
        /\ RegisterStep /\ E!Issued(rows[tn][i]) => rows'[tn][i] = rows[tn][i]
        /\ EmissionStep /\ ~E!Issued(rows[tn][i]) => rows'[tn][i] = rows[tn][i]

\* With one tenant, the worker updates no issued row: what it has sent is the
\* file of a row of the register.
LEMMA WorkerKeeps ==
    ASSUME Tenants = {DefaultTenant}, BaseInv, KnownInv,
           NEW w \in Workers, NEW id \in DOMAIN todo[w], IsNext(w, id),
           RecordRetry(w, id)
    PROVE  ~E!Issued(rows[DefaultTenant][id])
<1> DEFINE row == rows[DefaultTenant][id]
<1>1. TodoKnows(w) /\ IssuedAlta /\ Tables
      BY DEF KnownInv, BaseInv
<1>2. PICK tn \in Tenants : RegRow(tn, todo[w][id].inv, todo[w][id].xmlKind)
      BY <1>1 DEF TodoKnows, RecordRetry
<1>3. /\ id \in DOMAIN rows[DefaultTenant] /\ todo[w][id].inv = row.inv
      /\ E!Issued(row) => todo[w][id].xmlKind = "alta"
      BY <1>1 DEF TodoKnows
<1>4. E!Issued(row) => row.kind = "alta"
      BY <1>1, <1>3 DEF IssuedAlta
<1>5. ASSUME E!Issued(row) PROVE FALSE
      BY <1>1, <1>2, <1>3, <1>4, <1>5, UniqueRow
<1> QED BY <1>5

LEMMA KeptStepHolds ==
    ASSUME Tenants = {DefaultTenant}, BaseInv, KnownInv, [WritersNext]_allVars
    PROVE  KeptStep
<1> SUFFICES ASSUME NEW tn \in Tenants, NEW i \in DOMAIN rows[tn]
    PROVE  /\ RegisterStep /\ E!Issued(rows[tn][i]) => rows'[tn][i] = rows[tn][i]
           /\ EmissionStep /\ ~E!Issued(rows[tn][i]) => rows'[tn][i] = rows[tn][i]
    BY DEF KeptStep
<1>1. ASSUME RegisterStep, E!Issued(rows[tn][i])
      PROVE  rows'[tn][i] = rows[tn][i]
  <2>1. [Next]_vars
        BY <1>1 DEF RegisterStep, Next
  <2>2. ASSUME NEW t \in Callers, Inserts(t) \/ Update(t)
        PROVE  rows'[tn][i] = rows[tn][i]
        BY <1>1, <2>2, RequestLeaves
  <2>3. ASSUME NEW w \in Workers, NEW id \in DOMAIN todo[w], IsNext(w, id),
               RecordRetry(w, id)
        PROVE  rows'[tn][i] = rows[tn][i]
    <3>1. tn = DefaultTenant
          OBVIOUS
    <3>2. i # id
          BY <1>1, <2>3, <3>1, WorkerKeeps
    <3> QED BY <2>3, <3>1, <3>2, WorkerUpdates
  <2> QED BY <2>1, <2>2, <2>3, WritesRows
<1>2. ASSUME EmissionStep, ~E!Issued(rows[tn][i])
      PROVE  rows'[tn][i] = rows[tn][i]
  <2>1. UNCHANGED rows \/ \E t \in E!Threads : E!Insert(t) \/ E!Commit(t)
        BY <1>2, EmissionWrites
  <2> QED BY <1>2, <2>1, EmissionLeaves
<1> QED BY <1>1, <1>2

\* With one tenant, no step of the register or of its worker writes an issued
\* invoice, and no step of emission a row of the register.
THEOREM AlwaysKept ==
    ASSUME Tenants = {DefaultTenant}
    PROVE  WritersSpec => RowsKept
<1>1. BaseInv /\ KnownInv /\ [WritersNext]_allVars => KeptStep
      BY KeptStepHolds
<1> QED BY <1>1, BaseInvariant, KnownInvariant, PTL
        DEF WritersSpec, RowsKept, KeptStep
===============================================================================

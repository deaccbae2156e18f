------------------------- MODULE InvoiceTools_proofs --------------------------
(***************************************************************************)
(* Theorems about InvoiceTools, for any number of coroutines, rows,        *)
(* numbers and amounts.                                                    *)
(*                                                                         *)
(* What the runs check is not inductive by itself.  Two rows could come to *)
(* carry one registered number if a draft "R-BORRADOR-" that is confirmed  *)
(* had a number that another row has got during the wait: KnownRow says    *)
(* why it has not.  A collected invoice could be paid back if another row  *)
(* with its number had something pending: OneRow says that there is none.  *)
(* An invoice could be booked twice if its number were in the queue twice, *)
(* or in the queue and booked: QueueFresh says it is not.                  *)
(***************************************************************************)
EXTENDS InvoiceTools, TLAPS

Draft == "BORRADOR-"
RDraft == "R-BORRADOR-"

\* What has been registered is no plain draft.
RegisteredFirm == \A n \in registered : n.prefix # Draft

\* Two rows share a number only if it is that of a plain draft, or that of a
\* rectification's, registered for the one while the other has another issuer.
OneRow ==
    \A r, q \in DOMAIN rows :
        rows[r].number = rows[q].number /\ rows[r].number.prefix # Draft
            => \/ r = q
               \/ /\ rows[r].number.prefix = RDraft
                  /\ rows[r].number \in registered
                  /\ rows[r].issuer # rows[q].issuer

\* The draft of a rectification has its number from the sequence; firm rows
\* have an issuer.
DraftsNumbered ==
    \A r \in DOMAIN rows :
        rows[r].number.prefix = RDraft
            /\ (rows[r].number \notin registered \/ rows[r].issuer = None)
            => rows[r].number.n <= last[RDraft]

\* Whoever waits to confirm the draft of a rectification holds the one row
\* that may carry its number, unless the number is registered by now.
KnownRow(k) ==
    (/\ k.tool = "generate"
     /\ k.id # None /\ k.id.prefix = RDraft
     /\ k.row # None
     /\ k.id \notin registered)
        => /\ k.id.n <= last[RDraft]
           /\ \A r \in DOMAIN rows : rows[r].number = k.id => r = k.row

CallsKnow ==
    \A c \in Calls : call[c] # None =>
        /\ KnownRow(call[c])
        /\ call[c].tool = "rectify" => call[c].id = None /\ call[c].row = None

\* A number is in the queue once, registered and not booked.
QueueFresh ==
    \A i \in DOMAIN queue :
        /\ queue[i] \in registered
        /\ posted[queue[i]] = 0
        /\ \A j \in DOMAIN queue : queue[i] = queue[j] => i = j

\* What the steps of Issue change, and preserve.
TablesInv ==
    /\ RegisteredFirm /\ OneRow /\ DraftsNumbered
    /\ QueueFresh /\ PostedOnce
    /\ IssuedIsRegistered /\ CollectedIsPaid /\ IssuedIsBooked

IInv == TypeOK /\ TablesInv /\ CallsKnow
-----------------------------------------------------------------------------
(***************************************************************************)
(* Lemmas about the operators.                                             *)
(***************************************************************************)

LEMMA NumberType ==
    \A m \in Numbers : /\ m.prefix \in Prefixes /\ m.n \in Nat /\ m.n > 0
                       /\ Limit[m.prefix] \in Nat
BY InvoiceToolsAssumption DEF Numbers

\* The number of a firm invoice is not that of a draft, unless it is that of
\* a rectification the caller gave; the number of a draft is one, and that of
\* a rectification's is new.
LEMMA NumberTaken ==
    ASSUME last \in [Prefixes -> Nat],
           NEW tool \in {"generate", "rectify"}, NEW firm \in BOOLEAN,
           NEW id \in Numbers \cup {None}, NEW number \in Numbers,
           TakeNumber(tool, firm, id, number)
    PROVE  /\ last' \in [Prefixes -> Nat]
           /\ last'[RDraft] >= last[RDraft]
           /\ firm => number.prefix # Draft
           /\ ~firm => number.prefix \in {Draft, RDraft}
           /\ firm /\ number.prefix = RDraft => tool = "generate" /\ id = number
           /\ ~firm /\ number.prefix = RDraft =>
                  /\ tool = "rectify"
                  /\ number.n > last[RDraft] /\ last'[RDraft] = number.n
<1>1. CASE Keeps(tool, firm, id)
      BY <1>1 DEF TakeNumber, Keeps, Draft, RDraft, Prefixes
<1>2. CASE ~Keeps(tool, firm, id)
  <2>1. /\ number.prefix = NewPrefix(tool, firm)
        /\ NextValue(number.prefix, number.n)
        /\ last' = [last EXCEPT ![number.prefix] = number.n]
        BY <1>2 DEF TakeNumber
  <2>2. number.n > last[number.prefix]
        BY <2>1, NumberType DEF NextValue
  <2>3. last' \in [Prefixes -> Nat] /\ last'[RDraft] >= last[RDraft]
        BY <2>1, <2>2, NumberType DEF Prefixes, RDraft
  <2>4. CASE firm
        BY <2>1, <2>3, <2>4 DEF NewPrefix, Draft, RDraft
  <2>5. CASE ~firm
        BY <2>1, <2>2, <2>3, <2>5 DEF NewPrefix, Draft, RDraft, Prefixes
  <2> QED BY <2>4, <2>5
<1> QED BY <1>1, <1>2

\* A save writes one row, the one found before if there was one, or none.
LEMMA RowSaved ==
    ASSUME TypeOK, NEW row \in Nat \cup {None}, NEW data \in Rows, Save(row, data)
    PROVE  /\ nextRow' \in 1..(MaxRows + 1)
           /\ DOMAIN rows' \subseteq 1..(nextRow' - 1)
           /\ rows' \in [DOMAIN rows' -> Rows]
           /\ \/ rows' = rows
              \/ \E r \in DOMAIN rows' :
                     /\ rows'[r] = data
                     /\ \A q \in DOMAIN rows' \ {r} :
                            q \in DOMAIN rows /\ rows'[q] = rows[q]
                     /\ row = None => ~Duplicate(data)
                     /\ row # None => r = row
<1> USE InvoiceToolsAssumption DEF TypeOK
<1>1. CASE row = None /\ ~Duplicate(data) /\ nextRow <= MaxRows
           /\ Put(nextRow, data) /\ nextRow' = nextRow + 1
      BY <1>1 DEF Put
<1>2. CASE row # None /\ row \in DOMAIN rows /\ Put(row, data)
           /\ UNCHANGED nextRow
      BY <1>2 DEF Put
<1>3. CASE UNCHANGED <<rows, nextRow>>
      BY <1>3
<1> QED BY <1>1, <1>2, <1>3 DEF Save
-----------------------------------------------------------------------------
(***************************************************************************)
(* From the number to the row.                                             *)
(***************************************************************************)

\* What a step from the number to the row is given: of the calls that wait,
\* only one that has just been confirmed issues a firm invoice.
Holds(tool, firm, k) ==
    /\ tool \in {"generate", "rectify"} /\ firm \in BOOLEAN
    /\ k.id \in Numbers \cup {None} /\ k.row \in Nat \cup {None}
    /\ k.amount \in Amounts
    /\ tool = "rectify" => k.id = None /\ k.row = None
    /\ firm => k.tool = tool /\ KnownRow(k)

\* The number, and the registration if it came to that.
Numbered(firm, number) ==
    /\ number \in Numbers
    /\ last' \in [Prefixes -> Nat]
    /\ last'[RDraft] >= last[RDraft]
    /\ registered \subseteq registered'
    /\ registered' \subseteq registered \cup {number}
    /\ ~firm => registered' = registered
    /\ firm => number.prefix # Draft

\* What issuing does not touch keeps its invariants when the row is not saved.
LEMMA NotSaved ==
    ASSUME TypeOK, TablesInv, NEW firm \in BOOLEAN, NEW number,
           Numbered(firm, number),
           UNCHANGED <<rows, nextRow, queue, posted, paid, year, lost>>
    PROVE  /\ TablesInv'
           /\ \A j \in CallRecords : KnownRow(j) => KnownRow(j)'
<1>1. RegisteredFirm'
      BY DEF Numbered, TablesInv, RegisteredFirm
<1>2. OneRow'
      BY DEF Numbered, TablesInv, OneRow
<1>3. DraftsNumbered'
      BY SMTT(30), NumberType DEF Numbered, TablesInv, DraftsNumbered, TypeOK, Rows,
                        Prefixes, RDraft
<1>4. QueueFresh' /\ PostedOnce'
      BY DEF Numbered, TablesInv, QueueFresh, PostedOnce
<1>5. IssuedIsRegistered' /\ CollectedIsPaid' /\ IssuedIsBooked'
      BY DEF Numbered, TablesInv, IssuedIsRegistered, CollectedIsPaid,
             IssuedIsBooked
<1>6. \A j \in CallRecords : KnownRow(j) => KnownRow(j)'
      BY SMTT(30), NumberType DEF Numbered, KnownRow, CallRecords, TypeOK, Prefixes, RDraft
<1> QED BY <1>1, <1>2, <1>3, <1>4, <1>5, <1>6 DEF TablesInv

LEMMA IssueStep ==
    ASSUME TypeOK, TablesInv, NEW tool, NEW firm, NEW k, Holds(tool, firm, k),
           Issue(tool, firm, k), UNCHANGED <<paid, year, lost>>,
           call' \in [Calls -> CallRecords \cup {None}]
    PROVE  /\ TypeOK' /\ TablesInv'
           /\ \A j \in CallRecords : KnownRow(j) => KnownRow(j)'
<1> DEFINE data(number, issuer) == Invoice(tool, firm, number, issuer, k.amount)
<1>1. PICK number \in Numbers, issuer \in Issuers :
          /\ firm => issuer # None
          /\ TakeNumber(tool, firm, k.id, number)
          /\ \/ UNCHANGED <<registered, rows, nextRow, queue, posted>>
             \/ /\ Register(firm, number)
                /\ \/ UNCHANGED <<rows, nextRow, queue, posted>>
                   \/ Save(k.row, data(number, issuer)) /\ Saved(tool, firm, number)
      BY DEF Issue
<1>2. /\ last' \in [Prefixes -> Nat]
      /\ last'[RDraft] >= last[RDraft]
      /\ firm => number.prefix # Draft
      /\ ~firm => number.prefix \in {Draft, RDraft}
      /\ firm /\ number.prefix = RDraft => tool = "generate" /\ k.id = number
      /\ ~firm /\ number.prefix = RDraft =>
             /\ tool = "rectify"
             /\ number.n > last[RDraft] /\ last'[RDraft] = number.n
      BY <1>1, NumberTaken DEF Holds, TypeOK
<1>3. Numbered(firm, number) /\ firm \in BOOLEAN /\ tool \in {"generate", "rectify"}
      BY <1>1, <1>2 DEF Register, Numbered, Holds
<1>4. registered' \subseteq Numbers
      BY <1>3 DEF Numbered, TypeOK
<1>5. CASE UNCHANGED <<rows, nextRow, queue, posted>>
  <2>1. TypeOK'
        BY <1>2, <1>4, <1>5 DEF TypeOK
  <2> QED BY <1>3, <1>5, <2>1, NotSaved
<1>6. CASE /\ Register(firm, number)
           /\ Save(k.row, data(number, issuer)) /\ Saved(tool, firm, number)
  <2> DEFINE d == data(number, issuer)
  <2>1. /\ d \in Rows /\ d.number = number /\ d.issuer = issuer
        /\ d.status = (IF firm THEN "firmada" ELSE "borrador")
        /\ d.rectifies = (tool = "rectify")
    <3>1. k.amount \in Amounts /\ -k.amount \in Amounts
          BY InvoiceToolsAssumption DEF Holds, Amounts
    <3> QED BY <1>1, <1>3, <3>1 DEF Invoice, Rows, Statuses
  <2> HIDE DEF d
  <2>2. Save(k.row, d)
        BY <1>6 DEF d
  <2>3. /\ nextRow' \in 1..(MaxRows + 1)
        /\ DOMAIN rows' \subseteq 1..(nextRow' - 1)
        /\ rows' \in [DOMAIN rows' -> Rows]
        /\ \/ rows' = rows
           \/ \E r \in DOMAIN rows' :
                  /\ rows'[r] = d
                  /\ \A q \in DOMAIN rows' \ {r} :
                         q \in DOMAIN rows /\ rows'[q] = rows[q]
                  /\ k.row = None => ~Duplicate(d)
                  /\ k.row # None => r = k.row
        BY <2>1, <2>2, RowSaved DEF Holds
  <2>4. /\ firm => number \notin registered /\ registered' = registered \cup {number}
        /\ ~firm => registered' = registered
        BY <1>6 DEF Register
  <2>5. /\ queue' \in Seq(Numbers) /\ posted' \in [Numbers -> Nat]
        /\ QueueFresh' /\ PostedOnce'
        /\ \A n \in Numbers : posted[n] = 1 => posted'[n] = 1
        /\ \A i \in DOMAIN queue : i \in DOMAIN queue' /\ queue'[i] = queue[i]
        /\ tool = "generate" /\ firm =>
              \E i \in DOMAIN queue' : queue'[i] = number
    <3> USE DEF TypeOK
    <3>1. CASE tool = "generate" /\ firm /\ queue' = Append(queue, number)
               /\ UNCHANGED posted
      <4>1. /\ queue' \in Seq(Numbers)
            /\ DOMAIN queue' = DOMAIN queue \cup {Len(queue) + 1}
            /\ queue'[Len(queue) + 1] = number /\ Len(queue) + 1 \notin DOMAIN queue
            /\ \A i \in DOMAIN queue : queue'[i] = queue[i]
            BY <1>1, <3>1
      <4>2. number \notin registered /\ posted[number] = 0
            BY <2>4, <3>1 DEF TablesInv, PostedOnce
      <4>3. QueueFresh'
            BY <2>4, <3>1, <4>1, <4>2 DEF TablesInv, QueueFresh
      <4>4. PostedOnce'
            BY <2>4, <3>1 DEF TablesInv, PostedOnce
      <4> QED BY <3>1, <4>1, <4>3, <4>4
    <3>2. CASE tool = "rectify" /\ firm /\ Post(number) /\ UNCHANGED queue
      <4>1. /\ number \notin registered /\ posted[number] = 0
            /\ posted' = [posted EXCEPT ![number] = 1]
        <5>1. number \notin registered /\ number \in Numbers
              BY <1>1, <2>4, <3>2
        <5>2. posted[number] \in Nat /\ posted[number] <= 1 /\ posted[number] # 1
              BY <5>1 DEF TablesInv, PostedOnce
        <5>3. posted[number] = 0
              BY <5>2
        <5>4. posted' = [posted EXCEPT ![number] = 1]
              BY <3>2, <5>3 DEF Post
        <5> QED BY <5>1, <5>3, <5>4
      <4>2. posted' \in [Numbers -> Nat] /\ PostedOnce'
            BY <1>1, <2>4, <3>2, <4>1 DEF TablesInv, PostedOnce
      <4>3. \A i \in DOMAIN queue : queue[i] # number /\ queue[i] \in Numbers
            BY <4>1 DEF TablesInv, QueueFresh
      <4>4. QueueFresh'
            BY <2>4, <3>2, <4>1, <4>3 DEF TablesInv, QueueFresh
      <4> QED BY <3>2, <4>1, <4>2, <4>4
    <3>3. CASE ~(tool = "generate" /\ firm) /\ UNCHANGED <<queue, posted>>
          BY <2>4, <3>3 DEF TablesInv, QueueFresh, PostedOnce
    <3> QED BY <1>6, <3>1, <3>2, <3>3 DEF Saved
  <2>6. TypeOK'
        BY <1>2, <1>4, <2>3, <2>5 DEF TypeOK
  <2>7. CASE rows' = rows
    <3>1. RegisteredFirm' /\ OneRow'
          BY <1>3, <2>7 DEF Numbered, TablesInv, RegisteredFirm, OneRow
    <3>2. DraftsNumbered'
          BY SMTT(30), <1>3, <2>7, NumberType
             DEF Numbered, TablesInv, DraftsNumbered, TypeOK, Rows, Prefixes, RDraft
    <3>3. IssuedIsRegistered' /\ CollectedIsPaid'
          BY <1>3, <2>7 DEF Numbered, TablesInv, IssuedIsRegistered, CollectedIsPaid
    <3>4. IssuedIsBooked'
      <4> SUFFICES ASSUME NEW q \in DOMAIN rows', rows'[q].status = "firmada",
                          ~rows'[q].rectifies
                   PROVE  \/ posted'[rows'[q].number] = 1
                          \/ rows'[q].number \in lost'
                          \/ \E i \in DOMAIN queue' : queue'[i] = rows'[q].number
          BY DEF IssuedIsBooked
      <4>1. \/ posted[rows[q].number] = 1
            \/ rows[q].number \in lost
            \/ \E i \in DOMAIN queue : queue[i] = rows[q].number
            BY <2>7 DEF TablesInv, IssuedIsBooked
      <4>2. rows[q].number \in Numbers /\ lost' = lost
            BY <2>7 DEF TypeOK, Rows
      <4> QED BY <2>5, <2>7, <4>1, <4>2
    <3>5. \A j \in CallRecords : KnownRow(j) => KnownRow(j)'
          BY SMTT(30), <1>3, <2>7, NumberType
             DEF Numbered, KnownRow, CallRecords, TypeOK, Prefixes, RDraft
    <3> QED BY <2>5, <2>6, <3>1, <3>2, <3>3, <3>4, <3>5 DEF TablesInv
  <2>8. ASSUME NEW r \in DOMAIN rows', rows'[r] = d,
               \A q \in DOMAIN rows' \ {r} :
                   q \in DOMAIN rows /\ rows'[q] = rows[q],
               k.row = None => ~Duplicate(d),
               k.row # None => r = k.row
        PROVE  /\ TablesInv'
               /\ \A j \in CallRecords : KnownRow(j) => KnownRow(j)'
    <3>1. RegisteredFirm'
          BY <1>3 DEF Numbered, TablesInv, RegisteredFirm
    <3>2. ASSUME NEW q \in DOMAIN rows' \ {r}, rows'[q].number = number,
                 number.prefix # Draft
          PROVE  /\ number.prefix = RDraft /\ number \in registered'
                 /\ rows'[q].issuer # issuer
      <4>1. /\ q \in DOMAIN rows /\ rows'[q] = rows[q] /\ rows[q].number = number
            /\ rows[q].issuer \in Issuers
            BY <2>8, <3>2 DEF TypeOK, Rows
      <4>2. CASE firm
        <5>1. number.prefix \notin {"F-", "R-"}
              BY <2>4, <4>1, <4>2 DEF TablesInv, IssuedIsRegistered
        <5>2. number.prefix = RDraft
              BY <3>2, <5>1, NumberType DEF Prefixes, Draft, RDraft
        <5>3. /\ KnownRow(k) /\ k.tool = "generate" /\ k.id = number
              /\ number # None
              BY <1>1, <1>2, <4>2, <5>2, InvoiceToolsAssumption DEF Holds
        <5>4. k.row = None
              BY <2>4, <2>8, <3>2, <4>1, <4>2, <5>2, <5>3 DEF KnownRow
        <5>5. ~Duplicate(d) /\ q \in With(number) /\ issuer # None
              BY <1>1, <2>8, <4>1, <4>2, <5>4 DEF With
        <5> QED BY <2>1, <2>4, <4>1, <4>2, <5>2, <5>5 DEF Duplicate
      <4>3. CASE ~firm
        <5>1. /\ number.prefix = RDraft /\ tool = "rectify"
              /\ number.n > last[RDraft]
              BY <1>2, <3>2, <4>3
        <5>2. number.n \in Nat /\ last[RDraft] \in Nat /\ ~(number.n <= last[RDraft])
              BY <5>1, NumberType DEF TypeOK, Prefixes, RDraft
        <5>3. number \in registered /\ rows[q].issuer # None
              BY <4>1, <5>1, <5>2 DEF TablesInv, DraftsNumbered
        <5>4. ~Duplicate(d) /\ q \in With(number)
              BY <2>8, <4>1, <5>1 DEF Holds, With
        <5> QED BY <2>1, <2>4, <4>1, <4>3, <5>1, <5>3, <5>4 DEF Duplicate
      <4> QED BY <1>3, <4>2, <4>3
    <3>3. OneRow'
      <4> SUFFICES ASSUME NEW p \in DOMAIN rows', NEW q \in DOMAIN rows',
                          rows'[p].number = rows'[q].number,
                          rows'[p].number.prefix # Draft, p # q
                   PROVE  /\ rows'[p].number.prefix = RDraft
                          /\ rows'[p].number \in registered'
                          /\ rows'[p].issuer # rows'[q].issuer
          BY DEF OneRow
      <4>1. CASE p = r
            BY <2>1, <2>8, <3>2, <4>1
      <4>2. CASE q = r
            BY <2>1, <2>8, <3>2, <4>2
      <4>3. CASE p # r /\ q # r
            BY <1>3, <2>8, <4>3 DEF Numbered, TablesInv, OneRow
      <4> QED BY <4>1, <4>2, <4>3
    <3>4. \/ number.n <= last'[RDraft]
          \/ number \in registered' /\ issuer # None
          \/ number.prefix # RDraft
          BY <1>1, <1>2, <1>3, <2>4, NumberType
    <3>5. DraftsNumbered'
      <4> SUFFICES ASSUME NEW q \in DOMAIN rows', rows'[q].number.prefix = RDraft,
                          \/ rows'[q].number \notin registered'
                          \/ rows'[q].issuer = None
                   PROVE  rows'[q].number.n <= last'[RDraft]
          BY DEF DraftsNumbered
      <4>1. CASE q = r
            BY <2>1, <2>8, <3>4, <4>1
      <4>2. CASE q # r
            BY SMTT(30), <1>3, <2>8, <4>2, NumberType
               DEF Numbered, TablesInv, DraftsNumbered, TypeOK, Rows, Prefixes, RDraft
      <4> QED BY <4>1, <4>2
    <3>6. IssuedIsRegistered'
          BY <1>2, <1>3, <2>1, <2>4, <2>8
             DEF Numbered, TablesInv, IssuedIsRegistered, Draft, RDraft
    <3>7. CollectedIsPaid'
          BY <2>1, <2>8 DEF TablesInv, CollectedIsPaid
    <3>8. IssuedIsBooked'
      <4> SUFFICES ASSUME NEW q \in DOMAIN rows', rows'[q].status = "firmada",
                          ~rows'[q].rectifies
                   PROVE  \/ posted'[rows'[q].number] = 1
                          \/ rows'[q].number \in lost'
                          \/ \E i \in DOMAIN queue' : queue'[i] = rows'[q].number
          BY DEF IssuedIsBooked
      <4>1. CASE q = r
            BY <1>3, <2>1, <2>5, <2>8, <4>1
      <4>2. CASE q # r
        <5>1. q \in DOMAIN rows /\ rows'[q] = rows[q] /\ lost' = lost
              BY <2>8, <4>2
        <5>2. rows[q].number \in Numbers
              BY <5>1 DEF TypeOK, Rows
        <5>3. \/ posted[rows[q].number] = 1
              \/ rows[q].number \in lost
              \/ \E i \in DOMAIN queue : queue[i] = rows[q].number
              BY <5>1 DEF TablesInv, IssuedIsBooked
        <5> QED BY <2>5, <5>1, <5>2, <5>3
      <4> QED BY <4>1, <4>2
    <3>9. ASSUME NEW j \in CallRecords, KnownRow(j)
          PROVE  KnownRow(j)'
      <4> SUFFICES ASSUME j.tool = "generate", j.id # None, j.id.prefix = RDraft,
                          j.row # None, j.id \notin registered'
                   PROVE  /\ j.id.n <= last'[RDraft]
                          /\ \A q \in DOMAIN rows' : rows'[q].number = j.id => q = j.row
          BY DEF KnownRow
      <4>1. /\ j.id.n <= last[RDraft]
            /\ \A q \in DOMAIN rows : rows[q].number = j.id => q = j.row
            BY <1>3, <3>9 DEF KnownRow, Numbered
      <4>2. j.id.n <= last'[RDraft] /\ j.id \in Numbers /\ j.id.n \in Nat
            BY SMTT(30), <1>3, <4>1, NumberType DEF CallRecords, Numbered, TypeOK, Prefixes, RDraft
      <4>3. number # j.id
        <5>1. CASE firm
              BY <2>4, <5>1
        <5>2. CASE ~firm
              BY <1>1, <1>2, <4>1, <4>2, <5>2, NumberType DEF TypeOK, Prefixes, RDraft
        <5> QED BY <1>3, <5>1, <5>2
      <4> QED BY <2>1, <2>8, <4>1, <4>2, <4>3
    <3> QED BY <2>5, <3>1, <3>3, <3>5, <3>6, <3>7, <3>8, <3>9 DEF TablesInv
  <2> QED BY <2>3, <2>6, <2>7, <2>8
<1> QED BY <1>1, <1>5, <1>6
-----------------------------------------------------------------------------
(***************************************************************************)
(* The invariant is inductive.                                             *)
(***************************************************************************)

LEMMA InitIInv == Init => IInv
<1> SUFFICES ASSUME Init PROVE IInv
    OBVIOUS
<1>1. TypeOK
      BY InvoiceToolsAssumption DEF Init, TypeOK
<1>2. TablesInv /\ CallsKnow
      BY DEF Init, TablesInv, CallsKnow, RegisteredFirm, OneRow, DraftsNumbered,
             QueueFresh, PostedOnce, IssuedIsRegistered, CollectedIsPaid,
             IssuedIsBooked
<1> QED BY <1>1, <1>2 DEF IInv

\* What waits keeps what it knows when no coroutine but its own goes on.
LEMMA CallsKept ==
    ASSUME TypeOK, CallsKnow,
           \A c \in Calls : call'[c] # None => call'[c] = call[c],
           \A j \in CallRecords : KnownRow(j) => KnownRow(j)'
    PROVE  CallsKnow'
BY DEF TypeOK, CallsKnow, CallRecords

LEMMA WaitStep ==
    ASSUME IInv, NEW c \in Calls, NEW tool \in Tools, NEW id \in Numbers \cup {None},
           NEW row \in Nat \cup {None}, NEW amount \in Amounts,
           Wait(c, tool, id, row, amount),
           KnownRow([tool |-> tool, id |-> id, row |-> row, amount |-> amount]),
           tool = "rectify" => id = None /\ row = None
    PROVE  IInv'
<1> DEFINE k == [tool |-> tool, id |-> id, row |-> row, amount |-> amount]
<1>1. k \in CallRecords
      BY DEF CallRecords
<1>2. TypeOK'
      BY <1>1 DEF IInv, TypeOK, Wait, tables
<1>3. TablesInv'
      BY DEF IInv, Wait, tables, TablesInv, RegisteredFirm, OneRow,
             DraftsNumbered, QueueFresh, PostedOnce, IssuedIsRegistered,
             CollectedIsPaid, IssuedIsBooked
<1>4. call' = [call EXCEPT ![c] = k] /\ UNCHANGED <<registered, rows, last>>
      BY DEF Wait, tables
<1>5. ASSUME NEW b \in Calls, call'[b] # None
      PROVE  /\ KnownRow(call[b])' 
             /\ call'[b].tool = "rectify" => call'[b].id = None /\ call'[b].row = None
  <2>1. CASE b = c
        BY <1>4, <2>1 DEF IInv, TypeOK, KnownRow
  <2>2. CASE b # c
        BY <1>4, <1>5, <2>2 DEF IInv, TypeOK, CallsKnow, KnownRow
  <2> QED BY <2>1, <2>2
<1> QED BY <1>2, <1>3, <1>5 DEF IInv, CallsKnow

LEMMA AmountType ==
    ASSUME TypeOK, NEW row \in DOMAIN rows \cup {None}, NEW amount \in 0..MaxAmount
    PROVE  Amount(row, amount) \in Amounts
BY InvoiceToolsAssumption DEF TypeOK, Amount, Amounts, Rows

LEMMA RowType ==
    ASSUME TypeOK
    PROVE  DOMAIN rows \subseteq Nat
BY InvoiceToolsAssumption DEF TypeOK

LEMMA GenerateStep ==
    ASSUME IInv, NEW c \in Calls, NEW id \in Given \cup {None},
           NEW amount \in 0..MaxAmount, Generate(c, id, amount)
    PROVE  IInv'
<1>1. PICK row \in DOMAIN rows \cup {None} :
          /\ IF id = None THEN row = None ELSE Found(id, row)
          /\ Wait(c, "generate", id, row, Amount(row, amount))
      BY DEF Generate
<1>2. Amount(row, amount) \in Amounts /\ row \in Nat \cup {None}
      BY AmountType, RowType DEF IInv
<1>3. id \in Numbers \cup {None}
      BY InvoiceToolsAssumption
<1> DEFINE k == [tool |-> "generate", id |-> id, row |-> row,
                 amount |-> Amount(row, amount)]
<1>4. KnownRow(k)
  <2> SUFFICES ASSUME id # None, id.prefix = RDraft, row # None, id \notin registered
               PROVE  /\ id.n <= last[RDraft]
                      /\ \A r \in DOMAIN rows : rows[r].number = id => r = row
      BY DEF KnownRow
  <2>1. row \in DOMAIN rows /\ rows[row].number = id
        BY <1>1 DEF Found, With
  <2> QED BY <2>1 DEF IInv, TablesInv, DraftsNumbered, OneRow, Draft, RDraft
<1> QED BY <1>1, <1>2, <1>3, <1>4, WaitStep DEF Tools

LEMMA RectifyStep ==
    ASSUME IInv, NEW c \in Calls, NEW id \in Given, NEW amount \in Corrections,
           Rectify(c, id, amount)
    PROVE  IInv'
<1>1. PICK sum \in Amounts : Wait(c, "rectify", None, None, sum)
      BY InvoiceToolsAssumption DEF Rectify, With, IInv, TypeOK, Rows
<1> QED BY <1>1, WaitStep DEF Tools, KnownRow

LEMMA CancelStep ==
    ASSUME IInv, NEW c \in Calls, NEW id \in Given, Cancel(c, id)
    PROVE  IInv'
<1>1. PICK row \in Nat : Wait(c, "cancel", None, row, 0)
      BY RowType DEF Cancel, With, IInv
<1>2. 0 \in Amounts
      BY InvoiceToolsAssumption DEF Amounts
<1> QED BY <1>1, <1>2, WaitStep DEF Tools, KnownRow

LEMMA GenerateDraftStep ==
    ASSUME IInv, NEW id \in Given \cup {None}, GenerateDraft(id, 0)
    PROVE  IInv'
<1>1. PICK row \in DOMAIN rows \cup {None} :
          Issue("generate", FALSE, [id |-> id, row |-> row, amount |-> 0])
      BY DEF GenerateDraft
<1> DEFINE k == [id |-> id, row |-> row, amount |-> 0]
<1>2. Holds("generate", FALSE, k)
      BY RowType, InvoiceToolsAssumption DEF Holds, Amounts, IInv
<1>3. call' = call /\ UNCHANGED <<paid, year, lost>>
      BY DEF GenerateDraft
<1>4. /\ TypeOK' /\ TablesInv'
      /\ \A j \in CallRecords : KnownRow(j) => KnownRow(j)'
      BY <1>1, <1>2, <1>3, IssueStep DEF IInv, TypeOK
<1> QED BY <1>3, <1>4, CallsKept DEF IInv

LEMMA ResumeStep ==
    ASSUME IInv, NEW c \in Calls, Resume(c)
    PROVE  IInv'
<1>1. PICK firm \in BOOLEAN : Issue(call[c].tool, firm, call[c])
      BY DEF Resume
<1>2. Holds(call[c].tool, firm, call[c])
      BY <1>1 DEF Resume, Holds, IInv, TypeOK, CallsKnow, CallRecords
<1>3. /\ call' = [call EXCEPT ![c] = None] /\ UNCHANGED <<paid, year, lost>>
      /\ call' \in [Calls -> CallRecords \cup {None}]
      BY DEF Resume, Return, IInv, TypeOK
<1>4. /\ TypeOK' /\ TablesInv'
      /\ \A j \in CallRecords : KnownRow(j) => KnownRow(j)'
      BY <1>1, <1>2, <1>3, IssueStep DEF IInv
<1>5. \A b \in Calls : call'[b] # None => call'[b] = call[b]
      BY <1>3 DEF IInv, TypeOK
<1> QED BY <1>4, <1>5, CallsKept DEF IInv

LEMMA FailStep ==
    ASSUME IInv, NEW c \in Calls, Fail(c)
    PROVE  IInv'
<1>1. TypeOK' /\ \A b \in Calls : call'[b] # None => call'[b] = call[b]
      BY DEF Fail, Return, IInv, TypeOK, tables
<1>2. TablesInv' /\ \A j \in CallRecords : KnownRow(j) => KnownRow(j)'
      BY DEF Fail, tables, KnownRow, IInv, TablesInv, RegisteredFirm, OneRow,
             DraftsNumbered, QueueFresh, PostedOnce, IssuedIsRegistered,
             CollectedIsPaid, IssuedIsBooked
<1> QED BY <1>1, <1>2, CallsKept DEF IInv

LEMMA DeleteStep ==
    ASSUME IInv, NEW c \in Calls, Delete(c)
    PROVE  IInv'
<1>1. /\ DOMAIN rows' \subseteq DOMAIN rows
      /\ \A r \in DOMAIN rows' : rows'[r] = rows[r]
      /\ rows' = [r \in DOMAIN rows' |-> rows'[r]]
      BY DEF Delete
<1>2. TypeOK' /\ \A b \in Calls : call'[b] # None => call'[b] = call[b]
      BY <1>1 DEF Delete, Return, IInv, TypeOK
<1>3. RegisteredFirm' /\ OneRow' /\ DraftsNumbered'
      BY <1>1 DEF Delete, IInv, TablesInv, RegisteredFirm, OneRow, DraftsNumbered
<1>4. QueueFresh' /\ PostedOnce'
      BY DEF Delete, IInv, TablesInv, QueueFresh, PostedOnce
<1>5. IssuedIsRegistered' /\ CollectedIsPaid' /\ IssuedIsBooked'
      BY <1>1 DEF Delete, IInv, TablesInv, IssuedIsRegistered, CollectedIsPaid,
                  IssuedIsBooked
<1>6. \A j \in CallRecords : KnownRow(j) => KnownRow(j)'
      BY <1>1 DEF Delete, KnownRow
<1> QED BY <1>2, <1>3, <1>4, <1>5, <1>6, CallsKept DEF IInv, TablesInv

LEMMA RegisterPaymentStep ==
    ASSUME IInv, NEW number \in Given, NEW amount \in Amounts,
           RegisterPayment(number, amount)
    PROVE  IInv'
<1> USE DEF IInv
<1>1. PICK row \in With(number) :
          /\ paid[number] < rows[row].amount
          /\ rows' = IF paid[number] + amount = rows[row].amount
                     THEN [rows EXCEPT ![row].status = "cobrada"] ELSE rows
      BY DEF RegisterPayment
<1>2. row \in DOMAIN rows /\ rows[row].number = number
      BY DEF With
<1>3. /\ number \in Numbers /\ amount \in Int /\ paid[number] \in Int
      /\ paid' = [paid EXCEPT ![number] = @ + amount]
      /\ UNCHANGED <<call, last, registered, nextRow, posted, year, queue, lost>>
      BY InvoiceToolsAssumption DEF RegisterPayment, Amounts, TypeOK
<1>4. /\ DOMAIN rows' = DOMAIN rows /\ rows' \in [DOMAIN rows' -> Rows]
      /\ \A r \in DOMAIN rows : /\ rows'[r].number = rows[r].number
                                /\ rows'[r].amount = rows[r].amount
                                /\ rows'[r].issuer = rows[r].issuer
                                /\ rows'[r].rectifies = rows[r].rectifies
                                /\ \/ rows'[r].status = rows[r].status
                                   \/ /\ r = row /\ rows'[r].status = "cobrada"
                                      /\ paid[number] + amount = rows[row].amount
  <2>1. rows \in [DOMAIN rows -> Rows]
        BY DEF TypeOK
  <2>2. [rows[row] EXCEPT !.status = "cobrada"] \in Rows
        BY <1>2, <2>1 DEF Rows, Statuses
  <2> QED BY <1>1, <1>2, <2>1, <2>2 DEF Rows
<1>5. /\ paid' \in [Numbers -> Int]
      /\ \A n \in Numbers \ {number} : paid'[n] = paid[n]
      BY <1>3 DEF TypeOK
<1>6. TypeOK'
      BY <1>3, <1>4, <1>5 DEF TypeOK
<1>7. RegisteredFirm' /\ OneRow' /\ DraftsNumbered'
      BY <1>3, <1>4 DEF TablesInv, RegisteredFirm, OneRow, DraftsNumbered
<1>8. QueueFresh' /\ PostedOnce'
      BY <1>3 DEF TablesInv, QueueFresh, PostedOnce
<1>9. IssuedIsRegistered'
      BY <1>3, <1>4 DEF TablesInv, IssuedIsRegistered
<1>10. IssuedIsBooked'
      BY <1>3, <1>4 DEF TablesInv, IssuedIsBooked
<1>11. CollectedIsPaid'
  <2> SUFFICES ASSUME NEW r \in DOMAIN rows, rows'[r].status = "cobrada",
                      rows[r].number.prefix \in {"F-", "R-"}
               PROVE  paid'[rows[r].number] >= rows[r].amount
      BY <1>4 DEF CollectedIsPaid
  <2>1. /\ rows[r].number \in Numbers /\ rows[r].amount \in Int
        /\ paid[rows[r].number] \in Int
        BY InvoiceToolsAssumption DEF TypeOK, Rows, Amounts
  <2>2. CASE rows[r].number # number
    <3>1. rows[r].status = "cobrada"
          BY <1>2, <1>4, <2>2
    <3> QED BY <1>5, <2>1, <2>2, <3>1 DEF TablesInv, CollectedIsPaid
  <2>3. CASE rows[r].number = number
    <3>1. r = row
          BY <1>2, <2>3 DEF TablesInv, OneRow, Draft, RDraft
    <3>2. rows[r].status # "cobrada"
          BY <1>1, <2>1, <2>3, <3>1 DEF TablesInv, CollectedIsPaid
    <3>3. paid[number] + amount = rows[row].amount
          BY <1>4, <3>2
    <3> QED BY <1>3, <2>1, <2>3, <3>1, <3>3 DEF TypeOK
  <2> QED BY <2>2, <2>3
<1>12. CallsKnow'
      BY <1>3, <1>4 DEF CallsKnow, KnownRow
<1> QED BY <1>6, <1>7, <1>8, <1>9, <1>10, <1>11, <1>12 DEF TablesInv

LEMMA HandleStep ==
    ASSUME IInv, Handle
    PROVE  IInv'
<1> USE DEF IInv
<1> DEFINE n == queue[1]
<1>1. /\ queue # <<>> /\ queue' = Tail(queue) /\ n \in Numbers /\ 1 \in DOMAIN queue
      /\ UNCHANGED <<call, last, registered, rows, nextRow, paid, year>>
      /\ \/ posted' = [posted EXCEPT ![n] = @ + 1] /\ lost' = lost
         \/ lost' = lost \cup {n} /\ posted' = posted
      BY DEF Handle, Post, TypeOK
<1>2. /\ Len(queue) \in Nat /\ DOMAIN queue = 1..Len(queue)
      /\ queue' \in Seq(Numbers) /\ DOMAIN queue' = 1..(Len(queue) - 1)
      /\ \A i \in DOMAIN queue' : queue'[i] = queue[i + 1] /\ i + 1 \in DOMAIN queue
      BY <1>1 DEF TypeOK
<1>3. n \in registered /\ posted[n] = 0
      BY <1>1 DEF TablesInv, QueueFresh
<1>4. \A i \in DOMAIN queue' : queue'[i] # n /\ queue'[i] \in Numbers
      BY <1>1, <1>2 DEF TablesInv, QueueFresh, TypeOK
<1>5. \/ posted' = [posted EXCEPT ![n] = 1] /\ lost' = lost
      \/ lost' = lost \cup {n} /\ posted' = posted
      BY <1>1, <1>3
<1>6. TypeOK'
      BY <1>1, <1>2, <1>5 DEF TypeOK
<1>7. RegisteredFirm' /\ OneRow' /\ DraftsNumbered' /\ IssuedIsRegistered'
      /\ CollectedIsPaid' /\ CallsKnow'
      BY <1>1 DEF TablesInv, RegisteredFirm, OneRow, DraftsNumbered,
                  IssuedIsRegistered, CollectedIsPaid, CallsKnow, KnownRow
<1>8. PostedOnce'
  <2>1. CASE posted' = [posted EXCEPT ![n] = 1]
        BY <1>1, <1>3, <2>1 DEF TablesInv, PostedOnce, TypeOK
  <2>2. CASE posted' = posted
        BY <1>1, <2>2 DEF TablesInv, PostedOnce
  <2> QED BY <1>5, <2>1, <2>2
<1>9. QueueFresh'
  <2> SUFFICES ASSUME NEW i \in DOMAIN queue'
               PROVE  /\ queue'[i] \in registered /\ posted'[queue'[i]] = 0
                      /\ \A j \in DOMAIN queue' : queue'[i] = queue'[j] => i = j
      BY <1>1 DEF QueueFresh
  <2>1. queue'[i] \in registered /\ posted[queue'[i]] = 0
        BY <1>2 DEF TablesInv, QueueFresh
  <2>2. posted'[queue'[i]] = 0
        BY <1>4, <1>5, <2>1 DEF TypeOK
  <2>3. ASSUME NEW j \in DOMAIN queue', queue'[i] = queue'[j]
        PROVE  i = j
    <3>1. i + 1 = j + 1
          BY <1>2, <2>3 DEF TablesInv, QueueFresh
    <3> QED BY <1>2, <3>1
  <2> QED BY <2>1, <2>2, <2>3
<1>10. IssuedIsBooked'
  <2> SUFFICES ASSUME NEW r \in DOMAIN rows, rows[r].status = "firmada",
                      ~rows[r].rectifies
               PROVE  \/ posted'[rows[r].number] = 1
                      \/ rows[r].number \in lost'
                      \/ \E i \in DOMAIN queue' : queue'[i] = rows[r].number
      BY <1>1 DEF IssuedIsBooked
  <2>1. rows[r].number \in Numbers
        BY DEF TypeOK, Rows
  <2>2. \/ posted[rows[r].number] = 1
        \/ rows[r].number \in lost
        \/ \E i \in DOMAIN queue : queue[i] = rows[r].number
        BY DEF TablesInv, IssuedIsBooked
  <2>3. CASE posted[rows[r].number] = 1 \/ rows[r].number \in lost
        BY <1>1, <1>5, <2>1, <2>3 DEF TypeOK
  <2>4. CASE \E i \in DOMAIN queue : queue[i] = rows[r].number
    <3>1. PICK i \in DOMAIN queue : queue[i] = rows[r].number
          BY <2>4
    <3>2. CASE i = 1
          BY <1>1, <1>5, <3>1, <3>2 DEF TypeOK
    <3>3. CASE i # 1
      <4>1. i - 1 \in DOMAIN queue' /\ (i - 1) + 1 = i
            BY <1>2, <3>3
      <4> QED BY <1>2, <3>1, <4>1
    <3> QED BY <3>2, <3>3
  <2> QED BY <2>2, <2>3, <2>4
<1> QED BY <1>6, <1>7, <1>8, <1>9, <1>10 DEF TablesInv

LEMMA CloseYearStep ==
    ASSUME IInv, CloseYear
    PROVE  IInv'
<1>1. TypeOK'
      BY DEF CloseYear, IInv, TypeOK
<1>2. TablesInv' /\ CallsKnow'
      BY DEF CloseYear, KnownRow, CallsKnow, IInv, TablesInv, RegisteredFirm,
             OneRow, DraftsNumbered, QueueFresh, PostedOnce, IssuedIsRegistered,
             CollectedIsPaid, IssuedIsBooked
<1> QED BY <1>1, <1>2 DEF IInv

LEMMA CrashStep ==
    ASSUME IInv, Crash
    PROVE  IInv'
<1>1. \A i \in DOMAIN queue : queue[i] \in Numbers /\ queue[i] \in lost'
      BY DEF Crash, IInv, TypeOK
<1>2. lost' \subseteq Numbers /\ lost \subseteq lost'
      BY <1>1 DEF Crash, IInv, TypeOK
<1>3. TypeOK'
      BY <1>2 DEF Crash, IInv, TypeOK, tables
<1>4. RegisteredFirm' /\ OneRow' /\ DraftsNumbered' /\ QueueFresh' /\ PostedOnce'
      BY DEF Crash, tables, IInv, TablesInv, RegisteredFirm, OneRow,
             DraftsNumbered, QueueFresh, PostedOnce
<1>5. IssuedIsRegistered' /\ CollectedIsPaid' /\ CallsKnow'
      BY DEF Crash, tables, IInv, TablesInv, IssuedIsRegistered,
             CollectedIsPaid, CallsKnow
<1>6. IssuedIsBooked'
      BY <1>1, <1>2 DEF Crash, tables, IInv, TablesInv, IssuedIsBooked
<1> QED BY <1>3, <1>4, <1>5, <1>6 DEF IInv, TablesInv

LEMMA StutterStep ==
    ASSUME IInv, UNCHANGED vars
    PROVE  IInv'
<1>1. TypeOK'
      BY DEF vars, tables, IInv, TypeOK
<1>2. TablesInv' /\ CallsKnow'
      BY DEF vars, tables, KnownRow, CallsKnow, IInv, TablesInv, RegisteredFirm,
             OneRow, DraftsNumbered, QueueFresh, PostedOnce, IssuedIsRegistered,
             CollectedIsPaid, IssuedIsBooked
<1> QED BY <1>1, <1>2 DEF IInv
-----------------------------------------------------------------------------
(***************************************************************************)
(* What the tools keep, whatever is called in whatever order and wherever  *)
(* it fails: the inductive invariant.                                      *)
(***************************************************************************)
THEOREM ToolsInvariant == Spec => []IInv
<1>1. IInv /\ [Next]_vars => IInv'
  <2> SUFFICES ASSUME IInv, [Next]_vars PROVE IInv'
      OBVIOUS
  <2>1. ASSUME NEW c \in Calls, NEW id \in Given \cup {None},
               NEW amount \in 0..MaxAmount, Generate(c, id, amount)
        PROVE  IInv'
        BY <2>1, GenerateStep
  <2>2. ASSUME NEW id \in Given \cup {None}, GenerateDraft(id, 0)
        PROVE  IInv'
        BY <2>2, GenerateDraftStep
  <2>3. ASSUME NEW c \in Calls, NEW id \in Given, NEW amount \in Corrections,
               Rectify(c, id, amount)
        PROVE  IInv'
        BY <2>3, RectifyStep
  <2>4. ASSUME NEW c \in Calls, NEW id \in Given, Cancel(c, id)
        PROVE  IInv'
        BY <2>4, CancelStep
  <2>5. ASSUME NEW c \in Calls, Resume(c) \/ Fail(c) \/ Delete(c)
        PROVE  IInv'
        BY <2>5, ResumeStep, FailStep, DeleteStep
  <2>6. ASSUME NEW number \in Given, NEW amount \in Amounts,
               RegisterPayment(number, amount)
        PROVE  IInv'
        BY <2>6, RegisterPaymentStep
  <2>7. CASE Handle \/ CloseYear \/ Crash
        BY <2>7, HandleStep, CloseYearStep, CrashStep
  <2>8. CASE UNCHANGED vars
        BY <2>8, StutterStep
  <2> QED BY <2>1, <2>2, <2>3, <2>4, <2>5, <2>6, <2>7, <2>8 DEF Next
<1> QED BY <1>1, InitIInv, PTL DEF Spec

\* The type invariant of the runs.
THEOREM ToolsTyped == Spec => []TypeOK
<1>1. IInv => TypeOK
      BY DEF IInv
<1> QED BY <1>1, ToolsInvariant, PTL

\* What the books show as issued is registered with the tax agency.
THEOREM AlwaysRegistered == Spec => []IssuedIsRegistered
<1>1. IInv => IssuedIsRegistered
      BY DEF IInv, TablesInv
<1> QED BY <1>1, ToolsInvariant, PTL

\* The register keeps apart the numbers that the table does not.
THEOREM AlwaysOneRow == Spec => []RegisteredOnce
<1>1. IInv => RegisteredOnce
      BY DEF IInv, TablesInv, RegisteredFirm, OneRow, RegisteredOnce, RDraft
<1> QED BY <1>1, ToolsInvariant, PTL

\* No invoice is booked twice, none that is not registered.
THEOREM AlwaysPostedOnce == Spec => []PostedOnce
<1>1. IInv => PostedOnce
      BY DEF IInv, TablesInv
<1> QED BY <1>1, ToolsInvariant, PTL

\* What is shown as collected is paid.
THEOREM AlwaysPaid == Spec => []CollectedIsPaid
<1>1. IInv => CollectedIsPaid
      BY DEF IInv, TablesInv
<1> QED BY <1>1, ToolsInvariant, PTL

\* No booking is lost but by a crash or a booking that failed.
THEOREM AlwaysBooked == Spec => []IssuedIsBooked
<1>1. IInv => IssuedIsBooked
      BY DEF IInv, TablesInv
<1> QED BY <1>1, ToolsInvariant, PTL
=============================================================================

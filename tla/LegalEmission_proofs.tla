------------------------- MODULE LegalEmission_proofs -------------------------
(***************************************************************************)
(* Theorems about LegalEmission, for any number of threads, tenants,       *)
(* series, invoices and faults.                                            *)
(*                                                                         *)
(* All of them rest on the exclusive writer: from Begin to Leave nobody    *)
(* else commits to the table of the tenant (Exclusive), so that what a     *)
(* thread has read, sent or collected stays true until it commits (Known,  *)
(* Collected).  Those about the order of a series assume clients that use  *)
(* its numbers in order (InOrder); its refinement, that the rows of a      *)
(* series are then in the order of their numbers (Ascending).              *)
(***************************************************************************)
EXTENDS LegalEmission, SequenceTheorems, FiniteSetTheorems,
        WellFoundedInduction, TLAPS

Settled == {"DELIVERED_AEAT", "REJECTED_AEAT"}

\* The statuses an open transaction may hold.
Patches == UNION {[ids -> Settled] : ids \in SUBSET Nat}

TypeInv ==
    /\ rows \in [Tenants -> Seq(RowSet)]
    /\ aeat \subseteq XmlSet
    /\ writer \in [Tenants -> Threads \cup {None}]
    /\ pc \in [Threads -> Steps]
    /\ cmd \in [Threads -> CmdSet]
    /\ found \in [Threads -> SUBSET Nat]
    /\ patch \in [Threads -> Patches]
    /\ faults \in 0..MaxFaults

Sending == {"begin", "send", "insert"}

\* A thread is where its kind can be, with a request or a tenant of its own.
PlaceOf(t) ==
    /\ pc[t] = "idle" => cmd[t] = NoCmd /\ found[t] = {} /\ patch[t] = <<>>
    /\ pc[t] \in Sending =>
           t \in Emitters /\ cmd[t].tenant \in Tenants /\ cmd[t].inv \in Invs
    /\ pc[t] = "resend" => t \in Retriers /\ cmd[t].tenant \in Tenants

\* A batch handles incidents of its table: nobody else has settled them.
Collected(t) ==
    pc[t] = "resend" =>
        \A i \in found[t] \cup DOMAIN patch[t] :
            /\ i \in DOMAIN rows[cmd[t].tenant]
            /\ Incident(rows[cmd[t].tenant][i])

\* Whoever is inside a transaction is the writer of its tenant.
Exclusive(t) ==
    pc[t] \in {"send", "insert", "resend"} => writer[cmd[t].tenant] = t

\* What a thread will commit as delivered, the AEAT holds.
Known(t) ==
    /\ pc[t] \in {"begin", "send"} => cmd[t].status = "LOCAL_RECORDED"
    /\ pc[t] = "insert" /\ cmd[t].status = "DELIVERED_AEAT" =>
           Xml(cmd[t].tenant, cmd[t].inv, cmd[t].prev) \in aeat
    /\ pc[t] = "resend" =>
           \A i \in DOMAIN patch[t] : patch[t][i] = "DELIVERED_AEAT" =>
               LET row == rows[cmd[t].tenant][i] IN
               Xml(cmd[t].tenant, row.inv, row.prev) \in aeat

ThreadInv(t) == PlaceOf(t) /\ Collected(t) /\ Exclusive(t) /\ Known(t)

IInv == TypeInv /\ (\A t \in Threads : ThreadInv(t)) /\ DeliveredIsHeld

\* The rows of a series, and their order in an audit.
Of(tn, s) == {i \in DOMAIN rows[tn] : rows[tn][i].inv[1] = s}

Num(tn, i) == rows[tn][i].inv[2]

Prior(tn, j, i) == Num(tn, j) < Num(tn, i) \/ (Num(tn, j) = Num(tn, i) /\ j < i)

\* Row j is the last one of its series before row i.
IsPrevious(tn, s, j, i) ==
    /\ j \in Of(tn, s) /\ Prior(tn, j, i)
    /\ \A k \in Of(tn, s) : Prior(tn, k, i) /\ k # j => Prior(tn, k, j)

\* Every row of a series is linked to the one before it.
Chained(tn, s) ==
    \A i \in Of(tn, s) :
        /\ rows[tn][i].hash = Digest(rows[tn][i].inv, rows[tn][i].prev)
        /\ (\A k \in Of(tn, s) : ~Prior(tn, k, i)) => rows[tn][i].prev = Genesis
        /\ \A j \in Of(tn, s) :
               IsPrevious(tn, s, j, i) => rows[tn][i].prev = rows[tn][j].hash

\* With clients in order: the numbers of a series are below the one a thread
\* was asked for, and no other thread was asked for one.
Turn(t) ==
    pc[t] # "idle" =>
        /\ \A u \in Emitters \ {t} :
               pc[u] # "idle" /\ cmd[u].tenant = cmd[t].tenant =>
                   cmd[u].inv[1] # cmd[t].inv[1]
        /\ \A i \in Of(cmd[t].tenant, cmd[t].inv[1]) :
               Num(cmd[t].tenant, i) < cmd[t].inv[2]

\* This is the digest of the last row of a series.
Newest(tn, s, prev) ==
    /\ Of(tn, s) = {} => prev = Genesis
    /\ \A i \in Of(tn, s) :
           (\A j \in Of(tn, s) \ {i} : Prior(tn, j, i)) => prev = rows[tn][i].hash

\* The digest a thread holds is the newest one of the series.
PrevFresh(t) ==
    pc[t] \in {"send", "insert"} =>
        Newest(cmd[t].tenant, cmd[t].inv[1], cmd[t].prev)

OrderInv ==
    /\ \A t \in Emitters : Turn(t) /\ PrevFresh(t)
    /\ \A tn \in Tenants, s \in Series : Chained(tn, s)
    /\ HeldIsRegistered
-----------------------------------------------------------------------------
(***************************************************************************)
(* Lemmas about numbers and tables.                                        *)
(***************************************************************************)

LEMMA LeastElement ==
    ASSUME NEW T \in SUBSET Nat, T # {}
    PROVE  \E m \in T : \A k \in T : m <= k
<1> DEFINE Below == {ss \in Nat \X Nat : ss[1] < ss[2]}
<1>1. IsWellFoundedOn(Below, Nat)
      BY NatLessThanWellFounded DEF OpToRel
<1>2. \A x, y \in Nat : <<y, x>> \notin Below => x <= y
      OBVIOUS
<1> HIDE DEF Below
<1>3. PICK x \in T : \A y \in T : <<y, x>> \notin Below
      BY <1>1, WFMin
<1> QED BY <1>2, <1>3

\* A key on a part of 1..n has a greatest element, the last one of its kind.
Greatest(S, key, i) ==
    i \in S /\ \A j \in S : key[i] > key[j] \/ (key[i] = key[j] /\ i >= j)

LEMMA GreatestExists ==
    ASSUME NEW n \in Nat, NEW S \in SUBSET (1..n), S # {}, NEW key \in [S -> Nat]
    PROVE  \E i \in S : Greatest(S, key, i)
<1> DEFINE Upto(m) == S \cap 1..m
           Bad == {m \in Nat : Upto(m) # {} /\ ~\E i \in S : Greatest(Upto(m), key, i)}
<1>1. Bad = {}
  <2> SUFFICES ASSUME Bad # {} PROVE FALSE
      OBVIOUS
  <2>1. PICK m \in Bad : \A k \in Bad : m <= k
        BY LeastElement
  <2>2. m \in Nat /\ Upto(m) # {} /\ m # 0
        BY <2>1
  <2>3. m - 1 \notin Bad /\ m - 1 \in Nat
        BY <2>1, <2>2
  <2>4. Upto(m) = Upto(m - 1) \/ (m \in S /\ Upto(m) = Upto(m - 1) \cup {m})
        BY <2>2
  <2>5. m \in S /\ Upto(m) = Upto(m - 1) \cup {m}
        BY <2>1, <2>3, <2>4
  <2>6. CASE Upto(m - 1) = {}
    <3>1. Greatest({m}, key, m)
          BY <2>2, <2>5 DEF Greatest
    <3> QED BY <2>1, <2>5, <2>6, <3>1
  <2>7. CASE Upto(m - 1) # {}
    <3> HIDE DEF Upto
    <3>1. PICK g \in S : Greatest(Upto(m - 1), key, g)
          BY <2>3, <2>7
    <3>2. \A j \in Upto(m - 1) : j \in S /\ j < m /\ j \in Nat /\ key[j] \in Nat
          BY <2>2 DEF Upto
    <3>3. g \in Upto(m - 1) /\ key[m] \in Nat /\ m \in S
          BY <2>5, <3>1 DEF Greatest
    <3>4. CASE key[g] > key[m]
      <4>1. Greatest(Upto(m - 1) \cup {m}, key, g)
            BY <3>1, <3>2, <3>3, <3>4 DEF Greatest
      <4> QED BY <2>1, <2>5, <4>1
    <3>5. CASE ~(key[g] > key[m])
      <4>1. Greatest(Upto(m - 1) \cup {m}, key, m)
            BY <2>2, <3>1, <3>2, <3>3, <3>5 DEF Greatest
      <4> QED BY <2>1, <2>5, <3>3, <4>1
    <3> QED BY <3>4, <3>5
  <2> QED BY <2>6, <2>7
<1>2. Upto(n) = S
      OBVIOUS
<1>3. n \notin Bad
      BY <1>1
<1> QED BY <1>2, <1>3

LEMMA FirstIs ==
    ASSUME NEW ids \in SUBSET Nat, ids # {}
    PROVE  First(ids) \in ids
BY LeastElement DEF First

LEMMA WithPatch ==
    ASSUME NEW p \in Patches, NEW id \in Nat, NEW status \in Settled
    PROVE  /\ With(p, id, status) \in Patches
           /\ DOMAIN With(p, id, status) = DOMAIN p \cup {id}
           /\ With(p, id, status)[id] = status
           /\ \A i \in DOMAIN p : i # id => With(p, id, status)[i] = p[i]
<1>1. DOMAIN p \in SUBSET Nat /\ p \in [DOMAIN p -> Settled]
      BY DEF Patches
<1>2. With(p, id, status) \in [DOMAIN p \cup {id} -> Settled]
      BY <1>1 DEF With
<1>3. DOMAIN p \cup {id} \in SUBSET Nat
      BY <1>1
<1> QED BY <1>2, <1>3 DEF Patches, With

LEMMA PatchedRows ==
    ASSUME NEW table \in Seq(RowSet), NEW p \in Patches
    PROVE  /\ Patched(table, p) \in Seq(RowSet)
           /\ DOMAIN Patched(table, p) = DOMAIN table
           /\ \A i \in DOMAIN table :
                  /\ i \notin DOMAIN p => Patched(table, p)[i] = table[i]
                  /\ i \in DOMAIN p =>
                         Patched(table, p)[i] = [table[i] EXCEPT !.status = p[i]]
<1> DEFINE new == Patched(table, p)
<1>1. DOMAIN table = 1..Len(table) /\ Len(table) \in Nat
      OBVIOUS
<1>2. p \in [DOMAIN p -> Settled]
      BY DEF Patches
<1>3. /\ DOMAIN new = DOMAIN table
      /\ \A i \in DOMAIN table :
             /\ i \notin DOMAIN p => new[i] = table[i]
             /\ i \in DOMAIN p => new[i] = [table[i] EXCEPT !.status = p[i]]
      BY DEF Patched
<1>4. \A i \in DOMAIN table : new[i] \in RowSet
  <2> SUFFICES ASSUME NEW i \in DOMAIN table PROVE new[i] \in RowSet
      OBVIOUS
  <2>1. table[i] \in RowSet
        OBVIOUS
  <2>2. CASE i \in DOMAIN p
    <3>1. p[i] \in Status
          BY <1>2, <2>2 DEF Settled, Status
    <3> QED BY <1>3, <2>1, <2>2, <3>1 DEF RowSet
  <2> QED BY <1>3, <2>1, <2>2
<1>5. new = [i \in 1..Len(table) |-> new[i]]
      BY <1>1 DEF Patched
<1>6. new \in Seq(RowSet)
  <2> HIDE DEF new
  <2> QED BY <1>1, <1>4, <1>5
<1> QED BY <1>3, <1>6

LEMMA AppendedRows ==
    ASSUME NEW table \in Seq(RowSet), NEW row \in RowSet
    PROVE  LET new == Append(table, row) IN
           /\ new \in Seq(RowSet)
           /\ DOMAIN table = 1..Len(table) /\ Len(table) \in Nat
           /\ DOMAIN new = DOMAIN table \cup {Len(table) + 1}
           /\ \A i \in DOMAIN table : new[i] = table[i] /\ i \in Nat /\ i < Len(table) + 1
           /\ new[Len(table) + 1] = row
OBVIOUS

LEMMA DigestType ==
    ASSUME NEW inv \in Invs, NEW prev \in Seq(Invs)
    PROVE  Digest(inv, prev) \in Seq(Invs)
BY DEF Digest

LEMMA NewRowType ==
    ASSUME NEW inv \in Invs, NEW prev \in Seq(Invs), NEW status \in Status
    PROVE  /\ Row(inv, prev, status) \in RowSet
           /\ Row(inv, prev, status).inv = inv
           /\ Row(inv, prev, status).prev = prev
           /\ Row(inv, prev, status).hash = Digest(inv, prev)
           /\ Row(inv, prev, status).status = status
BY DigestType DEF Row, RowSet

LEMMA XmlType ==
    ASSUME NEW tn \in Tenants, NEW inv \in Invs, NEW prev \in Seq(Invs)
    PROVE  Xml(tn, inv, prev) \in XmlSet
BY DEF Xml, XmlSet

LEMMA InvType ==
    ASSUME NEW inv \in Invs
    PROVE  inv[1] \in Series /\ inv[1] \in Nat /\ inv[2] \in Nat
BY EmissionAssumption

LEMMA RowsHere ==
    ASSUME TypeInv, NEW tn \in Tenants, NEW i \in DOMAIN rows[tn]
    PROVE  /\ rows[tn][i] \in RowSet /\ i \in Nat
           /\ rows[tn][i].inv \in Invs /\ rows[tn][i].prev \in Seq(Invs)
           /\ rows[tn][i].hash \in Seq(Invs)
           /\ SeriesOf(rows[tn][i]) = rows[tn][i].inv[1]
           /\ NumberOf(rows[tn][i]) = rows[tn][i].inv[2]
           /\ NumberOf(rows[tn][i]) \in Nat
           /\ OwnerOf(rows[tn][i], tn) = tn
<1>1. rows[tn] \in Seq(RowSet)
      BY DEF TypeInv
<1>2. rows[tn][i] \in RowSet /\ i \in Nat
      BY <1>1
<1>3. Issued(rows[tn][i])
      BY <1>2 DEF Issued, RowSet
<1> QED BY <1>2, <1>3, InvType DEF RowSet, SeriesOf, NumberOf, OwnerOf

LEMMA SeriesIs ==
    ASSUME TypeInv, NEW tn \in Tenants, NEW s
    PROVE  InSeries(tn, s) = {i \in DOMAIN rows[tn] : rows[tn][i].inv[1] = s}
BY RowsHere DEF InSeries, OfTenant

LEMMA LatestIs ==
    ASSUME TypeInv, NEW tn \in Tenants, NEW s, InSeries(tn, s) # {}
    PROVE  \E i \in InSeries(tn, s) : i \in Latest(tn, s)
<1> DEFINE S == InSeries(tn, s)
           key == [i \in S |-> NumberOf(rows[tn][i])]
<1>1. rows[tn] \in Seq(RowSet) /\ Len(rows[tn]) \in Nat /\ DOMAIN rows[tn] = 1..Len(rows[tn])
      BY DEF TypeInv
<1>2. S \in SUBSET (1..Len(rows[tn]))
      BY <1>1, SeriesIs
<1>3. key \in [S -> Nat]
      BY <1>1, <1>2, RowsHere
<1>4. \E i \in S : Greatest(S, key, i)
  <2> HIDE DEF S, key
  <2> QED BY <1>1, <1>2, <1>3, GreatestExists DEF S
<1> QED BY <1>4 DEF Greatest, Latest

LEMMA SeriesHashType ==
    ASSUME TypeInv, NEW tn \in Tenants, NEW s
    PROVE  SeriesHash(tn, s) \in Seq(Invs)
<1>1. CASE InSeries(tn, s) = {}
      BY <1>1 DEF SeriesHash, Genesis
<1>2. CASE InSeries(tn, s) # {}
  <2> DEFINE i == CHOOSE i \in Latest(tn, s) : TRUE
  <2>1. i \in Latest(tn, s)
        BY <1>2, LatestIs
  <2>2. i \in DOMAIN rows[tn]
        BY <2>1, SeriesIs DEF Latest
  <2> QED BY <1>2, <2>2, RowsHere DEF SeriesHash
<1> QED BY <1>1, <1>2
-----------------------------------------------------------------------------
(***************************************************************************)
(* What a step of one thread leaves of the others.                         *)
(***************************************************************************)

Kept(u) ==
    /\ pc'[u] = pc[u] /\ cmd'[u] = cmd[u] /\ found'[u] = found[u]
    /\ patch'[u] = patch[u]
    /\ aeat \subseteq aeat'
    /\ \A tn \in Tenants : writer[tn] = u => writer'[tn] = u /\ rows'[tn] = rows[tn]

Others(t) == \A u \in Threads \ {t} : Kept(u)

LEMMA KeptThread ==
    ASSUME NEW u \in Threads, ThreadInv(u), Kept(u)
    PROVE  ThreadInv(u)'
<1>1. PlaceOf(u)'
      BY DEF ThreadInv, Kept, PlaceOf
<1>2. Exclusive(u)'
      BY DEF ThreadInv, Kept, PlaceOf, Exclusive, Sending
<1>3. pc[u] = "resend" => rows'[cmd[u].tenant] = rows[cmd[u].tenant]
      BY DEF ThreadInv, Kept, PlaceOf, Exclusive
<1>4. Collected(u)'
      BY <1>3 DEF ThreadInv, Kept, Collected
<1>5. Known(u)'
      BY <1>3 DEF ThreadInv, Kept, Known
<1> QED BY <1>1, <1>2, <1>4, <1>5 DEF ThreadInv

LEMMA SameRowsHeld ==
    ASSUME DeliveredIsHeld, UNCHANGED rows, aeat \subseteq aeat'
    PROVE  DeliveredIsHeld'
BY DEF DeliveredIsHeld

LEMMA NoCmdType == NoCmd \in CmdSet /\ NoCmd.status = "LOCAL_RECORDED"
BY DEF NoCmd, CmdSet, Genesis, Status

LEMMA EmptyPatch == <<>> \in Patches /\ DOMAIN <<>> = {}
<1>1. <<>> \in [{} -> Settled]
      OBVIOUS
<1>2. {} \in SUBSET Nat
      OBVIOUS
<1> QED BY <1>1, <1>2 DEF Patches

\* A thread that leaves has nothing, and is the writer of nothing.
LEMMA LeaveThread ==
    ASSUME TypeInv, NEW t \in Threads, Leave(t)
    PROVE  /\ writer' \in [Tenants -> Threads \cup {None}]
           /\ pc' \in [Threads -> Steps] /\ cmd' \in [Threads -> CmdSet]
           /\ found' \in [Threads -> SUBSET Nat] /\ patch' \in [Threads -> Patches]
           /\ pc'[t] = "idle"
           /\ ThreadInv(t)'
           /\ \A u \in Threads \ {t} :
                  /\ pc'[u] = pc[u] /\ cmd'[u] = cmd[u]
                  /\ found'[u] = found[u] /\ patch'[u] = patch[u]
                  /\ \A tn \in Tenants : writer[tn] = u => writer'[tn] = u
<1>1. /\ writer' \in [Tenants -> Threads \cup {None}]
      /\ pc' \in [Threads -> Steps] /\ cmd' \in [Threads -> CmdSet]
      /\ found' \in [Threads -> SUBSET Nat] /\ patch' \in [Threads -> Patches]
      BY NoCmdType, EmptyPatch DEF TypeInv, Leave, Steps
<1>2. /\ pc'[t] = "idle" /\ cmd'[t] = NoCmd
      /\ found'[t] = {} /\ patch'[t] = <<>>
      BY DEF TypeInv, Leave
<1>3. ThreadInv(t)'
      BY <1>2 DEF ThreadInv, PlaceOf, Collected, Exclusive, Known, Sending
<1>4. \A u \in Threads \ {t} :
         /\ pc'[u] = pc[u] /\ cmd'[u] = cmd[u]
         /\ found'[u] = found[u] /\ patch'[u] = patch[u]
         /\ \A tn \in Tenants : writer[tn] = u => writer'[tn] = u
      BY DEF TypeInv, Leave
<1> QED BY <1>1, <1>2, <1>3, <1>4

LEMMA FaultType ==
    ASSUME faults \in 0..MaxFaults, Fault
    PROVE  faults' \in 0..MaxFaults
BY EmissionAssumption DEF Fault

LEMMA ExchangeKeeps ==
    ASSUME aeat \subseteq XmlSet, NEW xml \in XmlSet, NEW outcome, Exchange(outcome, xml)
    PROVE  /\ aeat' \subseteq XmlSet /\ aeat \subseteq aeat'
           /\ aeat' \subseteq aeat \cup {xml}
           /\ outcome = "success" => xml \in aeat'
BY DEF Exchange
-----------------------------------------------------------------------------
(***************************************************************************)
(* Each action keeps the types, its own thread and those of the others.    *)
(***************************************************************************)

Keeps(t) == TypeInv' /\ ThreadInv(t)' /\ Others(t) /\ DeliveredIsHeld'

LEMMA RequestKeeps ==
    ASSUME IInv, NEW t \in Emitters, NEW tn \in Tenants, NEW inv \in Invs,
           NEW verifactu \in BOOLEAN, Request(t, tn, inv, verifactu)
    PROVE  Keeps(t)
<1> DEFINE c == [NoCmd EXCEPT !.tenant = tn, !.inv = inv, !.verifactu = verifactu]
<1>1. /\ c \in CmdSet /\ c.tenant = tn /\ c.inv = inv
      /\ c.status = "LOCAL_RECORDED"
      BY NoCmdType DEF CmdSet, NoCmd
<1>2. /\ cmd' = [cmd EXCEPT ![t] = c] /\ pc' = [pc EXCEPT ![t] = "begin"]
      /\ UNCHANGED <<rows, aeat, writer, found, patch, faults>>
      BY DEF Request, Goto
<1> HIDE DEF c
<1>3. t \in Threads
      BY DEF Threads
<1>4. TypeInv'
      BY <1>1, <1>2, <1>3 DEF IInv, TypeInv, Steps
<1>5. pc'[t] = "begin" /\ cmd'[t] = c
      BY <1>2, <1>3 DEF IInv, TypeInv
<1>6. ThreadInv(t)'
      BY <1>1, <1>5 DEF ThreadInv, PlaceOf, Collected, Exclusive, Known, Sending
<1>7. Others(t)
      BY <1>2, <1>3 DEF IInv, TypeInv, Others, Kept
<1>8. DeliveredIsHeld'
      BY <1>2, SameRowsHeld DEF IInv
<1> QED BY <1>4, <1>6, <1>7, <1>8 DEF Keeps

LEMMA BeginKeeps ==
    ASSUME IInv, NEW t \in Emitters, Begin(t)
    PROVE  Keeps(t)
<1> DEFINE c == cmd[t]
           d == [c EXCEPT !.prev = SeriesHash(c.tenant, c.inv[1])]
           step == IF c.verifactu THEN "send" ELSE "insert"
<1>1. t \in Threads /\ c \in CmdSet /\ pc[t] = "begin"
      BY DEF Begin, IInv, TypeInv, Threads
<1>2. c.tenant \in Tenants /\ c.inv \in Invs /\ c.status = "LOCAL_RECORDED"
      BY <1>1 DEF IInv, ThreadInv, PlaceOf, Known, Sending
<1>3. SeriesHash(c.tenant, c.inv[1]) \in Seq(Invs)
      BY <1>2, SeriesHashType DEF IInv
<1>4. /\ d \in CmdSet /\ d.tenant = c.tenant /\ d.inv = c.inv
      /\ d.status = c.status
      BY <1>1, <1>3 DEF CmdSet
<1>5. /\ writer[c.tenant] = None
      /\ writer' = [writer EXCEPT ![c.tenant] = t]
      /\ cmd' = [cmd EXCEPT ![t] = d]
      /\ pc' = [pc EXCEPT ![t] = step]
      /\ UNCHANGED <<rows, aeat, found, patch, faults>>
      BY <1>1 DEF Begin, Goto, CanBegin, IInv, TypeInv
<1>6. step \in {"send", "insert"}
      OBVIOUS
<1> HIDE DEF c, d, step
<1>7. TypeInv'
      BY <1>1, <1>2, <1>4, <1>5, <1>6 DEF IInv, TypeInv, Steps
<1>8. /\ pc'[t] = step /\ cmd'[t] = d /\ writer'[c.tenant] = t
      BY <1>1, <1>2, <1>5 DEF IInv, TypeInv
<1>9. ThreadInv(t)'
      BY <1>2, <1>4, <1>6, <1>8 DEF ThreadInv, PlaceOf, Collected, Exclusive, Known, Sending
<1>10. Others(t)
  <2> SUFFICES ASSUME NEW u \in Threads \ {t} PROVE Kept(u)
      BY DEF Others
  <2>1. u # None
        BY EmissionAssumption
  <2> QED BY <1>1, <1>2, <1>5, <2>1 DEF IInv, TypeInv, Kept
<1>11. DeliveredIsHeld'
      BY <1>5, SameRowsHeld DEF IInv
<1> QED BY <1>7, <1>9, <1>10, <1>11 DEF Keeps

LEMMA InvalidKeeps ==
    ASSUME IInv, NEW t \in Emitters, Invalid(t)
    PROVE  Keeps(t)
<1>1. t \in Threads /\ Leave(t) /\ UNCHANGED <<rows, aeat, faults>> /\ TypeInv
      BY DEF Invalid, Threads, IInv
<1>2. TypeInv'
      BY <1>1, LeaveThread DEF TypeInv
<1>3. Others(t)
      BY <1>1, LeaveThread DEF Others, Kept
<1> QED BY <1>1, <1>2, <1>3, LeaveThread, SameRowsHeld DEF IInv, Keeps

LEMMA SendKeeps ==
    ASSUME IInv, NEW t \in Emitters, Send(t)
    PROVE  Keeps(t)
<1> DEFINE c == cmd[t]
<1>1. /\ t \in Threads /\ c \in CmdSet /\ pc[t] = "send"
      /\ c.tenant \in Tenants /\ c.inv \in Invs /\ writer[c.tenant] = t
      BY DEF Send, IInv, TypeInv, Threads, ThreadInv, PlaceOf, Sending, Exclusive
<1>2. PICK outcome \in Outcomes :
         /\ Exchange(outcome, Xml(c.tenant, c.inv, c.prev))
         /\ cmd' = [cmd EXCEPT ![t].status = StatusAfter(outcome)]
      BY DEF Send
<1> DEFINE d == [c EXCEPT !.status = StatusAfter(outcome)]
<1>3. /\ StatusAfter(outcome) \in Status
      /\ StatusAfter(outcome) = "DELIVERED_AEAT" => outcome = "success"
      BY DEF StatusAfter, Outcomes, Status
<1>4. /\ d \in CmdSet /\ d.tenant = c.tenant /\ d.inv = c.inv
      /\ d.prev = c.prev /\ d.status = StatusAfter(outcome)
      BY <1>1, <1>3 DEF CmdSet
<1>5. /\ cmd' = [cmd EXCEPT ![t] = d]
      /\ pc' = [pc EXCEPT ![t] = "insert"]
      /\ UNCHANGED <<rows, writer, found, patch, faults>>
      BY <1>1, <1>2 DEF Send, Goto, IInv, TypeInv
<1>6. Xml(c.tenant, c.inv, c.prev) \in XmlSet
      BY <1>1, XmlType DEF CmdSet
<1>7. /\ aeat' \subseteq XmlSet /\ aeat \subseteq aeat'
      /\ outcome = "success" => Xml(c.tenant, c.inv, c.prev) \in aeat'
      BY <1>2, <1>6, ExchangeKeeps DEF IInv, TypeInv
<1> HIDE DEF c, d
<1>8. TypeInv'
      BY <1>1, <1>4, <1>5, <1>7 DEF IInv, TypeInv, Steps
<1>9. pc'[t] = "insert" /\ cmd'[t] = d /\ writer'[c.tenant] = t
      BY <1>1, <1>5 DEF IInv, TypeInv
<1>10. ThreadInv(t)'
      BY <1>1, <1>3, <1>4, <1>7, <1>9 DEF ThreadInv, PlaceOf, Collected, Exclusive, Known, Sending
<1>11. Others(t)
      BY <1>1, <1>5, <1>7 DEF IInv, TypeInv, Others, Kept
<1>12. DeliveredIsHeld'
      BY <1>5, <1>7, SameRowsHeld DEF IInv
<1> QED BY <1>8, <1>10, <1>11, <1>12 DEF Keeps

\* A thread inside a transaction, and the tables it may commit to.
LEMMA InsideIs ==
    ASSUME IInv, NEW t \in Threads, pc[t] \in {"send", "insert", "resend"}
    PROVE  /\ TypeInv /\ cmd[t] \in CmdSet /\ cmd[t].prev \in Seq(Invs)
           /\ cmd[t].tenant \in Tenants
           /\ pc[t] # "resend" => cmd[t].inv \in Invs
           /\ writer[cmd[t].tenant] = t
           /\ rows[cmd[t].tenant] \in Seq(RowSet)
BY DEF IInv, TypeInv, ThreadInv, PlaceOf, Sending, Exclusive, CmdSet

LEMMA InsertKeeps ==
    ASSUME IInv, NEW t \in Emitters, Insert(t)
    PROVE  Keeps(t)
<1> DEFINE c == cmd[t]
           new == Row(c.inv, c.prev, c.status)
<1>1. t \in Threads /\ pc[t] = "insert" /\ Leave(t) /\ UNCHANGED <<aeat, faults>>
      BY DEF Insert, Threads
<1>2. /\ TypeInv /\ c \in CmdSet /\ c.prev \in Seq(Invs) /\ c.tenant \in Tenants
      /\ c.inv \in Invs /\ writer[c.tenant] = t /\ rows[c.tenant] \in Seq(RowSet)
      /\ c.status \in Status
      BY <1>1, InsideIs DEF CmdSet
<1>3. CASE rows' = rows
  <2>1. TypeInv'
        BY <1>1, <1>2, <1>3, LeaveThread DEF TypeInv
  <2>2. Others(t)
        BY <1>1, <1>2, <1>3, LeaveThread DEF Others, Kept
  <2> QED BY <1>1, <1>2, <1>3, <2>1, <2>2, LeaveThread, SameRowsHeld DEF IInv, Keeps
<1>4. CASE rows' = [rows EXCEPT ![c.tenant] = Append(@, new)]
  <2>1. new \in RowSet /\ new.inv = c.inv /\ new.prev = c.prev /\ new.status = c.status
        BY <1>2, NewRowType
  <2> HIDE DEF new
  <2>2. /\ \A tn \in Tenants \ {c.tenant} : rows'[tn] = rows[tn]
        /\ rows'[c.tenant] = Append(rows[c.tenant], new)
        /\ rows' = [tn \in Tenants |-> rows'[tn]]
        BY <1>2, <1>4 DEF TypeInv
  <2>3. /\ rows'[c.tenant] \in Seq(RowSet)
        /\ \A i \in DOMAIN rows'[c.tenant] :
               \/ i \in DOMAIN rows[c.tenant] /\ rows'[c.tenant][i] = rows[c.tenant][i]
               \/ rows'[c.tenant][i] = new
        BY <1>2, <2>1, <2>2, AppendedRows
  <2>4. rows' \in [Tenants -> Seq(RowSet)]
        BY <1>2, <2>2, <2>3 DEF TypeInv
  <2>5. TypeInv'
        BY <1>1, <1>2, <2>4, LeaveThread DEF TypeInv
  <2>6. Others(t)
        BY <1>1, <1>2, <2>2, LeaveThread DEF Others, Kept
  <2>7. new.status = "DELIVERED_AEAT" => Xml(c.tenant, new.inv, new.prev) \in aeat
        BY <1>1, <2>1 DEF IInv, ThreadInv, Known
  <2>8. DeliveredIsHeld'
    <3> SUFFICES ASSUME NEW tn \in Tenants, NEW i \in DOMAIN rows'[tn],
                        rows'[tn][i].status = "DELIVERED_AEAT"
                 PROVE  Xml(tn, rows'[tn][i].inv, rows'[tn][i].prev) \in aeat'
        BY DEF DeliveredIsHeld
    <3>1. CASE tn = c.tenant
          BY <1>1, <2>3, <2>7, <3>1 DEF IInv, DeliveredIsHeld
    <3>2. CASE tn # c.tenant
          BY <1>1, <2>2, <3>2 DEF IInv, DeliveredIsHeld
    <3> QED BY <3>1, <3>2
  <2> QED BY <1>1, <1>2, <2>5, <2>6, <2>8, LeaveThread DEF Keeps
<1> QED BY <1>3, <1>4 DEF Insert

LEMMA RaisesKeeps ==
    ASSUME IInv, NEW t \in Emitters, Raises(t)
    PROVE  Keeps(t)
<1>1. /\ t \in Threads /\ pc[t] \in {"send", "insert"} /\ Fault /\ Leave(t)
      /\ UNCHANGED rows
      BY DEF Raises, Threads
<1>2. /\ TypeInv /\ cmd[t].tenant \in Tenants /\ cmd[t].inv \in Invs
      /\ cmd[t].prev \in Seq(Invs)
      BY <1>1, InsideIs
<1>3. Xml(cmd[t].tenant, cmd[t].inv, cmd[t].prev) \in XmlSet
      BY <1>2, XmlType
<1>4. aeat' \subseteq XmlSet /\ aeat \subseteq aeat'
      BY <1>2, <1>3, ExchangeKeeps DEF Raises, TypeInv
<1>5. TypeInv'
      BY <1>1, <1>2, <1>4, LeaveThread, FaultType DEF TypeInv
<1>6. Others(t)
      BY <1>1, <1>2, <1>4, LeaveThread DEF Others, Kept
<1> QED BY <1>1, <1>2, <1>4, <1>5, <1>6, LeaveThread, SameRowsHeld DEF IInv, Keeps

LEMMA BeginRetryKeeps ==
    ASSUME IInv, NEW t \in Retriers, NEW tn \in Tenants, BeginRetry(t, tn)
    PROVE  Keeps(t)
<1> DEFINE c == [NoCmd EXCEPT !.tenant = tn]
<1>1. t \in Threads /\ pc[t] = "idle" /\ TypeInv
      BY DEF BeginRetry, Threads, IInv
<1>2. cmd[t] = NoCmd /\ found[t] = {} /\ patch[t] = <<>>
      BY <1>1 DEF IInv, ThreadInv, PlaceOf
<1>3. c \in CmdSet /\ c.tenant = tn
      BY NoCmdType DEF CmdSet, NoCmd
<1>4. /\ writer[tn] = None
      /\ writer' = [writer EXCEPT ![tn] = t]
      /\ cmd' = [cmd EXCEPT ![t] = c]
      /\ found' = [found EXCEPT ![t] = Selected(rows[tn])]
      /\ pc' = [pc EXCEPT ![t] = "resend"]
      /\ UNCHANGED <<rows, aeat, patch, faults>>
      BY <1>1, <1>2 DEF BeginRetry, CanBegin, Goto, TypeInv
<1> HIDE DEF c
<1>5. rows[tn] \in Seq(RowSet)
      BY <1>1 DEF TypeInv
<1>6. /\ Selected(rows[tn]) \in SUBSET Nat
      /\ \A i \in Selected(rows[tn]) : i \in DOMAIN rows[tn] /\ Incident(rows[tn][i])
      BY <1>5 DEF Selected
<1>7. TypeInv'
      BY <1>1, <1>3, <1>4, <1>6 DEF TypeInv, Steps
<1>8. /\ pc'[t] = "resend" /\ cmd'[t] = c /\ writer'[tn] = t
      /\ found'[t] = Selected(rows[tn]) /\ patch'[t] = <<>>
      BY <1>1, <1>2, <1>4 DEF TypeInv
<1>9. ThreadInv(t)'
      BY <1>3, <1>4, <1>6, <1>8, EmptyPatch
      DEF ThreadInv, PlaceOf, Collected, Exclusive, Known, Sending
<1>10. Others(t)
  <2> SUFFICES ASSUME NEW u \in Threads \ {t} PROVE Kept(u)
      BY DEF Others
  <2>1. u # None
        BY EmissionAssumption
  <2> QED BY <1>1, <1>4, <2>1 DEF TypeInv, Kept
<1>11. DeliveredIsHeld'
      BY <1>4, SameRowsHeld DEF IInv
<1> QED BY <1>7, <1>9, <1>10, <1>11 DEF Keeps

\* The row a batch is at.
LEMMA BatchRow ==
    ASSUME IInv, NEW t \in Retriers, pc[t] = "resend", found[t] # {}
    PROVE  LET tn == cmd[t].tenant
               id == First(found[t])
           IN  /\ t \in Threads /\ tn \in Tenants /\ id \in found[t] /\ id \in Nat
               /\ id \in DOMAIN rows[tn] /\ Incident(rows[tn][id])
               /\ Xml(tn, rows[tn][id].inv, rows[tn][id].prev) \in XmlSet
<1>1. t \in Threads
      BY DEF Threads
<1>2. TypeInv /\ cmd[t].tenant \in Tenants /\ found[t] \in SUBSET Nat
      BY <1>1, InsideIs DEF IInv, TypeInv
<1>3. First(found[t]) \in found[t] /\ First(found[t]) \in Nat
      BY <1>2, FirstIs
<1>4. /\ First(found[t]) \in DOMAIN rows[cmd[t].tenant]
      /\ Incident(rows[cmd[t].tenant][First(found[t])])
      BY <1>1, <1>3 DEF IInv, ThreadInv, Collected
<1> QED BY <1>1, <1>2, <1>3, <1>4, RowsHere, XmlType

LEMMA ResendKeeps ==
    ASSUME IInv, NEW t \in Retriers, Resend(t)
    PROVE  Keeps(t)
<1> DEFINE tn == cmd[t].tenant
           id == First(found[t])
           xml == Xml(tn, rows[tn][id].inv, rows[tn][id].prev)
<1>1. /\ t \in Threads /\ pc[t] = "resend" /\ TypeInv
      /\ UNCHANGED <<rows, writer, pc, cmd, faults>>
      /\ found' = [found EXCEPT ![t] = @ \ {id}]
      BY DEF Resend, Threads, IInv
<1>2. /\ tn \in Tenants /\ id \in found[t] /\ id \in Nat
      /\ id \in DOMAIN rows[tn] /\ Incident(rows[tn][id]) /\ xml \in XmlSet
      BY BatchRow DEF Resend
<1>3. PICK outcome \in Outcomes :
         /\ Exchange(outcome, xml)
         /\ patch' = IF outcome = "timeout" THEN patch
                     ELSE [patch EXCEPT ![t] = With(@, id, StatusAfter(outcome))]
      BY DEF Resend
<1> HIDE DEF tn, id, xml
<1>4. /\ aeat' \subseteq XmlSet /\ aeat \subseteq aeat'
      /\ outcome = "success" => xml \in aeat'
      BY <1>1, <1>2, <1>3, ExchangeKeeps DEF TypeInv
<1>5. /\ patch' \in [Threads -> Patches]
      /\ \A u \in Threads \ {t} : patch'[u] = patch[u]
      /\ DOMAIN patch'[t] \subseteq DOMAIN patch[t] \cup {id}
      /\ \A i \in DOMAIN patch'[t] :
             \/ i \in DOMAIN patch[t] /\ patch'[t][i] = patch[t][i]
             \/ i = id /\ (patch'[t][i] = "DELIVERED_AEAT" => outcome = "success")
  <2>1. CASE outcome = "timeout"
        BY <1>1, <1>3, <2>1 DEF TypeInv
  <2>2. CASE outcome # "timeout"
    <3>1. /\ StatusAfter(outcome) \in Settled
          /\ StatusAfter(outcome) = "DELIVERED_AEAT" => outcome = "success"
          BY <2>2 DEF StatusAfter, Outcomes, Settled
    <3>2. patch[t] \in Patches
          BY <1>1 DEF TypeInv
    <3>3. patch' = [patch EXCEPT ![t] = With(patch[t], id, StatusAfter(outcome))]
          BY <1>3, <2>2
    <3>4. With(patch[t], id, StatusAfter(outcome)) \in Patches
          BY <1>2, <3>1, <3>2, WithPatch
    <3>5. patch'[t] = With(patch[t], id, StatusAfter(outcome))
          BY <1>1, <3>3 DEF TypeInv
    <3>6. /\ patch' \in [Threads -> Patches]
          /\ \A u \in Threads \ {t} : patch'[u] = patch[u]
          BY <1>1, <3>3, <3>4 DEF TypeInv
    <3>7. /\ DOMAIN patch'[t] = DOMAIN patch[t] \cup {id}
          /\ patch'[t][id] = StatusAfter(outcome)
          /\ \A i \in DOMAIN patch[t] : i # id => patch'[t][i] = patch[t][i]
      <4> DEFINE p == patch[t]
                 s == StatusAfter(outcome)
      <4> SUFFICES /\ DOMAIN With(p, id, s) = DOMAIN p \cup {id}
                   /\ With(p, id, s)[id] = s
                   /\ \A i \in DOMAIN p : i # id => With(p, id, s)[i] = p[i]
          BY <3>5
      <4>1. p \in Patches /\ s \in Settled /\ id \in Nat
            BY <1>2, <3>1, <3>2
      <4> HIDE DEF p, s
      <4> QED BY <4>1, WithPatch
    <3> QED BY <3>1, <3>6, <3>7
  <2> QED BY <2>1, <2>2
<1>6. /\ found' \in [Threads -> SUBSET Nat] /\ found'[t] = found[t] \ {id}
      /\ \A u \in Threads \ {t} : found'[u] = found[u]
      BY <1>1 DEF TypeInv
<1>7. TypeInv'
      BY <1>1, <1>4, <1>5, <1>6 DEF TypeInv
<1>8. PlaceOf(t)' /\ Exclusive(t)'
      BY <1>1 DEF IInv, ThreadInv, PlaceOf, Exclusive, Sending
<1>9. Collected(t)'
      BY <1>1, <1>2, <1>5, <1>6 DEF IInv, ThreadInv, Collected, tn
<1>10. Known(t)'
  <2>1. \A i \in DOMAIN patch'[t] : patch'[t][i] = "DELIVERED_AEAT" =>
            Xml(tn, rows[tn][i].inv, rows[tn][i].prev) \in aeat'
        BY <1>1, <1>4, <1>5 DEF IInv, ThreadInv, Known, tn, xml
  <2> QED BY <1>1, <2>1 DEF Known, tn
<1>11. Others(t)
      BY <1>1, <1>4, <1>5, <1>6 DEF Others, Kept
<1>12. DeliveredIsHeld'
      BY <1>1, <1>4, SameRowsHeld DEF IInv
<1> QED BY <1>7, <1>8, <1>9, <1>10, <1>11, <1>12 DEF Keeps, ThreadInv

\* The table of a tenant after the commit of a batch.
LEMMA CommittedRows ==
    ASSUME TypeInv, NEW tn \in Tenants, NEW p \in Patches,
           rows' = [rows EXCEPT ![tn] = Patched(rows[tn], p)]
    PROVE  /\ rows' \in [Tenants -> Seq(RowSet)]
           /\ \A u \in Tenants \ {tn} : rows'[u] = rows[u]
           /\ DOMAIN rows'[tn] = DOMAIN rows[tn]
           /\ \A i \in DOMAIN rows[tn] :
                  /\ i \notin DOMAIN p => rows'[tn][i] = rows[tn][i]
                  /\ i \in DOMAIN p =>
                         rows'[tn][i] = [rows[tn][i] EXCEPT !.status = p[i]]
<1> DEFINE new == Patched(rows[tn], p)
<1>1. rows[tn] \in Seq(RowSet)
      BY DEF TypeInv
<1>2. /\ new \in Seq(RowSet) /\ DOMAIN new = DOMAIN rows[tn]
      /\ \A i \in DOMAIN rows[tn] :
             /\ i \notin DOMAIN p => new[i] = rows[tn][i]
             /\ i \in DOMAIN p => new[i] = [rows[tn][i] EXCEPT !.status = p[i]]
      BY <1>1, PatchedRows, Zenon
<1> HIDE DEF new
<1>3. /\ rows' \in [Tenants -> Seq(RowSet)]
      /\ \A u \in Tenants \ {tn} : rows'[u] = rows[u]
      /\ rows'[tn] = new
      BY <1>2 DEF TypeInv, new
<1> QED BY <1>2, <1>3

LEMMA CommitKeeps ==
    ASSUME IInv, NEW t \in Retriers, Commit(t)
    PROVE  Keeps(t)
<1> DEFINE tn == cmd[t].tenant
           p == patch[t]
<1>1. /\ t \in Threads /\ pc[t] = "resend" /\ TypeInv /\ Leave(t)
      /\ rows' = [rows EXCEPT ![tn] = Patched(rows[tn], p)]
      /\ UNCHANGED <<aeat, faults>>
      BY DEF Commit, Threads, IInv
<1>2. /\ tn \in Tenants /\ writer[tn] = t /\ rows[tn] \in Seq(RowSet) /\ p \in Patches
      BY <1>1, InsideIs DEF TypeInv
<1>3. \A i \in DOMAIN p : p[i] = "DELIVERED_AEAT" =>
          Xml(tn, rows[tn][i].inv, rows[tn][i].prev) \in aeat
      BY <1>1 DEF IInv, ThreadInv, Known
<1> HIDE DEF tn, p
<1>4. /\ rows' \in [Tenants -> Seq(RowSet)]
      /\ \A u \in Tenants \ {tn} : rows'[u] = rows[u]
      /\ DOMAIN rows'[tn] = DOMAIN rows[tn]
      /\ \A i \in DOMAIN rows[tn] :
             /\ i \notin DOMAIN p => rows'[tn][i] = rows[tn][i]
             /\ i \in DOMAIN p =>
                    rows'[tn][i] = [rows[tn][i] EXCEPT !.status = p[i]]
      BY <1>1, <1>2, CommittedRows
<1>5. TypeInv'
      BY <1>1, <1>4, LeaveThread DEF TypeInv
<1>6. Others(t)
      BY <1>1, <1>2, <1>4, LeaveThread DEF Others, Kept
<1>7. DeliveredIsHeld'
  <2> SUFFICES ASSUME NEW u \in Tenants, NEW i \in DOMAIN rows'[u],
                      rows'[u][i].status = "DELIVERED_AEAT"
               PROVE  Xml(u, rows'[u][i].inv, rows'[u][i].prev) \in aeat'
      BY DEF DeliveredIsHeld
  <2>1. CASE u # tn
        BY <1>1, <1>4, <2>1 DEF IInv, DeliveredIsHeld
  <2>2. CASE u = tn /\ i \notin DOMAIN p
        BY <1>1, <1>4, <2>2 DEF IInv, DeliveredIsHeld
  <2>3. CASE u = tn /\ i \in DOMAIN p
    <3>1. rows[tn][i] \in RowSet /\ i \in DOMAIN rows[tn]
          BY <1>1, <1>2, <1>4, <2>3, RowsHere
    <3>2. /\ rows'[tn][i].status = p[i] /\ rows'[tn][i].inv = rows[tn][i].inv
          /\ rows'[tn][i].prev = rows[tn][i].prev
          BY <1>4, <2>3, <3>1 DEF RowSet
    <3> QED BY <1>1, <1>3, <2>3, <3>2
  <2> QED BY <2>1, <2>2, <2>3
<1> QED BY <1>1, <1>5, <1>6, <1>7, LeaveThread DEF Keeps

LEMMA BatchRaisesKeeps ==
    ASSUME IInv, NEW t \in Retriers, BatchRaises(t)
    PROVE  Keeps(t)
<1> DEFINE row == rows[cmd[t].tenant][First(found[t])]
           xml == Xml(cmd[t].tenant, row.inv, row.prev)
<1>1. /\ t \in Threads /\ pc[t] = "resend" /\ TypeInv /\ Leave(t) /\ Fault
      /\ found[t] # {} /\ UNCHANGED rows
      /\ \E outcome \in Outcomes : Exchange(outcome, xml)
      BY DEF BatchRaises, Threads, IInv
<1>2. xml \in XmlSet
      BY <1>1, BatchRow
<1> HIDE DEF row, xml
<1>3. aeat' \subseteq XmlSet /\ aeat \subseteq aeat'
      BY <1>1, <1>2, ExchangeKeeps DEF TypeInv
<1>4. TypeInv'
      BY <1>1, <1>3, LeaveThread, FaultType DEF TypeInv
<1>5. Others(t)
      BY <1>1, <1>3, LeaveThread DEF Others, Kept
<1> QED BY <1>1, <1>3, <1>4, <1>5, LeaveThread, SameRowsHeld DEF IInv, Keeps

\* After a crash nobody is inside a transaction.
LEMMA CrashKeeps == IInv /\ Crash => IInv'
<1> SUFFICES ASSUME IInv, Crash PROVE IInv'
    OBVIOUS
<1>1. TypeInv'
      BY NoCmdType, EmptyPatch, FaultType DEF IInv, TypeInv, Crash, Steps
<1>2. \A t \in Threads : ThreadInv(t)'
      BY DEF Crash, ThreadInv, PlaceOf, Collected, Exclusive, Known, Sending
<1>3. DeliveredIsHeld'
      BY SameRowsHeld DEF IInv, Crash
<1> QED BY <1>1, <1>2, <1>3 DEF IInv
-----------------------------------------------------------------------------
(***************************************************************************)
(* The invariant.                                                          *)
(***************************************************************************)

LEMMA InitIInv == Init => IInv
<1> SUFFICES ASSUME Init PROVE IInv
    OBVIOUS
<1>1. TypeInv
      BY EmissionAssumption, NoCmdType, EmptyPatch DEF Init, TypeInv, Steps
<1>2. \A t \in Threads : ThreadInv(t)
      BY DEF Init, ThreadInv, PlaceOf, Collected, Exclusive, Known, Sending
<1>3. DeliveredIsHeld
      BY DEF Init, DeliveredIsHeld
<1> QED BY <1>1, <1>2, <1>3 DEF IInv

\* A step of one thread.
ThreadStep(t) ==
    \/ \E tn \in Tenants, inv \in Invs, verifactu \in BOOLEAN :
          t \in Emitters /\ Request(t, tn, inv, verifactu)
    \/ t \in Emitters /\ EmitterStep(t)
    \/ t \in Retriers /\ RetrierStep(t)

LEMMA NextSplit == Next <=> (\E t \in Threads : ThreadStep(t)) \/ Crash
BY DEF Next, ThreadStep, Threads

LEMMA ThreadKeeps ==
    ASSUME IInv, NEW t \in Threads, ThreadStep(t)
    PROVE  Keeps(t)
BY RequestKeeps, BeginKeeps, InvalidKeeps, SendKeeps, InsertKeeps, RaisesKeeps,
   BeginRetryKeeps, ResendKeeps, CommitKeeps, BatchRaisesKeeps
   DEF ThreadStep, EmitterStep, RetrierStep

LEMMA IInvStep == IInv /\ [Next]_vars => IInv'
<1> SUFFICES ASSUME IInv, [Next]_vars PROVE IInv'
    OBVIOUS
<1>1. ASSUME NEW t \in Threads, ThreadStep(t) PROVE IInv'
  <2>1. Keeps(t)
        BY <1>1, ThreadKeeps
  <2>2. \A u \in Threads \ {t} : ThreadInv(u)'
        BY <2>1, KeptThread DEF IInv, Keeps, Others
  <2> QED BY <2>1, <2>2 DEF IInv, Keeps
<1>2. CASE UNCHANGED vars
  <2>1. \A u \in Threads : Kept(u)
        BY <1>2 DEF vars, Kept
  <2>2. \A u \in Threads : ThreadInv(u)'
        BY <2>1, KeptThread DEF IInv
  <2> QED BY <1>2, <2>2, SameRowsHeld DEF IInv, TypeInv, vars
<1> QED BY <1>1, <1>2, CrashKeeps, NextSplit

\* The types, and what every thread knows, hold in every state.
THEOREM EmissionInvariant == Spec => []IInv
<1> QED BY InitIInv, IInvStep, PTL DEF Spec

\* Every variable has its type, and a batch handles rows of its table.
THEOREM EmissionTyped == Spec => []TypeOK
<1>1. IInv => TypeOK
      BY DEF IInv, TypeInv, TypeOK, ThreadInv, PlaceOf, Collected, Sending
<1> QED BY <1>1, EmissionInvariant, PTL

(***************************************************************************)
(* A row shown as delivered is a record the AEAT holds, with the same      *)
(* link: whatever is rolled back, and however batches of resends and new   *)
(* invoices interleave.                                                    *)
(***************************************************************************)
THEOREM AlwaysHeld == Spec => []DeliveredIsHeld
<1>1. IInv => DeliveredIsHeld
      BY DEF IInv
<1> QED BY <1>1, EmissionInvariant, PTL

\* No row is deleted or rewritten, and only incidents change their status.
IncidentStep ==
    \A tn \in Tenants : \A i \in DOMAIN rows[tn] :
        /\ i \in DOMAIN rows'[tn]
        /\ rows'[tn][i] = [rows[tn][i] EXCEPT !.status = rows'[tn][i].status]
        /\ ~Incident(rows[tn][i]) => rows'[tn][i] = rows[tn][i]

LEMMA SameRowsIncident ==
    ASSUME TypeInv, NEW tn \in Tenants, rows'[tn] = rows[tn], NEW i \in DOMAIN rows[tn]
    PROVE  rows'[tn][i] = [rows[tn][i] EXCEPT !.status = rows'[tn][i].status]
<1>1. rows[tn][i] \in RowSet
      BY RowsHere
<1> QED BY <1>1 DEF RowSet

LEMMA InsertIncident ==
    ASSUME IInv, NEW t \in Emitters, Insert(t)
    PROVE  IncidentStep
<1> DEFINE c == cmd[t]
           new == Row(c.inv, c.prev, c.status)
<1>1. t \in Threads /\ pc[t] = "insert"
      BY DEF Insert, Threads
<1>2. /\ TypeInv /\ c \in CmdSet /\ c.prev \in Seq(Invs) /\ c.tenant \in Tenants
      /\ c.inv \in Invs /\ rows[c.tenant] \in Seq(RowSet) /\ c.status \in Status
      BY <1>1, InsideIs DEF CmdSet
<1>3. new \in RowSet
      BY <1>2, NewRowType
<1>4. \A tn \in Tenants :
         \/ rows'[tn] = rows[tn]
         \/ tn = c.tenant /\ rows'[tn] = Append(rows[tn], new)
      BY <1>2 DEF Insert, TypeInv
<1> HIDE DEF new, c
<1>5. \A tn \in Tenants : \A i \in DOMAIN rows[tn] :
         i \in DOMAIN rows'[tn] /\ rows'[tn][i] = rows[tn][i]
      BY <1>2, <1>3, <1>4, AppendedRows
<1>6. \A tn \in Tenants : \A i \in DOMAIN rows[tn] : rows[tn][i] \in RowSet
      BY <1>2, RowsHere
<1> QED BY <1>5, <1>6 DEF IncidentStep, RowSet

LEMMA CommitIncident ==
    ASSUME IInv, NEW t \in Retriers, Commit(t)
    PROVE  IncidentStep
<1> DEFINE tn == cmd[t].tenant
           p == patch[t]
<1>1. /\ t \in Threads /\ pc[t] = "resend" /\ TypeInv
      /\ rows' = [rows EXCEPT ![tn] = Patched(rows[tn], p)]
      BY DEF Commit, Threads, IInv
<1>2. /\ tn \in Tenants /\ rows[tn] \in Seq(RowSet) /\ p \in Patches
      BY <1>1, InsideIs DEF TypeInv
<1>3. \A i \in DOMAIN p : Incident(rows[tn][i])
      BY <1>1 DEF IInv, ThreadInv, Collected
<1> HIDE DEF tn, p
<1>4. /\ \A u \in Tenants \ {tn} : rows'[u] = rows[u]
      /\ DOMAIN rows'[tn] = DOMAIN rows[tn]
      /\ \A i \in DOMAIN rows[tn] :
             /\ i \notin DOMAIN p => rows'[tn][i] = rows[tn][i]
             /\ i \in DOMAIN p =>
                    rows'[tn][i] = [rows[tn][i] EXCEPT !.status = p[i]]
      BY <1>1, <1>2, CommittedRows
<1>5. \A u \in Tenants : \A i \in DOMAIN rows[u] : rows[u][i] \in RowSet
      BY <1>1, RowsHere
<1> SUFFICES ASSUME NEW u \in Tenants, NEW i \in DOMAIN rows[u]
             PROVE  /\ i \in DOMAIN rows'[u]
                    /\ rows'[u][i] = [rows[u][i] EXCEPT !.status = rows'[u][i].status]
                    /\ ~Incident(rows[u][i]) => rows'[u][i] = rows[u][i]
    BY DEF IncidentStep
<1>6. CASE u # tn \/ i \notin DOMAIN p
  <2>1. i \in DOMAIN rows'[u] /\ rows'[u][i] = rows[u][i]
        BY <1>4, <1>6
  <2> QED BY <1>5, <2>1 DEF RowSet
<1>7. CASE u = tn /\ i \in DOMAIN p
  <2>1. i \in DOMAIN rows'[u] /\ rows'[u][i] = [rows[u][i] EXCEPT !.status = p[i]]
        BY <1>4, <1>7
  <2>2. rows'[u][i].status = p[i]
        BY <1>5, <2>1 DEF RowSet
  <2> QED BY <1>3, <1>7, <2>1, <2>2
<1> QED BY <1>6, <1>7

\* Only the INSERT and the COMMIT of a batch change a table.
LEMMA WhoWrites ==
    ASSUME NEW t \in Threads, ThreadStep(t), rows' # rows
    PROVE  (t \in Emitters /\ Insert(t)) \/ (t \in Retriers /\ Commit(t))
<1>1. \A tn, inv, verifactu : Request(t, tn, inv, verifactu) => rows' = rows
      BY DEF Request
<1>2. Begin(t) \/ Invalid(t) \/ Send(t) \/ Raises(t) => rows' = rows
      BY DEF Begin, Invalid, Send, Raises
<1>3. (\E tn \in Tenants : BeginRetry(t, tn)) \/ Resend(t) \/ BatchRaises(t)
          => rows' = rows
      BY DEF BeginRetry, Resend, BatchRaises
<1> QED BY <1>1, <1>2, <1>3 DEF ThreadStep, EmitterStep, RetrierStep

LEMMA IncidentStepHolds == IInv /\ [Next]_vars => [IncidentStep]_rows
<1> SUFFICES ASSUME IInv, [Next]_vars, rows' # rows PROVE IncidentStep
    OBVIOUS
<1>1. ASSUME NEW t \in Threads, ThreadStep(t) PROVE IncidentStep
  <2>1. (t \in Emitters /\ Insert(t)) \/ (t \in Retriers /\ Commit(t))
        BY <1>1, WhoWrites
  <2> QED BY <2>1, InsertIncident, CommitIncident
<1> QED BY <1>1, NextSplit DEF Crash, vars

(***************************************************************************)
(* An issued row is never deleted or rewritten, and its status changes     *)
(* only while it is INCIDENCIA_RED: a batch that selected a row earlier    *)
(* never overwrites what another thread concluded since.                   *)
(***************************************************************************)
THEOREM AlwaysOnlyIncidents == Spec => OnlyIncidentsChange
<1> QED BY EmissionInvariant, IncidentStepHolds, PTL
        DEF Spec, OnlyIncidentsChange, IncidentStep
-----------------------------------------------------------------------------
(***************************************************************************)
(* The order of a series.                                                  *)
(***************************************************************************)

LEMMA OfType ==
    ASSUME TypeInv, NEW tn \in Tenants, NEW s
    PROVE  /\ InSeries(tn, s) = Of(tn, s)
           /\ \A i \in Of(tn, s) :
                  /\ i \in DOMAIN rows[tn] /\ i \in Nat /\ Num(tn, i) \in Nat
                  /\ rows[tn][i] \in RowSet /\ rows[tn][i].inv \in Invs
                  /\ SeriesOf(rows[tn][i]) = s /\ NumberOf(rows[tn][i]) = Num(tn, i)
<1>1. InSeries(tn, s) = Of(tn, s)
      BY SeriesIs DEF Of
<1>2. \A i \in Of(tn, s) :
         /\ i \in DOMAIN rows[tn] /\ i \in Nat /\ Num(tn, i) \in Nat
         /\ rows[tn][i] \in RowSet /\ rows[tn][i].inv \in Invs
         /\ SeriesOf(rows[tn][i]) = s /\ NumberOf(rows[tn][i]) = Num(tn, i)
      BY RowsHere DEF Of, Num
<1> QED BY <1>1, <1>2

\* A part of a series has a last row.
LEMMA LastOf ==
    ASSUME TypeInv, NEW tn \in Tenants, NEW s, NEW S \in SUBSET Of(tn, s), S # {}
    PROVE  \E i \in S : \A j \in S \ {i} : Prior(tn, j, i)
<1> DEFINE key == [i \in S |-> Num(tn, i)]
<1>1. Len(rows[tn]) \in Nat /\ DOMAIN rows[tn] = 1..Len(rows[tn])
      BY DEF TypeInv
<1>2. S \in SUBSET (1..Len(rows[tn]))
      BY <1>1 DEF Of
<1>3. key \in [S -> Nat]
      BY OfType
<1>4. \A i \in S : key[i] = Num(tn, i) /\ i \in Nat /\ Num(tn, i) \in Nat
      BY OfType
<1> HIDE DEF key
<1>5. PICK i \in S : Greatest(S, key, i)
      BY <1>1, <1>2, <1>3, GreatestExists
<1>6. \A j \in S \ {i} : Prior(tn, j, i)
      BY <1>4, <1>5 DEF Greatest, Prior
<1> QED BY <1>6

\* The audit of a series accepts it exactly when it is chained.
LEMMA ChainedIsAudited ==
    ASSUME TypeInv, NEW tn \in Tenants, NEW s \in Series, Chained(tn, s)
    PROVE  Audited(rows[tn], InSeries(tn, s))
<1> DEFINE ids == InSeries(tn, s)
<1>1. ids = Of(tn, s)
      BY OfType
<1>2. \A i, j \in ids : AuditBefore(rows[tn], j, i) <=> Prior(tn, j, i)
  <2> SUFFICES ASSUME NEW i \in Of(tn, s), NEW j \in Of(tn, s)
               PROVE  AuditBefore(rows[tn], j, i) <=> Prior(tn, j, i)
      BY <1>1
  <2>1. /\ SeriesOf(rows[tn][i]) = s /\ NumberOf(rows[tn][i]) = Num(tn, i)
        /\ SeriesOf(rows[tn][j]) = s /\ NumberOf(rows[tn][j]) = Num(tn, j)
        BY OfType
  <2>2. s \in Nat
        BY EmissionAssumption
  <2> QED BY <2>1, <2>2 DEF AuditBefore, Prior
<1> HIDE DEF ids
<1> SUFFICES ASSUME NEW i \in ids
             PROVE  /\ rows[tn][i].prev = ExpectedHash(rows[tn], ids, i)
                    /\ rows[tn][i].hash = Digest(rows[tn][i].inv, rows[tn][i].prev)
    BY DEF Audited, ids
<1> DEFINE before == {j \in ids : AuditBefore(rows[tn], j, i)}
           Is(j) == \A k \in before \ {j} : AuditBefore(rows[tn], k, j)
<1>3. before = {j \in Of(tn, s) : Prior(tn, j, i)}
      BY <1>1, <1>2
<1>4. CASE before = {}
  <2>1. ExpectedHash(rows[tn], ids, i) = Genesis
        BY <1>4 DEF ExpectedHash
  <2>2. \A k \in Of(tn, s) : ~Prior(tn, k, i)
        BY <1>3, <1>4
  <2> QED BY <1>1, <2>1, <2>2 DEF Chained
<1>5. CASE before # {}
  <2> DEFINE j == CHOOSE j \in before : Is(j)
  <2>1. ExpectedHash(rows[tn], ids, i) = rows[tn][j].hash
        BY <1>5 DEF ExpectedHash
  <2>2. \E l \in before : \A k \in before \ {l} : Prior(tn, k, l)
    <3> HIDE DEF before
    <3>1. before \in SUBSET Of(tn, s)
          BY <1>3
    <3> QED BY <1>5, <3>1, LastOf
  <2>3. \E l \in before : Is(l)
        BY <1>1, <1>2, <2>2
  <2>4. j \in before /\ Is(j)
        BY <2>3
  <2> HIDE DEF j
  <2>5. \A k \in before \ {j} : Prior(tn, k, j)
        BY <1>1, <1>2, <2>4
  <2>6. j \in Of(tn, s) /\ IsPrevious(tn, s, j, i)
        BY <1>3, <2>4, <2>5 DEF IsPrevious
  <2> QED BY <1>1, <2>1, <2>6 DEF Chained
<1> QED BY <1>4, <1>5

LEMMA SeriesHashIs ==
    ASSUME TypeInv, NEW tn \in Tenants, NEW s
    PROVE  Newest(tn, s, SeriesHash(tn, s))
<1>1. InSeries(tn, s) = Of(tn, s)
      BY OfType
<1>2. CASE Of(tn, s) = {}
      BY <1>1, <1>2 DEF SeriesHash, Newest
<1>3. CASE Of(tn, s) # {}
  <2> DEFINE l == CHOOSE i \in Latest(tn, s) : TRUE
  <2>1. l \in Latest(tn, s)
        BY <1>1, <1>3, LatestIs
  <2>2. SeriesHash(tn, s) = rows[tn][l].hash
        BY <1>1, <1>3 DEF SeriesHash
  <2> HIDE DEF l
  <2>3. l \in Of(tn, s) /\ \A j \in Of(tn, s) \ {l} : Prior(tn, j, l)
        BY <1>1, <2>1, OfType DEF Latest, Prior
  <2>4. \A i \in Of(tn, s) : (\A j \in Of(tn, s) \ {i} : Prior(tn, j, i)) => i = l
        BY <2>3, OfType DEF Prior
  <2> QED BY <1>3, <2>2, <2>4 DEF Newest
<1> QED BY <1>2, <1>3

\* The columns of an audit are the same in the next state.
SameLinks(tn) ==
    /\ DOMAIN rows'[tn] = DOMAIN rows[tn]
    /\ \A i \in DOMAIN rows[tn] :
           /\ rows'[tn][i].inv = rows[tn][i].inv
           /\ rows'[tn][i].prev = rows[tn][i].prev
           /\ rows'[tn][i].hash = rows[tn][i].hash

LEMMA LinksKept ==
    ASSUME NEW tn \in Tenants, SameLinks(tn), NEW s
    PROVE  /\ Of(tn, s)' = Of(tn, s)
           /\ \A i \in Of(tn, s) : Num(tn, i)' = Num(tn, i)
           /\ \A i, j \in Of(tn, s) : Prior(tn, j, i)' <=> Prior(tn, j, i)
           /\ Chained(tn, s) => Chained(tn, s)'
           /\ \A prev : Newest(tn, s, prev) => Newest(tn, s, prev)'
<1>1. Of(tn, s)' = Of(tn, s)
      BY DEF SameLinks, Of
<1>2. \A i \in Of(tn, s) : Num(tn, i)' = Num(tn, i) /\ i \in DOMAIN rows[tn]
      BY DEF SameLinks, Of, Num
<1>3. \A i, j \in Of(tn, s) : Prior(tn, j, i)' <=> Prior(tn, j, i)
      BY <1>2 DEF Prior
<1>4. ASSUME Chained(tn, s) PROVE Chained(tn, s)'
  <2> SUFFICES ASSUME NEW i \in Of(tn, s)
               PROVE  /\ rows'[tn][i].hash = Digest(rows'[tn][i].inv, rows'[tn][i].prev)
                      /\ (\A k \in Of(tn, s) : ~Prior(tn, k, i)') =>
                             rows'[tn][i].prev = Genesis
                      /\ \A j \in Of(tn, s) : IsPrevious(tn, s, j, i)' =>
                             rows'[tn][i].prev = rows'[tn][j].hash
      BY <1>1 DEF Chained
  <2>1. \A j : IsPrevious(tn, s, j, i)' => IsPrevious(tn, s, j, i) /\ j \in Of(tn, s)
        BY <1>1, <1>3 DEF IsPrevious
  <2> QED BY <1>2, <1>3, <1>4, <2>1 DEF Chained, SameLinks
<1>5. ASSUME NEW prev, Newest(tn, s, prev) PROVE Newest(tn, s, prev)'
      BY <1>1, <1>2, <1>3, <1>5 DEF Newest, SameLinks
<1> QED BY <1>1, <1>2, <1>3, <1>4, <1>5
-----------------------------------------------------------------------------
(***************************************************************************)
(* A step that leaves the links of every table as they are.                *)
(***************************************************************************)

AllLinks == \A tn \in Tenants : SameLinks(tn)

LEMMA SameRowsLinks == UNCHANGED rows => AllLinks
BY DEF AllLinks, SameLinks

LEMMA EmitterIs ==
    ASSUME IInv, NEW t \in Emitters, pc[t] # "idle"
    PROVE  /\ t \in Threads /\ pc[t] \in Sending
           /\ cmd[t].tenant \in Tenants /\ cmd[t].inv \in Invs
           /\ cmd[t].inv[1] \in Series /\ cmd[t].inv[2] \in Nat
<1>1. t \in Threads /\ t \notin Retriers
      BY EmissionAssumption DEF Threads
<1>2. pc[t] \in Sending
      BY <1>1 DEF IInv, TypeInv, ThreadInv, PlaceOf, Steps, Sending
<1>3. cmd[t].tenant \in Tenants /\ cmd[t].inv \in Invs
      BY <1>1, <1>2 DEF IInv, ThreadInv, PlaceOf
<1> QED BY <1>1, <1>2, <1>3, InvType

\* A request goes on with what it asked for, or ends.
GoesOn(u) ==
    \/ pc'[u] = "idle"
    \/ /\ pc[u] # "idle"
       /\ cmd'[u].tenant = cmd[u].tenant /\ cmd'[u].inv = cmd[u].inv

LEMMA TurnsKept ==
    ASSUME IInv, \A t \in Emitters : Turn(t), AllLinks,
           \A u \in Emitters : GoesOn(u)
    PROVE  \A t \in Emitters : Turn(t)'
<1> SUFFICES ASSUME NEW t \in Emitters, pc'[t] # "idle" PROVE Turn(t)'
    BY DEF Turn
<1>1. /\ pc[t] # "idle" /\ cmd'[t].tenant = cmd[t].tenant /\ cmd'[t].inv = cmd[t].inv
      BY DEF GoesOn
<1>2. cmd[t].tenant \in Tenants
      BY <1>1, EmitterIs
<1> DEFINE tn == cmd[t].tenant
           s == cmd[t].inv[1]
<1>3. Of(tn, s)' = Of(tn, s) /\ \A i \in Of(tn, s) : Num(tn, i)' = Num(tn, i)
  <2>1. SameLinks(tn)
        BY <1>2 DEF AllLinks
  <2>2. /\ {i \in DOMAIN rows'[tn] : rows'[tn][i].inv[1] = s} = Of(tn, s)
        /\ \A i \in Of(tn, s) : rows'[tn][i].inv[2] = Num(tn, i)
        BY <2>1 DEF SameLinks, Of, Num
  <2> QED BY <1>1, <2>2 DEF Of, Num
<1>4. \A i \in Of(tn, s)' : Num(tn, i)' < cmd'[t].inv[2]
      BY <1>1, <1>3 DEF Turn
<1>5. \A u \in Emitters \ {t} :
         pc'[u] # "idle" /\ cmd'[u].tenant = cmd'[t].tenant =>
             cmd'[u].inv[1] # cmd'[t].inv[1]
      BY <1>1 DEF Turn, GoesOn
<1> QED BY <1>4, <1>5 DEF Turn

\* A thread goes on with its digest, or has none any more.
Holds(t) ==
    pc'[t] \in {"send", "insert"} =>
        /\ pc[t] \in {"send", "insert"}
        /\ cmd'[t].tenant = cmd[t].tenant /\ cmd'[t].inv = cmd[t].inv
        /\ cmd'[t].prev = cmd[t].prev

LEMMA FreshKept ==
    ASSUME IInv, NEW t \in Emitters, PrevFresh(t), Holds(t),
           pc[t] \in {"send", "insert"} => SameLinks(cmd[t].tenant)
    PROVE  PrevFresh(t)'
<1> SUFFICES ASSUME pc'[t] \in {"send", "insert"} PROVE PrevFresh(t)'
    BY DEF PrevFresh
<1>1. /\ pc[t] \in {"send", "insert"}
      /\ cmd'[t].tenant = cmd[t].tenant /\ cmd'[t].inv = cmd[t].inv
      /\ cmd'[t].prev = cmd[t].prev
      BY DEF Holds
<1> DEFINE tn == cmd[t].tenant
           s == cmd[t].inv[1]
           prev == cmd[t].prev
<1>2. tn \in Tenants /\ SameLinks(tn) /\ Newest(tn, s, prev)
      BY <1>1, EmitterIs DEF PrevFresh
<1>3. Of(tn, s)' = {i \in DOMAIN rows'[tn] : rows'[tn][i].inv[1] = s}
      BY <1>1 DEF Of
<1>4. Of(tn, s)' = Of(tn, s)
      BY <1>2, <1>3 DEF SameLinks, Of
<1>5. \A i, j \in Of(tn, s) : Prior(tn, j, i)' <=> Prior(tn, j, i)
      BY <1>1, <1>2 DEF SameLinks, Of, Num, Prior
<1>6. \A i \in Of(tn, s) : rows'[tn][i].hash = rows[tn][i].hash
      BY <1>2 DEF SameLinks, Of
<1>7. Newest(tn, s, prev)'
      BY <1>1, <1>2, <1>4, <1>5, <1>6 DEF Newest
<1> QED BY <1>1, <1>7 DEF PrevFresh

HasRow(xml) ==
    \E i \in DOMAIN rows[xml.tenant] :
        Xml(xml.tenant, rows[xml.tenant][i].inv, rows[xml.tenant][i].prev) = xml

InHand(xml) ==
    \E t \in Emitters :
        pc[t] = "insert" /\ Xml(cmd[t].tenant, cmd[t].inv, cmd[t].prev) = xml

LEMMA HeldIs ==
    /\ HeldIsRegistered <=> (faults = 0 => \A xml \in aeat : HasRow(xml) \/ InHand(xml))
    /\ HeldIsRegistered' <=>
           (faults' = 0 => \A xml \in aeat' : HasRow(xml)' \/ InHand(xml)')
BY DEF HeldIsRegistered, HasRow, InHand

LEMMA RowStays ==
    ASSUME NEW xml \in XmlSet, HasRow(xml), AllLinks
    PROVE  HasRow(xml)'
BY DEF HasRow, AllLinks, SameLinks, XmlSet

LEMMA HeldKept ==
    ASSUME IInv, HeldIsRegistered, AllLinks, faults' = faults, aeat' \subseteq XmlSet,
           \A xml \in aeat' : xml \in aeat \/ HasRow(xml) \/ InHand(xml)',
           \A u \in Emitters : pc[u] = "insert" => pc'[u] = "insert" /\ cmd'[u] = cmd[u]
    PROVE  HeldIsRegistered'
<1>1. \A xml : InHand(xml) => InHand(xml)'
      BY DEF InHand
<1>2. \A xml \in XmlSet : HasRow(xml) => HasRow(xml)'
      BY RowStays
<1> QED BY <1>1, <1>2, HeldIs

LEMMA ChainedKept ==
    ASSUME \A tn \in Tenants, s \in Series : Chained(tn, s), AllLinks
    PROVE  \A tn \in Tenants, s \in Series : Chained(tn, s)'
BY LinksKept DEF AllLinks

(***************************************************************************)
(* Each step keeps the order.                                              *)
(***************************************************************************)

\* A step that changes no links, sends nothing without a row, and after which
\* every request has what it had.
LEMMA QuietOrder ==
    ASSUME IInv, OrderInv, IInv', AllLinks, faults' = faults,
           \A xml \in aeat' : xml \in aeat \/ HasRow(xml) \/ InHand(xml)',
           \A u \in Emitters :
               /\ GoesOn(u) /\ Holds(u)
               /\ pc[u] = "insert" => pc'[u] = "insert" /\ cmd'[u] = cmd[u]
    PROVE  OrderInv'
<1>1. \A t \in Emitters : Turn(t)'
      BY TurnsKept DEF OrderInv
<1>2. \A t \in Emitters : PrevFresh(t)'
  <2> SUFFICES ASSUME NEW t \in Emitters PROVE PrevFresh(t)'
      OBVIOUS
  <2>1. pc[t] \in {"send", "insert"} => SameLinks(cmd[t].tenant)
        BY EmitterIs DEF AllLinks
  <2> QED BY <2>1, FreshKept DEF OrderInv
<1>3. HeldIsRegistered'
      BY HeldKept DEF OrderInv, IInv, TypeInv
<1> QED BY <1>1, <1>2, <1>3, ChainedKept DEF OrderInv

\* The same after a fault: what the AEAT holds may have no row.
LEMMA FaultOrder ==
    ASSUME IInv, OrderInv, AllLinks, Fault,
           \A u \in Emitters : GoesOn(u) /\ Holds(u)
    PROVE  OrderInv'
<1>1. \A t \in Emitters : Turn(t)'
      BY TurnsKept DEF OrderInv
<1>2. \A t \in Emitters : PrevFresh(t)'
  <2> SUFFICES ASSUME NEW t \in Emitters PROVE PrevFresh(t)'
      OBVIOUS
  <2>1. pc[t] \in {"send", "insert"} => SameLinks(cmd[t].tenant)
        BY EmitterIs DEF AllLinks
  <2> QED BY <2>1, FreshKept DEF OrderInv
<1>3. faults' # 0
      BY EmissionAssumption DEF Fault, IInv, TypeInv
<1>4. HeldIsRegistered'
      BY <1>3, HeldIs
<1> QED BY <1>1, <1>2, <1>4, ChainedKept DEF OrderInv

\* The threads but t go on as they are.
LEMMA OthersGoOn ==
    ASSUME NEW t, Others(t), NEW u \in Emitters, u # t
    PROVE  /\ GoesOn(u) /\ Holds(u)
           /\ pc[u] = "insert" => pc'[u] = "insert" /\ cmd'[u] = cmd[u]
BY DEF Others, Kept, GoesOn, Holds, Threads

LEMMA RequestOrder ==
    ASSUME InOrder, IInv, OrderInv, NEW t \in Emitters, NEW tn \in Tenants,
           NEW inv \in Invs, NEW verifactu \in BOOLEAN, Request(t, tn, inv, verifactu)
    PROVE  OrderInv'
<1> DEFINE c == [NoCmd EXCEPT !.tenant = tn, !.inv = inv, !.verifactu = verifactu]
<1>1. c.tenant = tn /\ c.inv = inv
      BY DEF NoCmd
<1>2. /\ cmd' = [cmd EXCEPT ![t] = c] /\ pc' = [pc EXCEPT ![t] = "begin"]
      /\ UNCHANGED <<rows, aeat, writer, found, patch, faults>>
      /\ pc[t] = "idle" /\ NextInOrder(tn, inv[1], inv[2])
      BY DEF Request, Goto
<1> HIDE DEF c
<1>3. t \in Threads /\ TypeInv
      BY DEF Threads, IInv
<1>4. /\ pc'[t] = "begin" /\ cmd'[t] = c
      /\ \A u \in Emitters \ {t} : pc'[u] = pc[u] /\ cmd'[u] = cmd[u]
      BY <1>2, <1>3 DEF TypeInv, Threads
<1>5. \A i \in Of(tn, inv[1]) : Num(tn, i) < inv[2]
      BY <1>2, <1>3, OfType DEF NextInOrder
<1>6. \A u \in Emitters : cmd[u].tenant = tn => cmd[u].inv[1] # inv[1]
      BY <1>2 DEF NextInOrder
<1>7. \A u \in Emitters : Turn(u)'
  <2>1. Turn(t)'
        BY <1>1, <1>2, <1>4, <1>5, <1>6 DEF Turn, Of, Num
  <2>2. ASSUME NEW u \in Emitters \ {t} PROVE Turn(u)'
    <3> SUFFICES ASSUME pc[u] # "idle" PROVE Turn(u)'
        BY <1>4 DEF Turn
    <3>1. \A v \in Emitters \ {u} :
             pc'[v] # "idle" /\ cmd'[v].tenant = cmd'[u].tenant =>
                 cmd'[v].inv[1] # cmd'[u].inv[1]
          BY <1>1, <1>4, <1>6 DEF OrderInv, Turn
    <3>2. \A i \in Of(cmd[u].tenant, cmd[u].inv[1]) :
             Num(cmd[u].tenant, i) < cmd[u].inv[2]
          BY DEF OrderInv, Turn
    <3>3. cmd'[u] = cmd[u] /\ rows' = rows
          BY <1>2, <1>4
    <3>4. \A i \in Of(cmd[u].tenant, cmd[u].inv[1])' :
             Num(cmd[u].tenant, i)' < cmd'[u].inv[2]
          BY <3>2, <3>3 DEF Of, Num
    <3> QED BY <3>1, <3>4 DEF Turn
  <2> QED BY <2>1, <2>2
<1>8. \A u \in Emitters : PrevFresh(u)'
  <2> SUFFICES ASSUME NEW u \in Emitters, pc'[u] \in {"send", "insert"}
               PROVE  PrevFresh(u)'
      BY DEF PrevFresh
  <2>1. u # t
        BY <1>4
  <2>2. Holds(u)
        BY <1>4, <2>1 DEF Holds
  <2>3. SameLinks(cmd[u].tenant)
        BY <1>2 DEF SameLinks
  <2> QED BY <2>2, <2>3, FreshKept DEF OrderInv
<1>9. AllLinks
      BY <1>2, SameRowsLinks
<1>10. HeldIsRegistered'
      BY <1>2, <1>3, <1>4, <1>9, HeldKept DEF OrderInv, TypeInv
<1> QED BY <1>7, <1>8, <1>9, <1>10, ChainedKept DEF OrderInv

LEMMA BeginOrder ==
    ASSUME IInv, OrderInv, NEW t \in Emitters, Begin(t)
    PROVE  OrderInv'
<1> DEFINE c == cmd[t]
           d == [c EXCEPT !.prev = SeriesHash(c.tenant, c.inv[1])]
<1>1. /\ t \in Threads /\ pc[t] = "begin" /\ TypeInv /\ c \in CmdSet
      BY DEF Begin, Threads, IInv, TypeInv
<1>2. c.tenant \in Tenants
      BY <1>1, EmitterIs
<1>3. /\ d.tenant = c.tenant /\ d.inv = c.inv
      /\ d.prev = SeriesHash(c.tenant, c.inv[1])
      BY <1>1 DEF CmdSet
<1>4. /\ cmd' = [cmd EXCEPT ![t] = d] /\ pc'[t] \in {"send", "insert"}
      /\ \A u \in Emitters \ {t} : pc'[u] = pc[u]
      /\ UNCHANGED <<rows, aeat, found, patch, faults>>
      BY <1>1 DEF Begin, Goto, TypeInv, Threads
<1> HIDE DEF d
<1>5. cmd'[t] = d /\ \A u \in Emitters \ {t} : cmd'[u] = cmd[u]
      BY <1>1, <1>4 DEF TypeInv
<1>6. AllLinks
      BY <1>4, SameRowsLinks
<1>7. \A u \in Emitters : GoesOn(u)
      BY <1>1, <1>3, <1>4, <1>5 DEF GoesOn
<1>8. \A u \in Emitters : PrevFresh(u)'
  <2>1. PrevFresh(t)'
    <3>1. Newest(c.tenant, c.inv[1], d.prev)
          BY <1>1, <1>2, <1>3, SeriesHashIs
    <3>2. /\ cmd'[t].tenant = cmd[t].tenant /\ cmd'[t].inv = cmd[t].inv
          /\ cmd'[t].prev = d.prev /\ rows' = rows
          BY <1>3, <1>4, <1>5
    <3>3. Of(cmd[t].tenant, cmd[t].inv[1])' = Of(cmd[t].tenant, cmd[t].inv[1])
          BY <3>2 DEF Of
    <3>4. \A i, j : Prior(cmd[t].tenant, j, i)' <=> Prior(cmd[t].tenant, j, i)
          BY <3>2 DEF Prior, Num
    <3>5. Newest(cmd[t].tenant, cmd[t].inv[1], cmd[t].prev)'
          BY <3>1, <3>2, <3>3, <3>4 DEF Newest
    <3> QED BY <3>5 DEF PrevFresh
  <2>2. ASSUME NEW u \in Emitters \ {t} PROVE PrevFresh(u)'
    <3>1. Holds(u)
          BY <1>4, <1>5 DEF Holds
    <3>2. SameLinks(cmd[u].tenant)
          BY <1>4 DEF SameLinks
    <3> QED BY <3>1, <3>2, FreshKept DEF OrderInv
  <2> QED BY <2>1, <2>2
<1>9. HeldIsRegistered'
      BY <1>1, <1>4, <1>5, <1>6, HeldKept DEF OrderInv, TypeInv
<1> QED BY <1>6, <1>7, <1>8, <1>9, TurnsKept, ChainedKept DEF OrderInv

LEMMA InvalidOrder ==
    ASSUME IInv, OrderInv, IInv', NEW t \in Emitters, Invalid(t), Others(t)
    PROVE  OrderInv'
<1>1. t \in Threads /\ pc[t] = "begin" /\ pc'[t] = "idle"
      BY DEF Invalid, Leave, Threads, IInv, TypeInv
<1>2. AllLinks
      BY SameRowsLinks DEF Invalid
<1>3. GoesOn(t) /\ Holds(t)
      BY <1>1 DEF GoesOn, Holds
<1> QED BY <1>1, <1>2, <1>3, QuietOrder, OthersGoOn DEF Invalid

LEMMA SendOrder ==
    ASSUME IInv, OrderInv, IInv', NEW t \in Emitters, Send(t), Others(t)
    PROVE  OrderInv'
<1>1. /\ t \in Threads /\ pc[t] = "send" /\ pc'[t] = "insert" /\ cmd[t] \in CmdSet
      BY DEF Send, Goto, Threads, IInv, TypeInv
<1>2. PICK outcome \in Outcomes :
         /\ Exchange(outcome, Xml(cmd[t].tenant, cmd[t].inv, cmd[t].prev))
         /\ cmd' = [cmd EXCEPT ![t].status = StatusAfter(outcome)]
      BY DEF Send
<1>3. /\ cmd'[t].tenant = cmd[t].tenant /\ cmd'[t].inv = cmd[t].inv
      /\ cmd'[t].prev = cmd[t].prev
      BY <1>1, <1>2 DEF IInv, TypeInv, CmdSet
<1>4. AllLinks
      BY SameRowsLinks DEF Send
<1>5. GoesOn(t) /\ Holds(t)
      BY <1>1, <1>3 DEF GoesOn, Holds
<1>6. \A xml \in aeat' : xml \in aeat \/ InHand(xml)'
      BY <1>1, <1>2, <1>3 DEF Exchange, InHand
<1> QED BY <1>1, <1>4, <1>5, <1>6, QuietOrder, OthersGoOn DEF Send

LEMMA RaisesOrder ==
    ASSUME IInv, OrderInv, NEW t \in Emitters, Raises(t), Others(t)
    PROVE  OrderInv'
<1>1. t \in Threads /\ pc'[t] = "idle"
      BY DEF Raises, Leave, Threads, IInv, TypeInv
<1>2. AllLinks
      BY SameRowsLinks DEF Raises
<1>3. GoesOn(t) /\ Holds(t)
      BY <1>1 DEF GoesOn, Holds
<1> QED BY <1>2, <1>3, FaultOrder, OthersGoOn DEF Raises

LEMMA CrashOrder ==
    ASSUME IInv, OrderInv, Crash
    PROVE  OrderInv'
<1>1. \A u \in Emitters : GoesOn(u) /\ Holds(u)
      BY DEF Crash, GoesOn, Holds, Threads
<1>2. AllLinks
      BY SameRowsLinks DEF Crash
<1> QED BY <1>1, <1>2, FaultOrder DEF Crash

\* A step of a retrier that commits nothing but statuses.
\* A batch changes no links.
LEMMA CommitLinks ==
    ASSUME IInv, NEW t \in Retriers, Commit(t)
    PROVE  AllLinks
<1> DEFINE tn == cmd[t].tenant
           p == patch[t]
<1>1. t \notin Emitters /\ t \in Threads
      BY EmissionAssumption DEF Threads
<1>2. /\ pc[t] = "resend" /\ TypeInv
      /\ rows' = [rows EXCEPT ![tn] = Patched(rows[tn], p)]
      BY DEF Commit, IInv
<1>3. tn \in Tenants /\ p \in Patches
      BY <1>1, <1>2, InsideIs DEF TypeInv
<1> HIDE DEF tn, p
<1>4. /\ \A u \in Tenants \ {tn} : rows'[u] = rows[u]
      /\ DOMAIN rows'[tn] = DOMAIN rows[tn]
      /\ \A i \in DOMAIN rows[tn] :
             /\ i \notin DOMAIN p => rows'[tn][i] = rows[tn][i]
             /\ i \in DOMAIN p =>
                    rows'[tn][i] = [rows[tn][i] EXCEPT !.status = p[i]]
      BY <1>2, <1>3, CommittedRows
<1>5. SameLinks(tn)
  <2>1. \A i \in DOMAIN rows[tn] : rows[tn][i] \in RowSet
        BY <1>2, <1>3, RowsHere
  <2> QED BY <1>4, <2>1 DEF SameLinks, RowSet
<1> QED BY <1>4, <1>5 DEF AllLinks, SameLinks

LEMMA RetrierOrder ==
    ASSUME IInv, OrderInv, IInv', NEW t \in Retriers, RetrierStep(t), Others(t)
    PROVE  OrderInv'
<1>1. t \notin Emitters /\ t \in Threads
      BY EmissionAssumption DEF Threads
<1>2. \A u \in Emitters :
         /\ GoesOn(u) /\ Holds(u)
         /\ pc[u] = "insert" => pc'[u] = "insert" /\ cmd'[u] = cmd[u]
      BY <1>1, OthersGoOn
<1>3. CASE \E tn \in Tenants : BeginRetry(t, tn)
  <2>1. UNCHANGED <<rows, aeat, faults>>
        BY <1>3 DEF BeginRetry
  <2> QED BY <1>2, <2>1, QuietOrder, SameRowsLinks
<1>4. CASE Resend(t)
  <2>1. UNCHANGED <<rows, faults>> /\ pc[t] = "resend" /\ found[t] # {}
        BY <1>4 DEF Resend
  <2> DEFINE row == rows[cmd[t].tenant][First(found[t])]
             sent == Xml(cmd[t].tenant, row.inv, row.prev)
  <2>2. HasRow(sent)
        BY <2>1, BatchRow DEF HasRow, Xml
  <2>3. \A xml \in aeat' : xml \in aeat \/ xml = sent
        BY <1>4 DEF Resend, Exchange
  <2> HIDE DEF sent
  <2>4. \A xml \in aeat' : xml \in aeat \/ HasRow(xml)
        BY <2>2, <2>3
  <2> QED BY <1>2, <2>1, <2>4, QuietOrder, SameRowsLinks
<1>5. CASE Commit(t)
  <2>1. UNCHANGED <<aeat, faults>>
        BY <1>5 DEF Commit
  <2> QED BY <1>2, <1>5, <2>1, CommitLinks, QuietOrder
<1>6. CASE BatchRaises(t)
      BY <1>2, <1>6, FaultOrder, SameRowsLinks DEF BatchRaises
<1> QED BY <1>3, <1>4, <1>5, <1>6 DEF RetrierStep

\* A table with one more row: the new one of its series, with a number above
\* the others.
LEMMA AppendedChain ==
    ASSUME TypeInv, TypeInv', NEW tn \in Tenants, NEW new \in RowSet,
           rows'[tn] = Append(rows[tn], new),
           new.hash = Digest(new.inv, new.prev),
           Newest(tn, new.inv[1], new.prev),
           \A i \in Of(tn, new.inv[1]) : Num(tn, i) < new.inv[2],
           NEW s \in Series, Chained(tn, s)
    PROVE  /\ Chained(tn, s)'
           /\ s # new.inv[1] =>
                  /\ Of(tn, s)' = Of(tn, s)
                  /\ \A i \in Of(tn, s) : Num(tn, i)' = Num(tn, i)
<1>0. PICK n \in Nat : n = Len(rows[tn]) + 1
  <2>1. Len(rows[tn]) \in Nat
        BY DEF TypeInv
  <2> QED BY <2>1
<1>1. /\ DOMAIN rows[tn] = 1..Len(rows[tn]) /\ Len(rows[tn]) \in Nat
      /\ DOMAIN rows'[tn] = DOMAIN rows[tn] \cup {n}
      /\ \A i \in DOMAIN rows[tn] : rows'[tn][i] = rows[tn][i] /\ i \in Nat /\ i < n
      /\ rows'[tn][n] = new /\ n \notin DOMAIN rows[tn]
  <2>1. rows[tn] \in Seq(RowSet)
        BY DEF TypeInv
  <2>2. /\ DOMAIN rows[tn] = 1..Len(rows[tn]) /\ Len(rows[tn]) \in Nat
        /\ DOMAIN rows'[tn] = DOMAIN rows[tn] \cup {n}
        /\ \A i \in DOMAIN rows[tn] : rows'[tn][i] = rows[tn][i] /\ i \in Nat /\ i < n
        /\ rows'[tn][n] = new
        BY <1>0, <2>1, AppendedRows
  <2> QED BY <2>2
<1>2. \A i \in Of(tn, s) : i \in DOMAIN rows[tn] /\ Num(tn, i)' = Num(tn, i)
      BY <1>1 DEF Of, Num
<1>3. CASE s # new.inv[1]
  <2>1. Of(tn, s)' = Of(tn, s)
        BY <1>1, <1>3 DEF Of
  <2>2. \A i, j \in Of(tn, s) : Prior(tn, j, i)' <=> Prior(tn, j, i)
        BY <1>2 DEF Prior
  <2>3. \A i, j \in Of(tn, s) : IsPrevious(tn, s, j, i)' <=> IsPrevious(tn, s, j, i)
        BY <2>1, <2>2 DEF IsPrevious
  <2>4. \A i \in Of(tn, s) : rows'[tn][i] = rows[tn][i]
        BY <1>1, <1>2
  <2>5. Chained(tn, s)'
    <3> SUFFICES ASSUME NEW i \in Of(tn, s)
                 PROVE  /\ rows'[tn][i].hash = Digest(rows'[tn][i].inv, rows'[tn][i].prev)
                        /\ (\A k \in Of(tn, s)' : ~Prior(tn, k, i)') =>
                               rows'[tn][i].prev = Genesis
                        /\ \A j \in Of(tn, s)' : IsPrevious(tn, s, j, i)' =>
                               rows'[tn][i].prev = rows'[tn][j].hash
        BY <2>1 DEF Chained
    <3>1. /\ rows[tn][i].hash = Digest(rows[tn][i].inv, rows[tn][i].prev)
          /\ (\A k \in Of(tn, s) : ~Prior(tn, k, i)) => rows[tn][i].prev = Genesis
          /\ \A j \in Of(tn, s) :
                 IsPrevious(tn, s, j, i) => rows[tn][i].prev = rows[tn][j].hash
          BY DEF Chained
    <3>2. rows'[tn][i].hash = Digest(rows'[tn][i].inv, rows'[tn][i].prev)
          BY <2>4, <3>1
    <3>3. (\A k \in Of(tn, s)' : ~Prior(tn, k, i)') => rows'[tn][i].prev = Genesis
          BY <2>1, <2>2, <2>4, <3>1
    <3>4. \A j \in Of(tn, s)' : IsPrevious(tn, s, j, i)' =>
              rows'[tn][i].prev = rows'[tn][j].hash
          BY <2>1, <2>3, <2>4, <3>1
    <3> QED BY <3>2, <3>3, <3>4
  <2> QED BY <1>2, <1>3, <2>1, <2>5
<1>4. CASE s = new.inv[1]
  <2>1. Of(tn, s)' = Of(tn, s) \cup {n} /\ n \notin Of(tn, s)
        BY <1>1, <1>4 DEF Of
  <2>2. Num(tn, n)' = new.inv[2]
        BY <1>1 DEF Num
  <2>3. \A i, j \in Of(tn, s) : Prior(tn, j, i)' <=> Prior(tn, j, i)
        BY <1>2 DEF Prior
  <2>4. \A i \in Of(tn, s) : Num(tn, i) \in Nat /\ Num(tn, i) < new.inv[2]
        BY <1>4, OfType
  <2>5. new.inv[2] \in Nat
        BY InvType DEF RowSet
  <2>6. \A i \in Of(tn, s) : Prior(tn, i, n)' /\ ~Prior(tn, n, i)'
        BY <1>1, <1>2, <2>2, <2>4, <2>5 DEF Prior
  <2> SUFFICES ASSUME NEW i \in Of(tn, s)'
               PROVE  /\ rows'[tn][i].hash = Digest(rows'[tn][i].inv, rows'[tn][i].prev)
                      /\ (\A k \in Of(tn, s)' : ~Prior(tn, k, i)') =>
                             rows'[tn][i].prev = Genesis
                      /\ \A j \in Of(tn, s)' : IsPrevious(tn, s, j, i)' =>
                             rows'[tn][i].prev = rows'[tn][j].hash
      BY <1>4 DEF Chained
  <2>7. CASE i \in Of(tn, s)
    <3>1. \A j \in Of(tn, s)' : IsPrevious(tn, s, j, i)' =>
              j \in Of(tn, s) /\ IsPrevious(tn, s, j, i)
          BY <2>1, <2>3, <2>6, <2>7 DEF IsPrevious
    <3>2. \A j \in Of(tn, s) : rows'[tn][j] = rows[tn][j]
          BY <1>1, <1>2
    <3>3. /\ rows[tn][i].hash = Digest(rows[tn][i].inv, rows[tn][i].prev)
          /\ (\A k \in Of(tn, s) : ~Prior(tn, k, i)) => rows[tn][i].prev = Genesis
          /\ \A j \in Of(tn, s) :
                 IsPrevious(tn, s, j, i) => rows[tn][i].prev = rows[tn][j].hash
          BY <2>7 DEF Chained
    <3>4. rows'[tn][i].hash = Digest(rows'[tn][i].inv, rows'[tn][i].prev)
          BY <2>7, <3>2, <3>3
    <3>5. (\A k \in Of(tn, s)' : ~Prior(tn, k, i)') => rows'[tn][i].prev = Genesis
          BY <2>1, <2>3, <2>7, <3>2, <3>3
    <3>6. \A j \in Of(tn, s)' : IsPrevious(tn, s, j, i)' =>
              rows'[tn][i].prev = rows'[tn][j].hash
          BY <2>7, <3>1, <3>2, <3>3
    <3> QED BY <3>4, <3>5, <3>6
  <2>8. CASE i = n
    <3>1. rows'[tn][i] = new
          BY <1>1, <2>8
    <3>2. CASE Of(tn, s) = {}
      <4>1. ~Prior(tn, n, n)'
            BY <1>1, <2>2, <2>5 DEF Prior
      <4>2. \A j : ~IsPrevious(tn, s, j, n)'
            BY <2>1, <3>2, <4>1 DEF IsPrevious
      <4> QED BY <1>4, <2>8, <3>1, <3>2, <4>2 DEF Newest
    <3>3. CASE Of(tn, s) # {}
      <4>1. \E k \in Of(tn, s)' : Prior(tn, k, i)'
            BY <2>1, <2>6, <2>8, <3>3
      <4>2. ASSUME NEW j \in Of(tn, s)', IsPrevious(tn, s, j, i)'
            PROVE  new.prev = rows'[tn][j].hash
        <5>1. j \in Of(tn, s)
          <6>1. ~Prior(tn, n, n)'
                BY <1>1, <2>2, <2>5 DEF Prior
          <6> QED BY <2>1, <2>8, <4>2, <6>1 DEF IsPrevious
        <5>2. \A k \in Of(tn, s) \ {j} : Prior(tn, k, j)
              BY <2>1, <2>3, <2>6, <2>8, <4>2, <5>1 DEF IsPrevious
        <5>3. new.prev = rows[tn][j].hash
              BY <1>4, <5>1, <5>2 DEF Newest
        <5> QED BY <1>1, <1>2, <5>1, <5>3
      <4> QED BY <3>1, <4>1, <4>2
    <3> QED BY <3>2, <3>3
  <2> QED BY <2>1, <2>7, <2>8
<1> QED BY <1>3, <1>4

LEMMA InsertOrder ==
    ASSUME IInv, OrderInv, IInv', NEW t \in Emitters, Insert(t), Others(t)
    PROVE  OrderInv'
<1> DEFINE c == cmd[t]
           new == Row(c.inv, c.prev, c.status)
<1>1. /\ t \in Threads /\ pc[t] = "insert" /\ pc'[t] = "idle"
      /\ UNCHANGED <<aeat, faults>> /\ TypeInv /\ TypeInv'
      BY DEF Insert, Leave, Threads, IInv, TypeInv
<1>2. /\ c.tenant \in Tenants /\ c.inv \in Invs /\ c.prev \in Seq(Invs)
      /\ c.status \in Status /\ rows[c.tenant] \in Seq(RowSet)
      /\ c.inv[1] \in Series /\ c.inv[2] \in Nat
      BY <1>1, InsideIs, InvType DEF CmdSet
<1>3. /\ new \in RowSet /\ new.inv = c.inv /\ new.prev = c.prev
      /\ new.hash = Digest(c.inv, c.prev)
      BY <1>2, NewRowType
<1>4. \A i \in Of(c.tenant, c.inv[1]) : Num(c.tenant, i) < c.inv[2]
      BY <1>1 DEF OrderInv, Turn
<1>5. ~NumberUsed(rows[c.tenant], c.inv)
  <2> SUFFICES ASSUME NEW i \in DOMAIN rows[c.tenant], rows[c.tenant][i].inv = c.inv
               PROVE  FALSE
      BY DEF NumberUsed
  <2>1. i \in Of(c.tenant, c.inv[1]) /\ Num(c.tenant, i) = c.inv[2]
        BY DEF Of, Num
  <2> QED BY <1>2, <1>4, <2>1
<1>6. rows' = [rows EXCEPT ![c.tenant] = Append(@, new)]
      BY <1>5 DEF Insert
<1> HIDE DEF new
<1>7. PICK tn \in Tenants : tn = c.tenant
      BY <1>2
<1>8. PICK s \in Series : s = c.inv[1]
      BY <1>2
<1>9. /\ rows'[tn] = Append(rows[tn], new)
      /\ \A other \in Tenants \ {tn} : rows'[other] = rows[other]
      BY <1>1, <1>6, <1>7 DEF TypeInv
<1>10. /\ new.inv[1] = s /\ new.hash = Digest(new.inv, new.prev)
       /\ Newest(tn, s, new.prev)
       /\ \A i \in Of(tn, s) : Num(tn, i) < new.inv[2]
       BY <1>1, <1>3, <1>4, <1>7, <1>8 DEF OrderInv, PrevFresh
<1>11. \A z \in Series :
          /\ Chained(tn, z)'
          /\ z # s => /\ Of(tn, z)' = Of(tn, z)
                      /\ \A i \in Of(tn, z) : Num(tn, i)' = Num(tn, i)
  <2> SUFFICES ASSUME NEW z \in Series
               PROVE  /\ Chained(tn, z)'
                      /\ z # s => /\ Of(tn, z)' = Of(tn, z)
                                  /\ \A i \in Of(tn, z) : Num(tn, i)' = Num(tn, i)
      OBVIOUS
  <2>1. Chained(tn, z)
        BY DEF OrderInv
  <2> QED BY <1>1, <1>3, <1>9, <1>10, <2>1, AppendedChain
<1>12. \A other \in Tenants \ {tn} : SameLinks(other)
       BY <1>9 DEF SameLinks
<1>13. ASSUME NEW other \in Tenants, NEW z \in Series PROVE Chained(other, z)'
  <2>1. Chained(other, z)
        BY DEF OrderInv
  <2>2. CASE other = tn
        BY <1>11, <2>2
  <2>3. CASE other # tn
        BY <1>12, <2>1, <2>3, LinksKept
  <2> QED BY <2>2, <2>3
<1>14. ASSUME NEW u \in Emitters \ {t} PROVE PrevFresh(u)'
  <2>1. Holds(u)
        BY OthersGoOn
  <2>2. ASSUME pc[u] \in {"send", "insert"} PROVE SameLinks(cmd[u].tenant)
    <3>1. u \in Threads /\ cmd[u].tenant \in Tenants /\ writer[cmd[u].tenant] = u
          BY <2>2, InsideIs DEF Threads
    <3>2. writer[tn] = t
          BY <1>1, <1>7, InsideIs
    <3> QED BY <1>12, <3>1, <3>2
  <2> QED BY <2>1, <2>2, FreshKept DEF OrderInv
<1>15. ASSUME NEW u \in Emitters \ {t} PROVE Turn(u)'
  <2> SUFFICES ASSUME pc'[u] # "idle" PROVE Turn(u)'
      BY DEF Turn
  <2>1. pc'[u] = pc[u] /\ cmd'[u] = cmd[u]
        BY DEF Others, Kept, Threads
  <2>2. cmd[u].tenant \in Tenants /\ cmd[u].inv[1] \in Series
        BY <2>1, EmitterIs
  <2>3. PICK x \in Tenants, z \in Series : x = cmd[u].tenant /\ z = cmd[u].inv[1]
        BY <2>2
  <2>4. Of(x, z)' = Of(x, z) /\ \A i \in Of(x, z) : Num(x, i)' = Num(x, i)
    <3>1. CASE x # tn
          BY <1>12, <3>1, LinksKept
    <3>2. CASE x = tn
      <4>1. z # s
            BY <1>1, <1>7, <1>8, <2>1, <2>3, <3>2 DEF OrderInv, Turn
      <4> QED BY <1>11, <3>2, <4>1
    <3> QED BY <3>1, <3>2
  <2>5. \A i \in Of(x, z)' : Num(x, i)' < cmd'[u].inv[2]
        BY <2>1, <2>3, <2>4 DEF OrderInv, Turn
  <2>6. \A v \in Emitters \ {u} :
           pc'[v] # "idle" /\ cmd'[v].tenant = cmd'[u].tenant =>
               cmd'[v].inv[1] # cmd'[u].inv[1]
    <3>1. \A v \in Emitters : pc'[v] # "idle" => pc'[v] = pc[v] /\ cmd'[v] = cmd[v]
          BY <1>1 DEF Others, Kept, Threads
    <3> QED BY <2>1, <3>1 DEF OrderInv, Turn
  <2> QED BY <2>1, <2>3, <2>5, <2>6 DEF Turn, Of, Num
<1>16. Turn(t)' /\ PrevFresh(t)'
       BY <1>1 DEF Turn, PrevFresh
<1>17. HeldIsRegistered'
  <2> SUFFICES ASSUME faults = 0, NEW xml \in aeat
               PROVE  HasRow(xml)' \/ InHand(xml)'
      BY <1>1, HeldIs
  <2>1. xml \in XmlSet /\ xml.tenant \in Tenants
        BY <1>1 DEF TypeInv, XmlSet
  <2>2. HasRow(xml) \/ InHand(xml)
        BY HeldIs DEF OrderInv
  <2>3. /\ DOMAIN rows'[tn] = DOMAIN rows[tn] \cup {Len(rows[tn]) + 1}
        /\ \A i \in DOMAIN rows[tn] : rows'[tn][i] = rows[tn][i]
        /\ rows'[tn][Len(rows[tn]) + 1] = new
        BY <1>2, <1>3, <1>7, <1>9, AppendedRows
  <2>4. CASE HasRow(xml)
    <3>1. CASE xml.tenant = tn
          BY <2>3, <2>4, <3>1 DEF HasRow
    <3>2. CASE xml.tenant # tn
          BY <1>9, <2>1, <2>4, <3>2 DEF HasRow
    <3> QED BY <3>1, <3>2
  <2>5. CASE InHand(xml)
    <3>1. PICK u \in Emitters :
             pc[u] = "insert" /\ Xml(cmd[u].tenant, cmd[u].inv, cmd[u].prev) = xml
          BY <2>5 DEF InHand
    <3>2. CASE u = t
      <4>1. xml = Xml(tn, new.inv, new.prev) /\ xml.tenant = tn
            BY <1>3, <1>7, <3>1, <3>2 DEF Xml
      <4> QED BY <2>3, <4>1 DEF HasRow
    <3>3. CASE u # t
      <4>1. pc'[u] = "insert" /\ cmd'[u] = cmd[u]
            BY <3>1, <3>3, OthersGoOn
      <4> QED BY <3>1, <4>1 DEF InHand
    <3> QED BY <3>2, <3>3
  <2> QED BY <2>2, <2>4, <2>5
<1> QED BY <1>13, <1>14, <1>15, <1>16, <1>17 DEF OrderInv

LEMMA InitOrder == Init => OrderInv
<1> SUFFICES ASSUME Init PROVE OrderInv
    OBVIOUS
<1>1. \A t \in Emitters : Turn(t) /\ PrevFresh(t)
      BY DEF Init, Turn, PrevFresh, Threads
<1>2. \A tn \in Tenants, s \in Series : Chained(tn, s)
      BY DEF Init, Chained, Of
<1>3. HeldIsRegistered
      BY DEF Init, HeldIsRegistered
<1> QED BY <1>1, <1>2, <1>3 DEF OrderInv

LEMMA OrderStep ==
    ASSUME InOrder
    PROVE  IInv /\ OrderInv /\ [Next]_vars => OrderInv'
<1> SUFFICES ASSUME IInv, OrderInv, [Next]_vars PROVE OrderInv'
    OBVIOUS
<1>1. IInv'
      BY IInvStep
<1>2. ASSUME NEW t \in Threads, ThreadStep(t) PROVE OrderInv'
  <2>1. Others(t)
        BY <1>2, ThreadKeeps DEF Keeps
  <2>2. ASSUME NEW tn \in Tenants, NEW inv \in Invs, NEW verifactu \in BOOLEAN,
               t \in Emitters, Request(t, tn, inv, verifactu)
        PROVE  OrderInv'
        BY <2>2, RequestOrder
  <2>3. CASE t \in Emitters /\ EmitterStep(t)
        BY <1>1, <2>1, <2>3, BeginOrder, InvalidOrder, SendOrder, InsertOrder,
           RaisesOrder DEF EmitterStep
  <2>4. CASE t \in Retriers /\ RetrierStep(t)
        BY <1>1, <2>1, <2>4, RetrierOrder
  <2> QED BY <1>2, <2>2, <2>3, <2>4 DEF ThreadStep
<1>3. CASE UNCHANGED vars
  <2>1. AllLinks /\ UNCHANGED <<aeat, faults, pc, cmd>>
        BY <1>3, SameRowsLinks DEF vars
  <2>2. \A u \in Emitters : GoesOn(u) /\ Holds(u)
        BY <2>1 DEF GoesOn, Holds
  <2> QED BY <1>1, <2>1, <2>2, QuietOrder
<1> QED BY <1>2, <1>3, CrashOrder, NextSplit

(***************************************************************************)
(* If clients use the numbers of a series one after the other, each series *)
(* is a chain, and the digest a thread holds is the newest of its series.  *)
(***************************************************************************)
THEOREM OrderInvariant ==
    ASSUME InOrder
    PROVE  Spec => []OrderInv
<1> QED BY InitIInv, IInvStep, InitOrder, OrderStep, PTL DEF Spec

\* Then the audit of every series accepts what emission wrote.
THEOREM AlwaysAudited ==
    ASSUME InOrder
    PROVE  Spec => []SeriesAudited
<1>1. IInv /\ OrderInv => SeriesAudited
      BY ChainedIsAudited DEF IInv, OrderInv, SeriesAudited
<1> QED BY <1>1, EmissionInvariant, OrderInvariant, PTL

(***************************************************************************)
(* Then, and without a fault, what the AEAT holds has a row with the same  *)
(* link, or is about to.                                                   *)
(***************************************************************************)
THEOREM AlwaysRegistered ==
    ASSUME InOrder
    PROVE  Spec => []HeldIsRegistered
<1>1. OrderInv => HeldIsRegistered
      BY DEF OrderInv
<1> QED BY <1>1, OrderInvariant, PTL
-----------------------------------------------------------------------------
(***************************************************************************)
(* The refinement: a series is an append-only log.                         *)
(***************************************************************************)

\* The numbers of a series were used in the order of its rows.
Ascending ==
    \A tn \in Tenants, s \in Series : \A i, j \in Of(tn, s) :
        i < j => Num(tn, i) < Num(tn, j)

LEMMA StepLinks ==
    ASSUME IInv, [Next]_vars
    PROVE  AllLinks \/ \E t \in Emitters : t \in Threads /\ Insert(t) /\ Others(t)
<1>1. CASE UNCHANGED rows
      BY <1>1, SameRowsLinks
<1>2. CASE rows' # rows
  <2>1. PICK t \in Threads : ThreadStep(t)
        BY <1>2, NextSplit DEF Crash, vars
  <2>2. Others(t)
        BY <2>1, ThreadKeeps DEF Keeps
  <2> QED BY <1>2, <2>1, <2>2, WhoWrites, CommitLinks
<1> QED BY <1>1, <1>2

\* A step that adds a row to the table of a tenant.
Added(tn, new) == rows' = [rows EXCEPT ![tn] = Append(rows[tn], new)]

\* What an INSERT adds, with the clients in order.
LEMMA InsertedRow ==
    ASSUME IInv, OrderInv, NEW t \in Emitters, Insert(t)
    PROVE  \E tn \in Tenants, new \in RowSet :
               /\ rows[tn] \in Seq(RowSet)
               /\ Added(tn, new)
               /\ new.inv \in Invs /\ new.inv[1] \in Series
               /\ new.hash = Digest(new.inv, new.prev)
               /\ Newest(tn, new.inv[1], new.prev)
               /\ \A i \in Of(tn, new.inv[1]) : Num(tn, i) < new.inv[2]
<1> DEFINE c == cmd[t]
           new == Row(c.inv, c.prev, c.status)
<1>1. t \in Threads /\ pc[t] = "insert" /\ TypeInv
      BY DEF Insert, Threads, IInv
<1>2. /\ c.tenant \in Tenants /\ c.inv \in Invs /\ c.prev \in Seq(Invs)
      /\ c.status \in Status /\ rows[c.tenant] \in Seq(RowSet)
      /\ c.inv[1] \in Series /\ c.inv[2] \in Nat
      BY <1>1, InsideIs, InvType DEF CmdSet
<1>3. /\ new \in RowSet /\ new.inv = c.inv /\ new.prev = c.prev
      /\ new.hash = Digest(c.inv, c.prev)
      BY <1>2, NewRowType
<1>4. \A i \in Of(c.tenant, c.inv[1]) : Num(c.tenant, i) < c.inv[2]
      BY <1>1 DEF OrderInv, Turn
<1>5. ~NumberUsed(rows[c.tenant], c.inv)
  <2> SUFFICES ASSUME NEW i \in DOMAIN rows[c.tenant], rows[c.tenant][i].inv = c.inv
               PROVE  FALSE
      BY DEF NumberUsed
  <2>1. i \in Of(c.tenant, c.inv[1]) /\ Num(c.tenant, i) = c.inv[2]
        BY DEF Of, Num
  <2> QED BY <1>2, <1>4, <2>1
<1>6. rows' = [rows EXCEPT ![c.tenant] = Append(rows[c.tenant], new)]
      BY <1>5 DEF Insert
<1>7. Newest(c.tenant, c.inv[1], c.prev)
      BY <1>1 DEF OrderInv, PrevFresh
<1> HIDE DEF new
<1> QED BY <1>2, <1>3, <1>4, <1>6, <1>7 DEF Added

\* The series of the tenants with one more row.
LEMMA InsertedSeries ==
    ASSUME TypeInv, NEW tn \in Tenants, NEW new \in RowSet, NEW u \in Tenants, NEW s,
           rows[tn] \in Seq(RowSet),
           Added(tn, new),
           NEW n, n = Len(rows[tn]) + 1
    PROVE  /\ Of(u, s) \in SUBSET (1..Len(rows[u])) /\ Len(rows[u]) \in Nat
           /\ n \in Nat
           /\ \A i \in Of(u, s) : rows'[u][i] = rows[u][i] /\ i \in Nat
           /\ \A i \in Of(tn, s) : i < n
           /\ rows'[tn][n] = new
           /\ Of(u, s)' = IF u = tn /\ s = new.inv[1] THEN Of(tn, s) \cup {n}
                          ELSE Of(u, s)
<1>1. /\ DOMAIN rows[tn] = 1..Len(rows[tn]) /\ Len(rows[tn]) \in Nat
      /\ rows'[tn] = Append(rows[tn], new)
      /\ \A v \in Tenants \ {tn} : rows'[v] = rows[v]
      BY DEF TypeInv, Added
<1>2. /\ DOMAIN rows'[tn] = DOMAIN rows[tn] \cup {n}
      /\ \A i \in DOMAIN rows[tn] : rows'[tn][i] = rows[tn][i] /\ i \in Nat /\ i < n
      /\ rows'[tn][n] = new
      BY <1>1, AppendedRows
<1>3. DOMAIN rows[u] = 1..Len(rows[u]) /\ Len(rows[u]) \in Nat
      BY DEF TypeInv
<1>4. Of(u, s)' = {i \in DOMAIN rows'[u] : rows'[u][i].inv[1] = s}
      BY DEF Of
<1>5. CASE u = tn
      BY <1>1, <1>2, <1>4, <1>5 DEF Of
<1>6. CASE u # tn
      BY <1>1, <1>2, <1>3, <1>4, <1>6 DEF Of
<1> QED BY <1>5, <1>6

LEMMA AscendingStep ==
    ASSUME IInv, OrderInv, Ascending, [Next]_vars
    PROVE  Ascending'
<1>0. TypeInv
      BY DEF IInv
<1>1. CASE AllLinks
  <2> SUFFICES ASSUME NEW tn \in Tenants, NEW s \in Series,
                      NEW i \in Of(tn, s)', NEW j \in Of(tn, s)', i < j
               PROVE  Num(tn, i)' < Num(tn, j)'
      BY DEF Ascending
  <2>1. i \in Of(tn, s) /\ j \in Of(tn, s)
        BY <1>1, LinksKept DEF AllLinks
  <2>2. Num(tn, i)' = Num(tn, i) /\ Num(tn, j)' = Num(tn, j)
        BY <1>1, <2>1, LinksKept DEF AllLinks
  <2> QED BY <2>1, <2>2 DEF Ascending
<1>2. ASSUME NEW t \in Emitters, Insert(t) PROVE Ascending'
  <2>1. PICK tn \in Tenants, new \in RowSet :
            /\ rows[tn] \in Seq(RowSet)
            /\ Added(tn, new)
            /\ \A i \in Of(tn, new.inv[1]) : Num(tn, i) < new.inv[2]
        BY <1>2, InsertedRow
  <2> SUFFICES ASSUME NEW u \in Tenants, NEW s \in Series,
                      NEW i \in Of(u, s)', NEW j \in Of(u, s)', i < j
               PROVE  Num(u, i)' < Num(u, j)'
      BY DEF Ascending
  <2>a. PICK n : n = Len(rows[tn]) + 1
        OBVIOUS
  <2>2. /\ n \in Nat
        /\ \A k \in Of(u, s) : rows'[u][k] = rows[u][k] /\ k \in Nat
        /\ \A k \in Of(tn, s) : k < n
        /\ rows'[tn][n] = new
        /\ Of(u, s)' = IF u = tn /\ s = new.inv[1] THEN Of(tn, s) \cup {n}
                       ELSE Of(u, s)
        BY <1>0, <2>1, <2>a, InsertedSeries
  <2>3. \A k \in Of(u, s) : Num(u, k)' = Num(u, k)
        BY <2>2 DEF Num
  <2>4. CASE i \in Of(u, s) /\ j \in Of(u, s)
        BY <2>3, <2>4 DEF Ascending
  <2>5. CASE u = tn /\ s = new.inv[1] /\ j = n /\ i \in Of(tn, s)
    <3>1. Num(u, j)' = new.inv[2]
          BY <2>2, <2>5 DEF Num
    <3> QED BY <2>1, <2>3, <2>5, <3>1
  <2>6. CASE u = tn /\ s = new.inv[1] /\ i = n
    <3>1. j = n \/ j < n
          BY <2>2, <2>6
    <3> QED BY <2>2, <2>6, <3>1
  <2> QED BY <2>2, <2>4, <2>5, <2>6
<1> QED BY <1>1, <1>2, StepLinks

\* With clients in order, the rows of a series have ascending numbers.
LEMMA AlwaysAscending ==
    ASSUME InOrder
    PROVE  Spec => []Ascending
<1>1. Init => Ascending
      BY DEF Init, Ascending, Of
<1> QED BY <1>1, AscendingStep, EmissionInvariant, OrderInvariant, PTL DEF Spec
(***************************************************************************)
(* The rows of a series by their rank.                                     *)
(***************************************************************************)

UpTo(ids, i) == {j \in ids : j <= i}

LEMMA RankFacts ==
    ASSUME NEW N \in Nat, NEW ids \in SUBSET (1..N)
    PROVE  /\ IsFiniteSet(ids) /\ Cardinality(ids) \in Nat
           /\ \A i : IsFiniteSet(UpTo(ids, i))
           /\ \A i : Cardinality(UpTo(ids, i)) \in 0..Cardinality(ids)
           /\ \A i \in ids : Cardinality(UpTo(ids, i)) # 0
           /\ \A i, j \in ids :
                  i < j => Cardinality(UpTo(ids, i)) < Cardinality(UpTo(ids, j))
<1>0. \A i \in ids : i \in Nat /\ i >= 1 /\ i <= N
      OBVIOUS
<1>1. IsFiniteSet(ids) /\ Cardinality(ids) \in Nat
  <2>1. IsFiniteSet(1..N)
        BY FS_Interval
  <2> QED BY <2>1, FS_Subset, FS_CardinalityType
<1>2. ASSUME NEW i
      PROVE  /\ IsFiniteSet(UpTo(ids, i))
             /\ Cardinality(UpTo(ids, i)) \in 0..Cardinality(ids)
  <2>1. UpTo(ids, i) \in SUBSET ids
        BY DEF UpTo
  <2>2. /\ IsFiniteSet(UpTo(ids, i)) /\ Cardinality(UpTo(ids, i)) \in Nat
        /\ Cardinality(UpTo(ids, i)) <= Cardinality(ids)
        BY <1>1, <2>1, FS_Subset, FS_CardinalityType
  <2> QED BY <1>1, <2>2
<1>3. ASSUME NEW i \in ids PROVE Cardinality(UpTo(ids, i)) # 0
  <2>1. i \in UpTo(ids, i)
        BY DEF UpTo
  <2> QED BY <1>2, <2>1, FS_EmptySet
<1>4. ASSUME NEW i \in ids, NEW j \in ids, i < j
      PROVE  Cardinality(UpTo(ids, i)) < Cardinality(UpTo(ids, j))
  <2>1. j \notin UpTo(ids, i)
        BY <1>4 DEF UpTo
  <2>2. UpTo(ids, i) \cup {j} \in SUBSET UpTo(ids, j)
    <3>1. j <= j /\ \A k \in ids : k <= i => k <= j
          BY <1>0, <1>4
    <3> QED BY <3>1 DEF UpTo
  <2>3. Cardinality(UpTo(ids, i) \cup {j}) = Cardinality(UpTo(ids, i)) + 1
        BY <1>2, <2>1, FS_AddElement
  <2>4. Cardinality(UpTo(ids, i) \cup {j}) <= Cardinality(UpTo(ids, j))
        BY <1>2, <2>2, FS_Subset
  <2>5. Cardinality(UpTo(ids, i)) \in Nat /\ Cardinality(UpTo(ids, j)) \in Nat
        BY <1>1, <1>2
  <2> QED BY <2>3, <2>4, <2>5
<1> QED BY <1>1, <1>2, <1>3, <1>4

\* There is a row of every rank.
LEMMA RankExists ==
    ASSUME NEW N \in Nat, NEW ids \in SUBSET (1..N), NEW k \in 1..Cardinality(ids)
    PROVE  \E i \in ids : Cardinality(UpTo(ids, i)) = k
<1> DEFINE Reached == {n \in Nat : Cardinality(UpTo(ids, n)) >= k}
<1>1. /\ Cardinality(ids) \in Nat /\ k \in Nat /\ k >= 1
      /\ \A n : IsFiniteSet(UpTo(ids, n)) /\ Cardinality(UpTo(ids, n)) \in Nat
  <2>1. /\ Cardinality(ids) \in Nat
        /\ \A n : /\ IsFiniteSet(UpTo(ids, n))
                  /\ Cardinality(UpTo(ids, n)) \in 0..Cardinality(ids)
        BY RankFacts
  <2> QED BY <2>1
<1>a. \A j \in ids : j \in Nat /\ j >= 1 /\ j <= N
      OBVIOUS
<1>2. UpTo(ids, N) = ids
      BY <1>a DEF UpTo
<1>3. N \in Reached
      BY <1>1, <1>2
<1>4. PICK n \in Reached : \A m \in Reached : n <= m
      BY <1>3, LeastElement
<1>5. n # 0
  <2>1. UpTo(ids, 0) = {}
    <3>1. \A j \in ids : ~(j <= 0)
          BY <1>a
    <3> QED BY <3>1 DEF UpTo
  <2> QED BY <1>1, <1>4, <2>1, FS_EmptySet
<1>6. n - 1 \in Nat /\ n - 1 \notin Reached /\ n \in Nat
      BY <1>4, <1>5
<1>7. Cardinality(UpTo(ids, n - 1)) < k /\ Cardinality(UpTo(ids, n)) >= k
      BY <1>1, <1>4, <1>6
<1> HIDE DEF Reached
<1>8. CASE n \in ids
  <2>1. /\ UpTo(ids, n) = UpTo(ids, n - 1) \cup {n}
        /\ n \notin UpTo(ids, n - 1)
    <3>1. \A j \in Nat : (j <= n <=> j <= n - 1 \/ j = n) /\ ~(n <= n - 1)
          BY <1>6
    <3>2. \A j \in ids : j \in Nat
          OBVIOUS
    <3> QED BY <1>8, <3>1, <3>2 DEF UpTo
  <2>2. Cardinality(UpTo(ids, n)) = Cardinality(UpTo(ids, n - 1)) + 1
        BY <1>1, <2>1, FS_AddElement
  <2>3. Cardinality(UpTo(ids, n)) = k
        BY <1>1, <1>7, <2>2
  <2> QED BY <1>8, <2>3
<1>9. CASE n \notin ids
  <2>1. UpTo(ids, n) = UpTo(ids, n - 1)
    <3>1. \A j \in Nat : j # n => (j <= n <=> j <= n - 1)
          BY <1>6
    <3>2. \A j \in ids : j \in Nat /\ j # n
          BY <1>9
    <3> QED BY <3>1, <3>2 DEF UpTo
  <2> QED BY <1>1, <1>7, <2>1
<1> QED BY <1>8, <1>9

\* Nth is the row of a rank, and the only one.
LEMMA NthIs ==
    ASSUME NEW N \in Nat, NEW ids \in SUBSET (1..N), NEW k \in 1..Cardinality(ids)
    PROVE  /\ Nth(ids, k) \in ids
           /\ Cardinality(UpTo(ids, Nth(ids, k))) = k
           /\ \A i \in ids : Cardinality(UpTo(ids, i)) = k => i = Nth(ids, k)
<1>1. \E i \in ids : Cardinality({j \in ids : j <= i}) = k
      BY RankExists DEF UpTo
<1>2. Nth(ids, k) \in ids /\ Cardinality({j \in ids : j <= Nth(ids, k)}) = k
      BY <1>1 DEF Nth
<1> DEFINE n == Nth(ids, k)
<1>3. n \in ids /\ Cardinality(UpTo(ids, n)) = k
      BY <1>2 DEF UpTo
<1> HIDE DEF n
<1>4. ASSUME NEW i \in ids, Cardinality(UpTo(ids, i)) = k PROVE i = n
  <2>1. i \in Nat /\ n \in Nat /\ k \in Nat
        BY <1>3
  <2>2. /\ i < n => k < k
        /\ n < i => k < k
        BY <1>3, <1>4, RankFacts
  <2> QED BY <2>1, <2>2
<1> QED BY <1>3, <1>4 DEF n

\* The log of the rows with these ids.
LogOf(table, ids) == [k \in 1..Cardinality(ids) |-> LogRecord(table[Nth(ids, k)])]

\* Rows with the same links are the same log.
LEMMA SameLog ==
    ASSUME NEW N \in Nat, NEW ids \in SUBSET (1..N), NEW a, NEW b,
           \A i \in ids : LogRecord(a[i]) = LogRecord(b[i])
    PROVE  LogOf(a, ids) = LogOf(b, ids)
BY NthIs DEF LogOf

\* A log with one more record.
Extended(new, old, record) == new = Append(old, record)

\* Row n comes after the rows with these ids.
After(ids, n) == n \in Nat \ {0} /\ \A i \in ids : i < n

\* The rows with these ids have the same links in both tables.
SameRecords(ids, a, b) == \A i \in ids : LogRecord(a[i]) = LogRecord(b[i])

\* A row after the others is appended.
LEMMA LogAppend ==
    ASSUME NEW N \in Nat, NEW ids \in SUBSET (1..N), NEW a, NEW b,
           NEW n, After(ids, n), SameRecords(ids, a, b)
    PROVE  Extended(LogOf(b, ids \cup {n}), LogOf(a, ids), LogRecord(b[n]))
<1>0. n \in Nat \ {0} /\ \A i \in ids : i < n
      BY DEF After
<1> DEFINE ids2 == ids \cup {n}
           c == Cardinality(ids)
           S == {LogRecord(b[i]) : i \in ids2}
           old == LogOf(a, ids)
           new == LogOf(b, ids2)
<1>1. c \in Nat /\ IsFiniteSet(ids)
      BY RankFacts
<1>2. n \notin ids /\ \A i \in ids : i \in Nat /\ i >= 1 /\ ~(n <= i) /\ i <= n
      BY <1>0
<1>3. Cardinality(ids2) = c + 1
      BY <1>1, <1>2, FS_AddElement
<1>4. ids2 \in SUBSET (1..n) /\ n \in Nat
      BY <1>0, <1>2
<1>5. ASSUME NEW k \in 1..c PROVE Nth(ids2, k) = Nth(ids, k) /\ Nth(ids, k) \in ids
  <2>1. Nth(ids, k) \in ids /\ Cardinality(UpTo(ids, Nth(ids, k))) = k
        BY NthIs
  <2>2. UpTo(ids2, Nth(ids, k)) = UpTo(ids, Nth(ids, k))
        BY <1>2, <2>1 DEF UpTo
  <2>3. k \in 1..Cardinality(ids2) /\ Nth(ids, k) \in ids2
        BY <1>1, <1>3, <2>1
  <2>4. Cardinality(UpTo(ids2, Nth(ids, k))) = k
        BY <2>1, <2>2
  <2> HIDE DEF ids2, c
  <2> QED BY <1>4, <2>1, <2>3, <2>4, NthIs
<1>6. Nth(ids2, c + 1) = n
  <2>1. UpTo(ids2, n) = ids2
    <3>1. n <= n
          BY <1>0
    <3> QED BY <1>2, <3>1 DEF UpTo
  <2>2. c + 1 \in 1..Cardinality(ids2) /\ n \in ids2
        BY <1>1, <1>3
  <2>3. Cardinality(UpTo(ids2, n)) = c + 1
        BY <1>3, <2>1
  <2> HIDE DEF ids2, c
  <2> QED BY <1>4, <2>2, <2>3, NthIs
<1>7. /\ old \in [1..c -> S]
      /\ \A k \in 1..c : old[k] = LogRecord(b[Nth(ids, k)])
  <2>1. \A k \in 1..c : /\ LogRecord(a[Nth(ids, k)]) = LogRecord(b[Nth(ids, k)])
                        /\ LogRecord(b[Nth(ids, k)]) \in S
        BY <1>5 DEF SameRecords
  <2>2. old = [k \in 1..c |-> LogRecord(a[Nth(ids, k)])]
        BY DEF LogOf
  <2> HIDE DEF c, S, old
  <2> QED BY <2>1, <2>2
<1>8. /\ new \in [1..(c + 1) -> S]
      /\ \A k \in 1..c : new[k] = LogRecord(b[Nth(ids, k)])
      /\ new[c + 1] = LogRecord(b[n])
  <2>1. new = [k \in 1..(c + 1) |-> LogRecord(b[Nth(ids2, k)])]
        BY <1>3 DEF LogOf
  <2>2. \A k \in 1..(c + 1) : k \in 1..c \/ k = c + 1
        BY <1>1
  <2>3. \A k \in 1..(c + 1) : Nth(ids2, k) \in ids2
        BY <1>5, <1>6, <2>2
  <2>4. \A k \in 1..(c + 1) : LogRecord(b[Nth(ids2, k)]) \in S
        BY <2>3
  <2>5. c + 1 \in 1..(c + 1) /\ \A k \in 1..c : k \in 1..(c + 1)
        BY <1>1
  <2> HIDE DEF c, S, new, ids2
  <2> QED BY <1>5, <1>6, <2>1, <2>4, <2>5
<1>9. LogRecord(b[n]) \in S
      OBVIOUS
<1> HIDE DEF c, S, old, new, ids2
<1>10. /\ Append(old, LogRecord(b[n])) \in Seq(S)
       /\ Len(Append(old, LogRecord(b[n]))) = c + 1
       /\ \A k \in 1..c : Append(old, LogRecord(b[n]))[k] = old[k]
       /\ Append(old, LogRecord(b[n]))[c + 1] = LogRecord(b[n])
  <2>1. old \in Seq(S) /\ Len(old) = c
        BY <1>1, <1>7
  <2> QED BY <1>9, <2>1, AppendProperties
<1>11. new \in Seq(S) /\ Len(new) = c + 1
       BY <1>1, <1>8
<1>12. \A k \in 1..(c + 1) : new[k] = Append(old, LogRecord(b[n]))[k]
  <2>1. \A k \in 1..(c + 1) : k \in 1..c \/ k = c + 1
        BY <1>1
  <2> QED BY <1>7, <1>8, <1>10, <2>1
<1>13. new = Append(old, LogRecord(b[n]))
       BY <1>10, <1>11, <1>12
<1> QED BY <1>13 DEF new, old, ids2, Extended

\* The last digest of a log is that of the last row.
LEMMA LogLast ==
    ASSUME NEW N \in Nat, NEW ids \in SUBSET (1..N), NEW table
    PROVE  /\ ids = {} => LastHash(LogOf(table, ids)) = Genesis
           /\ ids # {} => \E i \in ids :
                 /\ \A j \in ids : j <= i
                 /\ LastHash(LogOf(table, ids)) = table[i].hash
<1> DEFINE c == Cardinality(ids)
           log == LogOf(table, ids)
           S == {LogRecord(table[i]) : i \in ids}
<1>1. c \in Nat /\ (c = 0 <=> ids = {})
      BY RankFacts, FS_EmptySet
<1>2. log = [k \in 1..c |-> LogRecord(table[Nth(ids, k)])]
      BY DEF LogOf
<1>3. log \in Seq(S) /\ Len(log) = c
  <2>1. \A k \in 1..c : LogRecord(table[Nth(ids, k)]) \in S
        BY NthIs
  <2> HIDE DEF c, S, log
  <2> QED BY <1>1, <1>2, <2>1
<1>4. CASE ids = {}
  <2>1. log = <<>>
        BY <1>1, <1>3, <1>4
  <2> QED BY <1>4, <2>1 DEF LastHash
<1>5. CASE ids # {}
  <2> DEFINE i == Nth(ids, c)
  <2>1. c \in 1..c /\ c # 0
    <3>1. c # 0
          BY <1>1, <1>5
    <3>2. \A k \in Nat : k # 0 => k \in 1..k
          OBVIOUS
    <3> HIDE DEF c
    <3> QED BY <1>1, <3>1, <3>2
  <2>2. i \in ids /\ Cardinality(UpTo(ids, i)) = c
        BY <2>1, NthIs
  <2>3. ASSUME NEW j \in ids PROVE j <= i
    <3>1. j \in Nat /\ i \in Nat
      <4> HIDE DEF i
      <4> QED BY <2>2
    <3>2. CASE i < j
      <4>1. Cardinality(UpTo(ids, i)) < Cardinality(UpTo(ids, j))
            BY <2>2, <3>2, RankFacts
      <4>2. Cardinality(UpTo(ids, j)) \in 0..c
            BY RankFacts
      <4> QED BY <1>1, <2>2, <4>1, <4>2
    <3> QED BY <3>1, <3>2
  <2>4. log # <<>> /\ log[c] = LogRecord(table[i])
        BY <1>2, <1>3, <2>1
  <2>5. LastHash(log) = log[c].hash
        BY <1>3, <2>4 DEF LastHash
  <2>6. LastHash(log) = table[i].hash
        BY <2>4, <2>5 DEF LogRecord
  <2> QED BY <1>5, <2>2, <2>3, <2>6
<1> QED BY <1>4, <1>5

(***************************************************************************)
(* Each step is a step of the log, or leaves it as it is.                  *)
(***************************************************************************)

Logs == [o \in Tenants \X Series |-> SeriesLog(o[1], o[2])]

LEMMA LogIs ==
    ASSUME TypeInv, NEW tn \in Tenants, NEW s
    PROVE  /\ SeriesLog(tn, s) = LogOf(rows[tn], Of(tn, s))
           /\ Len(rows[tn]) \in Nat /\ Of(tn, s) \in SUBSET (1..Len(rows[tn]))
<1>1. SeriesLog(tn, s) = LogOf(rows[tn], Of(tn, s))
      BY OfType DEF SeriesLog, LogOf
<1>2. DOMAIN rows[tn] = 1..Len(rows[tn]) /\ Len(rows[tn]) \in Nat
      BY DEF TypeInv
<1> QED BY <1>1, <1>2 DEF Of

LEMMA LogNext ==
    ASSUME TypeInv', NEW tn \in Tenants, NEW s
    PROVE  SeriesLog(tn, s)' = LogOf(rows'[tn], Of(tn, s)')
<1>1. InSeries(tn, s)' = Of(tn, s)'
  <2>1. \A i \in DOMAIN rows'[tn] :
            /\ rows'[tn][i] \in RowSet
            /\ OwnerOf(rows'[tn][i], tn) = tn
            /\ SeriesOf(rows'[tn][i]) = rows'[tn][i].inv[1]
    <3>1. rows'[tn] \in Seq(RowSet)
          BY DEF TypeInv
    <3>2. \A i \in DOMAIN rows'[tn] : rows'[tn][i] \in RowSet
          BY <3>1
    <3>3. \A row \in RowSet : Issued(row)
          BY DEF RowSet, Issued
    <3> QED BY <3>2, <3>3 DEF OwnerOf, SeriesOf
  <2> QED BY <2>1 DEF InSeries, OfTenant, Of
<1> QED BY <1>1 DEF SeriesLog, LogOf

LEMMA LinksStutter ==
    ASSUME TypeInv, TypeInv', AllLinks
    PROVE  UNCHANGED Logs
<1>1. ASSUME NEW tn \in Tenants, NEW s \in Series
      PROVE  SeriesLog(tn, s)' = SeriesLog(tn, s)
  <2>1. Of(tn, s)' = Of(tn, s) /\ SameLinks(tn)
        BY LinksKept DEF AllLinks
  <2>2. \A i \in Of(tn, s) : LogRecord(rows'[tn][i]) = LogRecord(rows[tn][i])
        BY <2>1 DEF SameLinks, Of, LogRecord
  <2>3. LogOf(rows'[tn], Of(tn, s)) = LogOf(rows[tn], Of(tn, s))
        BY <2>2, LogIs, SameLog
  <2> QED BY <2>1, <2>3, LogIs, LogNext
<1> QED BY <1>1 DEF Logs

LEMMA InsertLogs ==
    ASSUME IInv, OrderInv, Ascending, TypeInv', NEW t \in Emitters, Insert(t)
    PROVE  Log!Next
<1>0. TypeInv
      BY DEF IInv
<1>1. PICK tn \in Tenants, new \in RowSet :
          /\ rows[tn] \in Seq(RowSet)
          /\ Added(tn, new)
          /\ new.inv \in Invs /\ new.inv[1] \in Series
          /\ new.hash = Digest(new.inv, new.prev)
          /\ Newest(tn, new.inv[1], new.prev)
      BY InsertedRow
<1>2. PICK s \in Series : s = new.inv[1]
      BY <1>1
<1>3. PICK n : n = Len(rows[tn]) + 1
      OBVIOUS
<1>4. /\ n \in Nat \ {0}
      /\ \A i \in Of(tn, s) : rows'[tn][i] = rows[tn][i] /\ i < n
      /\ rows'[tn][n] = new
      /\ Of(tn, s)' = Of(tn, s) \cup {n}
  <2>1. /\ \A i \in Of(tn, s) : rows'[tn][i] = rows[tn][i] /\ i \in Nat
        /\ \A i \in Of(tn, s) : i < n
        /\ rows'[tn][n] = new
        /\ Of(tn, s)' = IF tn = tn /\ s = new.inv[1] THEN Of(tn, s) \cup {n}
                        ELSE Of(tn, s)
        BY <1>0, <1>1, <1>3, InsertedSeries
  <2>2. n \in Nat \ {0}
        BY <1>1, <1>3
  <2> QED BY <1>2, <2>1, <2>2
<1>5. ASSUME NEW u \in Tenants, NEW z \in Series, <<u, z>> # <<tn, s>>
      PROVE  SeriesLog(u, z)' = SeriesLog(u, z)
  <2>1. /\ \A i \in Of(u, z) : rows'[u][i] = rows[u][i]
        /\ Of(u, z)' = IF u = tn /\ z = new.inv[1] THEN Of(tn, z) \cup {n}
                       ELSE Of(u, z)
        BY <1>0, <1>1, <1>3, InsertedSeries
  <2>2. Of(u, z)' = Of(u, z)
        BY <1>2, <1>5, <2>1
  <2>3. LogOf(rows'[u], Of(u, z)) = LogOf(rows[u], Of(u, z))
        BY <1>0, <2>1, LogIs, SameLog
  <2> QED BY <1>0, <2>2, <2>3, LogIs, LogNext
<1>6. LastHash(SeriesLog(tn, s)) = new.prev
  <2> DEFINE ids == Of(tn, s)
  <2>1. /\ SeriesLog(tn, s) = LogOf(rows[tn], ids)
        /\ Len(rows[tn]) \in Nat /\ ids \in SUBSET (1..Len(rows[tn]))
        BY <1>0, LogIs
  <2>2. /\ ids = {} => new.prev = Genesis
        /\ \A i \in ids :
               (\A j \in ids \ {i} : Prior(tn, j, i)) => new.prev = rows[tn][i].hash
        BY <1>1, <1>2 DEF Newest
  <2> HIDE DEF ids
  <2>3. CASE ids = {}
        BY <2>1, <2>2, <2>3, LogLast
  <2>4. CASE ids # {}
    <3>1. PICK i \in ids :
              /\ \A j \in ids : j <= i
              /\ LastHash(LogOf(rows[tn], ids)) = rows[tn][i].hash
          BY <2>1, <2>4, LogLast
    <3>2. ASSUME NEW j \in ids \ {i} PROVE Prior(tn, j, i)
      <4>1. j < i
            BY <2>1, <3>1
      <4>2. Num(tn, j) < Num(tn, i)
            BY <4>1 DEF Ascending, ids
      <4> QED BY <4>2 DEF Prior
    <3> QED BY <2>1, <2>2, <3>1, <3>2
  <2> QED BY <2>3, <2>4
<1>7. SeriesLog(tn, s)' =
          Append(SeriesLog(tn, s), Log!Record(new.inv, LastHash(SeriesLog(tn, s))))
  <2>1. LogRecord(rows'[tn][n]) = Log!Record(new.inv, LastHash(SeriesLog(tn, s)))
        BY <1>1, <1>4, <1>6 DEF LogRecord, Log!Record, Digest, Log!Digest
  <2>2. \A i \in Of(tn, s) : LogRecord(rows[tn][i]) = LogRecord(rows'[tn][i])
        BY <1>4
  <2>3. Len(rows[tn]) \in Nat /\ Of(tn, s) \in SUBSET (1..Len(rows[tn]))
        BY <1>0, LogIs
  <2>4. LogOf(rows'[tn], Of(tn, s) \cup {n}) =
            Append(LogOf(rows[tn], Of(tn, s)), LogRecord(rows'[tn][n]))
    <3>1. After(Of(tn, s), n)
          BY <1>4 DEF After
    <3>2. SameRecords(Of(tn, s), rows[tn], rows'[tn])
          BY <2>2 DEF SameRecords
    <3>3. Extended(LogOf(rows'[tn], Of(tn, s) \cup {n}),
                   LogOf(rows[tn], Of(tn, s)), LogRecord(rows'[tn][n]))
          BY <2>3, <3>1, <3>2, LogAppend
    <3> QED BY <3>3 DEF Extended
  <2> QED BY <1>0, <1>4, <2>1, <2>4, LogIs, LogNext
<1>8. Logs' = [Logs EXCEPT ![<<tn, s>>] =
                  Append(@, Log!Record(new.inv, LastHash(@)))]
  <2> DEFINE o == <<tn, s>>
  <2>1. Logs[o] = SeriesLog(tn, s) /\ o \in Tenants \X Series
        BY DEF Logs
  <2>2. Logs' = [p \in Tenants \X Series |-> SeriesLog(p[1], p[2])']
        BY DEF Logs
  <2>3. \A p \in Tenants \X Series : p # o =>
            SeriesLog(p[1], p[2])' = Logs[p]
        BY <1>5 DEF Logs
  <2>4. SeriesLog(o[1], o[2])' = Append(Logs[o], Log!Record(new.inv, LastHash(Logs[o])))
        BY <1>7, <2>1
  <2> HIDE DEF o
  <2> QED BY <2>1, <2>2, <2>3, <2>4 DEF Logs, o
<1>9. Log!AppendRecord(<<tn, s>>, new.inv)
      BY <1>8 DEF Log!AppendRecord, Logs, LastHash, Log!LastHash, Genesis, Log!Genesis
<1> QED BY <1>1, <1>9 DEF Log!Next

LEMMA StepLogs ==
    ASSUME IInv, OrderInv, Ascending, [Next]_vars
    PROVE  [Log!Next]_Logs
<1>1. TypeInv /\ TypeInv'
      BY IInvStep DEF IInv
<1> QED BY <1>1, StepLinks, LinksStutter, InsertLogs

LEMMA InitLogs == Init => Log!Init
<1> SUFFICES ASSUME Init PROVE Log!Init
    OBVIOUS
<1>1. ASSUME NEW tn \in Tenants, NEW s \in Series PROVE SeriesLog(tn, s) = <<>>
  <2>1. InSeries(tn, s) = {}
        BY DEF Init, InSeries, OfTenant
  <2>2. Cardinality({}) = 0
        BY FS_EmptySet
  <2>3. SeriesLog(tn, s) = [k \in 1..0 |-> LogRecord(rows[tn][Nth({}, k)])]
        BY <2>1, <2>2 DEF SeriesLog
  <2> QED BY <2>3
<1> QED BY <1>1 DEF Log!Init

(***************************************************************************)
(* With clients in order, each series of each tenant is an append-only log *)
(* of linked records: whatever emitters and batches interleave, fail or    *)
(* crash, no record is altered, removed or linked to any but the last one. *)
(***************************************************************************)
THEOREM EmissionImplementsLog ==
    ASSUME InOrder
    PROVE  Spec => ImplementsLog
BY InitLogs, StepLogs, EmissionInvariant, OrderInvariant, AlwaysAscending, PTL
   DEF Spec, ImplementsLog, Log!Spec, Logs
===============================================================================

----------------------------- MODULE Books_proofs ------------------------------
(***************************************************************************)
(* Theorems about Books, for any number of threads, years, proposals and   *)
(* movements.                                                              *)
(*                                                                         *)
(* That an approved proposal is booked rests on what a thread knows at     *)
(* every step (TasksKnow), which the other writers do not undo because the *)
(* journal only grows (IInv); the lines of the entries are left out of it. *)
(* The second part is about the lines.  A balance is a sum over a journal  *)
(* of any length: what it is follows by induction over its entries, stated *)
(* with sets of numbers.  LInv adds to IInv that every entry balances (but *)
(* those of a closing after something was left out, DoubleEntry), as do    *)
(* the balances the closing has read (Tested), and counts the entries of a *)
(* document against its invoices, the threads that have written an invoice *)
(* and no entry being reckoned with the entries.                           *)
(***************************************************************************)
EXTENDS Books, SequenceTheorems, FiniteSetTheorems, WellFoundedInduction,
        TLAPS

AllYears == 1..(LastYear + 1)

JournalShape ==
    /\ journal = [y \in AllYears |-> journal[y]]
    /\ \A y \in AllYears :
           journal[y] \in Seq({journal[y][i] : i \in DOMAIN journal[y]})

Shape ==
    /\ JournalShape
    /\ status \in [Proposals -> Statuses]
    /\ entryOf \in [Proposals -> Nat \cup {None}]
    /\ invoices \in [Proposals -> Nat]
    /\ task \in [Threads -> {None} \cup
                    [proposal : Proposals, at : {"test", "record", "settle"},
                     number : Nat \cup {None}]]
    /\ loop # None => loop.year \in Years

\* Proposal p is in the journal under this number.
BookedUnder(p, number) ==
    \E i \in DOMAIN journal[Document[p].year] :
        /\ journal[Document[p].year][i].source = p
        /\ journal[Document[p].year][i].number = number

\* A thread at a proposal has written its invoice, and at its last step its
\* entry.
TasksKnow ==
    \A t \in Threads : task[t] # None =>
        /\ invoices[task[t].proposal] > 0
        /\ task[t].at = "settle" =>
               BookedUnder(task[t].proposal, task[t].number)

IInv == Shape /\ Correlative /\ TasksKnow /\ ApprovedIsBooked
-----------------------------------------------------------------------------
(***************************************************************************)
(* Lemmas about the journal.                                               *)
(***************************************************************************)

LEMMA DocumentType ==
    /\ LastYear \in Nat /\ Years \subseteq AllYears
    /\ \A y \in Years : y + 1 \in AllYears
    /\ \A d \in Documents : Document[d].year \in Years
    /\ None \notin Documents
BY BooksAssumption DEF Years, AllYears

\* Sequence s is followed by t.
Extends(new, s, t) ==
    /\ new \in Seq({new[i] : i \in DOMAIN new})
    /\ DOMAIN s \subseteq DOMAIN new
    /\ \A i \in DOMAIN s : new[i] = s[i]
    /\ \A i \in DOMAIN new \ DOMAIN s : new[i] = t[i - Len(s)] /\ i - Len(s) \in DOMAIN t
    /\ Len(new) = Len(s) + Len(t)

LEMMA ConcatExtends ==
    ASSUME NEW S, NEW s \in Seq(S), NEW T, NEW t \in Seq(T)
    PROVE  Extends(s \o t, s, t)
<1> DEFINE new == s \o t
<1>1. s \in Seq(S \cup T) /\ t \in Seq(S \cup T)
      OBVIOUS
<1>2. /\ new \in Seq(S \cup T) /\ Len(new) = Len(s) + Len(t)
      /\ \A i \in 1..(Len(s) + Len(t)) :
             new[i] = IF i <= Len(s) THEN s[i] ELSE t[i - Len(s)]
      BY <1>1, ConcatProperties
<1> HIDE DEF new
<1>3. DOMAIN new = 1..(Len(s) + Len(t)) /\ DOMAIN s = 1..Len(s) /\ DOMAIN t = 1..Len(t)
      /\ Len(s) \in Nat /\ Len(t) \in Nat
      BY <1>2
<1>4. new \in Seq({new[i] : i \in DOMAIN new})
  <2>1. new = [i \in 1..Len(new) |-> new[i]]
        BY <1>2, <1>3
  <2> QED BY <1>2, <1>3, <2>1
<1>5. Extends(new, s, t)
      BY SMTT(30), <1>2, <1>3, <1>4 DEF Extends
<1> QED BY <1>5 DEF new

LEMMA AppendExtends ==
    ASSUME NEW S, NEW s \in Seq(S), NEW e
    PROVE  Extends(Append(s, e), s, <<e>>)
<1>1. <<e>> \in Seq({e}) /\ Append(s, e) = s \o <<e>>
  <2>1. s \in Seq(S \cup {e}) /\ e \in S \cup {e}
        OBVIOUS
  <2> QED BY <2>1, AppendIsConcat
<1> QED BY <1>1, ConcatExtends

LEMMA ProposalYear ==
    ASSUME NEW p \in Proposals
    PROVE  Document[p].year \in AllYears
BY DocumentType DEF Documents

LEMMA NextNumberIs ==
    ASSUME JournalShape, Correlative, NEW y \in AllYears
    PROVE  NextNumber(y) = Len(journal[y]) + 1 /\ Len(journal[y]) \in Nat
<1>1. /\ Len(journal[y]) \in Nat /\ DOMAIN journal[y] = 1..Len(journal[y])
      /\ (journal[y] = <<>> <=> Len(journal[y]) = 0)
      /\ y \in DOMAIN journal
      BY DEF JournalShape
<1>2. CASE journal[y] = <<>>
      BY <1>1, <1>2 DEF NextNumber
<1>3. CASE journal[y] # <<>>
      BY <1>1, <1>3 DEF NextNumber, Last, Correlative
<1> QED BY <1>1, <1>2, <1>3

LEMMA NextNumberType ==
    ASSUME JournalShape, Correlative, NEW p \in Proposals
    PROVE  NextNumber(Document[p].year) \in Nat
<1> DEFINE y == Document[p].year
<1>1. y \in AllYears
      BY ProposalYear
<1> HIDE DEF y
<1>2. NextNumber(y) = Len(journal[y]) + 1 /\ Len(journal[y]) \in Nat
      BY <1>1, NextNumberIs
<1>3. NextNumber(y) \in Nat
      BY <1>2
<1> QED BY <1>3 DEF y

\* The journal grows, and stays correlative.
Grows ==
    /\ JournalShape' /\ Correlative'
    /\ \A y \in AllYears : /\ DOMAIN journal[y] \subseteq DOMAIN journal'[y]
                           /\ \A i \in DOMAIN journal[y] : journal'[y][i] = journal[y][i]

\* Year y goes on with the entries t, numbered from the next number on.
LEMMA YearGrows ==
    ASSUME JournalShape, Correlative, NEW y \in AllYears, NEW new, NEW t,
           Extends(new, journal[y], t),
           \A i \in DOMAIN t : i \in Nat /\ t[i].number = Len(journal[y]) + i
    PROVE  \A i \in DOMAIN new : new[i].number = i
<1>1. Len(journal[y]) \in Nat /\ DOMAIN journal[y] = 1..Len(journal[y]) /\ y \in DOMAIN journal
      BY DEF JournalShape
<1> SUFFICES ASSUME NEW i \in DOMAIN new PROVE new[i].number = i
    OBVIOUS
<1>2. CASE i \in DOMAIN journal[y]
      BY <1>1, <1>2 DEF Extends, Correlative
<1>3. CASE i \notin DOMAIN journal[y]
  <2>1. new[i] = t[i - Len(journal[y])] /\ i - Len(journal[y]) \in DOMAIN t /\ i \in Nat
        BY <1>3 DEF Extends
  <2>2. t[i - Len(journal[y])].number = Len(journal[y]) + (i - Len(journal[y]))
        BY <2>1
  <2>3. Len(journal[y]) + (i - Len(journal[y])) = i
        BY <1>1, <2>1
  <2> QED BY <2>1, <2>2, <2>3
<1> QED BY <1>2, <1>3

LEMMA InsertGrows ==
    ASSUME JournalShape, Correlative, NEW y \in AllYears, NEW source, NEW lines,
           Insert(y, source, lines)
    PROVE  /\ Grows
           /\ Len(journal[y]) + 1 \in DOMAIN journal'[y]
           /\ journal'[y][Len(journal[y]) + 1].source = source
           /\ journal'[y][Len(journal[y]) + 1].number = NextNumber(y)
<1> DEFINE e == Entry(NextNumber(y), source, lines)
           new == Append(journal[y], e)
<1>1. e.number = NextNumber(y) /\ e.source = source
      BY DEF Entry
<1>2. journal' = [journal EXCEPT ![y] = new]
      BY DEF Insert
<1>3. Extends(new, journal[y], <<e>>)
      BY AppendExtends DEF JournalShape
<1> HIDE DEF e, new
<1>4. NextNumber(y) = Len(journal[y]) + 1 /\ Len(journal[y]) \in Nat
      BY NextNumberIs
<1>5. \A i \in DOMAIN new : new[i].number = i
  <2>1. \A i \in DOMAIN <<e>> : i \in Nat /\ <<e>>[i].number = Len(journal[y]) + i
        BY <1>1, <1>4
  <2> QED BY <1>3, <2>1, YearGrows
<1>6. /\ DOMAIN journal = AllYears /\ journal'[y] = new
      /\ \A z \in AllYears : z # y => journal'[z] = journal[z]
      /\ journal' = [z \in AllYears |-> journal'[z]]
      BY <1>2 DEF JournalShape
<1>7. JournalShape'
  <2>1. ASSUME NEW z \in AllYears
        PROVE  journal'[z] \in Seq({journal'[z][i] : i \in DOMAIN journal'[z]})
    <3>1. CASE z = y
          BY <1>3, <1>6, <3>1 DEF Extends
    <3>2. CASE z # y
      <4>1. journal'[z] = journal[z]
            BY <1>6, <3>2
      <4> QED BY <4>1 DEF JournalShape
    <3> QED BY <3>1, <3>2
  <2> QED BY <1>6, <2>1 DEF JournalShape
<1>8. Correlative'
      BY <1>5, <1>6 DEF Correlative
<1>9. Grows
      BY <1>3, <1>6, <1>7, <1>8 DEF Grows, Extends
<1>10. Len(new) = Len(journal[y]) + 1 /\ Len(journal[y]) + 1 \in DOMAIN new
       /\ new[Len(journal[y]) + 1] = e
  <2>1. Len(new) = Len(journal[y]) + 1 /\ DOMAIN new = 1..Len(new)
        BY <1>3 DEF Extends
  <2>2. Len(journal[y]) + 1 \in DOMAIN new \ DOMAIN journal[y]
        BY <1>4, <2>1 DEF JournalShape
  <2>3. new[Len(journal[y]) + 1] = <<e>>[(Len(journal[y]) + 1) - Len(journal[y])]
        BY <1>3, <2>2 DEF Extends
  <2> QED BY <1>4, <2>1, <2>2, <2>3
<1> QED BY <1>1, <1>6, <1>9, <1>10

LEMMA CloseYearGrows ==
    ASSUME Shape, Correlative, CloseYear
    PROVE  Grows
<1>1. PICK y, tax, entries, taxEntry, n, opening :
          /\ y \in Years
          /\ taxEntry.number = NextNumber(y)
          /\ n = NextNumber(y) + (IF tax > 0 THEN 1 ELSE 0)
          /\ \E r, c : r.number = n /\ c.number = n + 1 /\ entries = <<r, c>>
          /\ opening.number = NextNumber(y + 1)
          /\ journal' = [journal EXCEPT
                 ![y] = @ \o (IF tax > 0 THEN <<taxEntry>> ELSE <<>>) \o entries,
                 ![y + 1] = Append(@, opening)]
  <2> DEFINE y == loop.year
             tax == TaxOn(loop.balance, loop.taxed, loop.rate)
             n == NextNumber(y) + (IF tax > 0 THEN 1 ELSE 0)
             closing == ClosingLines(loop.balance, tax)
             taxEntry == Entry(NextNumber(y), "tax", TaxLines(tax))
             r == Entry(n, "regularization", RegularizationLines(loop.balance, tax))
             c == Entry(n + 1, "closing", closing)
             opening == Entry(NextNumber(y + 1), "opening", Reversed(closing))
  <2>1. y \in Years
        BY DEF CloseYear, Shape
  <2>2. /\ taxEntry.number = NextNumber(y) /\ r.number = n /\ c.number = n + 1
        /\ opening.number = NextNumber(y + 1)
        BY DEF Entry
  <2>3. journal' = [journal EXCEPT
            ![y] = @ \o (IF tax > 0 THEN <<taxEntry>> ELSE <<>>) \o <<r, c>>,
            ![y + 1] = Append(@, opening)]
        BY DEF CloseYear
  <2> HIDE DEF y, tax, taxEntry, r, c, opening
  <2> QED BY <2>1, <2>2, <2>3
<1> DEFINE first == IF tax > 0 THEN <<taxEntry>> ELSE <<>>
           s == journal[y] \o first
           new == s \o entries
           next == Append(journal[y + 1], opening)
           t == first \o entries
<1>2. /\ y \in AllYears /\ y + 1 \in AllYears /\ y # y + 1 /\ y \in Nat
      BY <1>1, DocumentType DEF Years
<1>3. PICK r, c : r.number = n /\ c.number = n + 1 /\ entries = <<r, c>>
      BY <1>1
<1>4. entries \in Seq({r, c}) /\ Len(entries) = 2 /\ entries[1] = r /\ entries[2] = c
      BY <1>3
<1>5. first \in Seq({taxEntry}) /\ Len(first) = IF tax > 0 THEN 1 ELSE 0
  <2>1. CASE tax > 0
    <3>1. first = <<taxEntry>>
          BY <2>1
    <3> QED BY <2>1, <3>1
  <2>2. CASE ~(tax > 0)
    <3>1. first = <<>>
          BY <2>2
    <3> QED BY <2>2, <3>1
  <2> QED BY <2>1, <2>2
<1>6. tax > 0 => first[1] = taxEntry
      OBVIOUS
<1>7. JournalShape
      BY DEF Shape
<1>8. Extends(s, journal[y], first) /\ Extends(next, journal[y + 1], <<opening>>)
      BY <1>2, <1>5, <1>7, ConcatExtends, AppendExtends DEF JournalShape
<1>9. Extends(new, s, entries)
  <2>1. s \in Seq({s[i] : i \in DOMAIN s})
        BY <1>8 DEF Extends
  <2> HIDE DEF s
  <2> QED BY <1>4, <2>1, ConcatExtends
<1>10. journal' = [journal EXCEPT ![y] = new, ![y + 1] = next]
       BY <1>1
<1> HIDE DEF first, s, new, next
<1>11. /\ NextNumber(y) = Len(journal[y]) + 1 /\ Len(journal[y]) \in Nat
       /\ NextNumber(y + 1) = Len(journal[y + 1]) + 1 /\ Len(journal[y + 1]) \in Nat
       BY <1>2, <1>7, NextNumberIs
<1>12. \A i \in DOMAIN s : s[i].number = i
  <2>1. \A i \in DOMAIN first : i \in Nat /\ first[i].number = Len(journal[y]) + i
        BY <1>1, <1>5, <1>6, <1>11
  <2> QED BY <1>2, <1>7, <1>8, <2>1, YearGrows
<1>13. DOMAIN s = 1..Len(s) /\ Len(s) \in Nat /\ Len(s) + 1 = n
  <2>1. s \in Seq({s[i] : i \in DOMAIN s}) /\ Len(s) = Len(journal[y]) + Len(first)
        BY <1>8 DEF Extends
  <2>2. DOMAIN s = 1..Len(s) /\ Len(s) \in Nat
        BY <2>1
  <2> DEFINE more == IF tax > 0 THEN 1 ELSE 0
  <2>3. Len(first) = more /\ n = NextNumber(y) + more /\ more \in {0, 1}
        BY <1>1, <1>5
  <2> HIDE DEF more
  <2> QED BY <1>11, <2>1, <2>2, <2>3
<1>14. \A i \in DOMAIN new : new[i].number = i
  <2> SUFFICES ASSUME NEW i \in DOMAIN new PROVE new[i].number = i
      OBVIOUS
  <2>1. CASE i \in DOMAIN s
        BY <1>9, <1>12, <2>1 DEF Extends
  <2>2. CASE i \notin DOMAIN s
    <3>1. new[i] = entries[i - Len(s)] /\ i - Len(s) \in {1, 2} /\ i \in Nat
          BY <1>4, <1>9, <2>2 DEF Extends
    <3> QED BY <1>3, <1>4, <1>13, <3>1
  <2> QED BY <2>1, <2>2
<1>15. \A i \in DOMAIN next : next[i].number = i
  <2>1. \A i \in DOMAIN <<opening>> :
            i \in Nat /\ <<opening>>[i].number = Len(journal[y + 1]) + i
        BY <1>1, <1>11
  <2> QED BY <1>2, <1>7, <1>8, <2>1, YearGrows
<1>16. /\ DOMAIN journal = AllYears /\ journal'[y] = new /\ journal'[y + 1] = next
       /\ \A z \in AllYears : z # y /\ z # y + 1 => journal'[z] = journal[z]
       /\ journal' = [z \in AllYears |-> journal'[z]]
       BY <1>2, <1>7, <1>10 DEF JournalShape
<1>17. JournalShape'
  <2>1. ASSUME NEW z \in AllYears
        PROVE  journal'[z] \in Seq({journal'[z][i] : i \in DOMAIN journal'[z]})
    <3>1. CASE z = y
          BY <1>9, <1>16, <3>1 DEF Extends
    <3>2. CASE z = y + 1
          BY <1>8, <1>16, <3>2 DEF Extends
    <3>3. CASE z # y /\ z # y + 1
      <4>1. journal'[z] = journal[z]
            BY <1>16, <3>3
      <4> QED BY <1>7, <4>1 DEF JournalShape
    <3> QED BY <3>1, <3>2, <3>3
  <2> QED BY <1>16, <2>1 DEF JournalShape
<1>18. Correlative'
       BY <1>14, <1>15, <1>16 DEF Correlative
<1>19. ASSUME NEW z \in AllYears
       PROVE  /\ DOMAIN journal[z] \subseteq DOMAIN journal'[z]
              /\ \A i \in DOMAIN journal[z] : journal'[z][i] = journal[z][i]
  <2>1. CASE z = y
        BY <1>8, <1>9, <1>16, <2>1 DEF Extends
  <2>2. CASE z = y + 1
        BY <1>8, <1>16, <2>2 DEF Extends
  <2>3. CASE z # y /\ z # y + 1
        BY <1>16, <2>3
  <2> QED BY <2>1, <2>2, <2>3
<1> QED BY <1>17, <1>18, <1>19 DEF Grows
-----------------------------------------------------------------------------
(***************************************************************************)
(* The invariant is inductive.                                             *)
(***************************************************************************)

LEMMA InitIInv == Init => IInv
<1> SUFFICES ASSUME Init PROVE IInv
    OBVIOUS
<1>1. JournalShape /\ Correlative
      BY DEF Init, JournalShape, Correlative, AllYears
<1>2. Shape
      BY <1>1 DEF Init, Shape, Statuses
<1>3. TasksKnow /\ ApprovedIsBooked
      BY DEF Init, TasksKnow, ApprovedIsBooked
<1> QED BY <1>1, <1>2, <1>3 DEF IInv

\* What is in the journal stays there.
LEMMA StaysBooked ==
    ASSUME Grows, NEW p \in Proposals, NEW number, BookedUnder(p, number)
    PROVE  BookedUnder(p, number)'
BY DocumentType DEF Grows, BookedUnder, AllYears, Documents

\* In these terms ApprovedIsBooked reads:
LEMMA ApprovedIs ==
    ApprovedIsBooked <=>
        \A p \in Proposals : status[p] = "APPROVED" =>
            invoices[p] > 0 /\ BookedUnder(p, entryOf[p])
BY DEF ApprovedIsBooked, BookedUnder, Of

\* Whoever only adds to the journal keeps what threads and proposals rest on.
LEMMA GrowsKeeps ==
    ASSUME IInv, Grows, UNCHANGED <<status, entryOf, invoices, task>>,
           loop' # None => loop'.year \in Years
    PROVE  IInv'
<1>1. Shape' /\ Correlative'
      BY DEF IInv, Shape, Grows
<1>2. TasksKnow'
  <2> SUFFICES ASSUME NEW t \in Threads, task[t] # None
               PROVE  /\ invoices[task[t].proposal] > 0
                      /\ task[t].at = "settle" =>
                             BookedUnder(task[t].proposal, task[t].number)'
      BY DEF TasksKnow, BookedUnder
  <2>1. task[t].proposal \in Proposals
        BY DEF IInv, Shape
  <2> QED BY <2>1, StaysBooked DEF IInv, TasksKnow
<1>3. ApprovedIsBooked'
  <2> SUFFICES ASSUME NEW p \in Proposals, status[p] = "APPROVED"
               PROVE  invoices[p] > 0 /\ BookedUnder(p, entryOf[p])'
      BY ApprovedIs DEF ApprovedIsBooked, BookedUnder, Of
  <2> QED BY StaysBooked, ApprovedIs DEF IInv
<1> QED BY <1>1, <1>2, <1>3 DEF IInv

\* A journal that does not change grows.
LEMMA SameGrows ==
    ASSUME JournalShape, Correlative, UNCHANGED journal
    PROVE  Grows
BY DEF Grows, JournalShape, Correlative

LEMMA ApproveStep ==
    ASSUME IInv, NEW t \in Threads, NEW p \in Proposals, Approve(t, p)
    PROVE  IInv'
<1> USE DEF IInv
<1>1. /\ task' = [task EXCEPT ![t] = [proposal |-> p, at |-> "test", number |-> None]]
      /\ invoices' = [invoices EXCEPT ![p] = @ + 1]
      /\ UNCHANGED <<journal, status, entryOf, loop>>
      BY DEF Approve, Goto
<1>2. \A q \in Proposals : invoices'[q] \in Nat /\ (invoices[q] > 0 => invoices'[q] > 0)
      /\ invoices'[p] > 0
      BY <1>1 DEF Shape
<1>3. Shape' /\ Correlative'
  <2>1. JournalShape' /\ Correlative'
        BY <1>1, SameGrows DEF Shape, Grows
  <2>2. [proposal |-> p, at |-> "test", number |-> None] \in
            [proposal : Proposals, at : {"test", "record", "settle"},
             number : Nat \cup {None}]
        OBVIOUS
  <2>3. task' \in [Threads -> {None} \cup
                    [proposal : Proposals, at : {"test", "record", "settle"},
                     number : Nat \cup {None}]]
        BY <1>1, <2>2 DEF Shape
  <2>4. invoices' \in [Proposals -> Nat]
        BY <1>1, <1>2 DEF Shape
  <2> QED BY <1>1, <2>1, <2>3, <2>4 DEF Shape
<1>4. TasksKnow'
  <2> SUFFICES ASSUME NEW u \in Threads, task'[u] # None
               PROVE  /\ invoices'[task'[u].proposal] > 0
                      /\ task'[u].at = "settle" =>
                             BookedUnder(task'[u].proposal, task'[u].number)
      BY <1>1 DEF TasksKnow, BookedUnder
  <2>1. CASE u = t
        BY <1>1, <1>2, <2>1 DEF Shape
  <2>2. CASE u # t
        BY <1>1, <1>2, <2>2 DEF Shape, TasksKnow
  <2> QED BY <2>1, <2>2
<1>5. ApprovedIsBooked'
      BY <1>1, <1>2 DEF ApprovedIsBooked, Of
<1> QED BY <1>3, <1>4, <1>5

\* A thread goes on to its test or its entry, or gives up.
LEMMA TaskStep ==
    ASSUME IInv, NEW t \in Threads, task[t] # None, UNCHANGED <<journal, documents, loop>>,
           \/ task' = [task EXCEPT ![t] = None]
           \/ \E number \in Nat : task' = [task EXCEPT ![t] =
                 [proposal |-> task[t].proposal, at |-> "record", number |-> number]]
    PROVE  IInv'
<1> USE DEF IInv, documents
<1>1. Shape' /\ Correlative'
  <2>1. JournalShape' /\ Correlative'
        BY SameGrows DEF Shape, Grows
  <2>2. task' \in [Threads -> {None} \cup
                    [proposal : Proposals, at : {"test", "record", "settle"},
                     number : Nat \cup {None}]]
        BY DEF Shape
  <2> QED BY <2>1, <2>2 DEF Shape
<1>2. ApprovedIsBooked'
      BY DEF ApprovedIsBooked, Of
<1>3. TasksKnow'
  <2> SUFFICES ASSUME NEW u \in Threads, task'[u] # None
               PROVE  /\ invoices[task'[u].proposal] > 0
                      /\ task'[u].at = "settle" =>
                             BookedUnder(task'[u].proposal, task'[u].number)
      BY DEF TasksKnow, BookedUnder
  <2>1. CASE u = t
        BY <2>1 DEF Shape, TasksKnow
  <2>2. CASE u # t
        BY <2>2 DEF Shape, TasksKnow
  <2> QED BY <2>1, <2>2
<1> QED BY <1>1, <1>2, <1>3

LEMMA TestStep ==
    ASSUME IInv, NEW t \in Threads, Test(t)
    PROVE  IInv'
<1>1. task[t] # None /\ task[t].proposal \in Proposals
      BY DEF Test, At, IInv, Shape
<1>2. NextNumber(Document[task[t].proposal].year) \in Nat
      BY <1>1, NextNumberType DEF IInv, Shape
<1> QED BY <1>1, <1>2, TaskStep DEF Test, Goto

LEMMA AbortStep ==
    ASSUME IInv, NEW t \in Threads, Abort(t)
    PROVE  IInv'
BY TaskStep DEF Abort

LEMMA RecordStep ==
    ASSUME IInv, NEW t \in Threads, Record(t)
    PROVE  IInv'
<1> USE DEF IInv
<1>1. PICK p \in Proposals, number \in Nat :
          /\ task[t] # None /\ task[t].proposal = p
          /\ number = NextNumber(Document[p].year)
          /\ Insert(Document[p].year, p, Document[p].lines)
          /\ task' = [task EXCEPT ![t] = [proposal |-> p, at |-> "settle",
                                         number |-> number]]
  <2>1. task[t] # None /\ task[t].proposal \in Proposals
        BY DEF Record, At, Shape
  <2>2. NextNumber(Document[task[t].proposal].year) \in Nat
        BY <2>1, NextNumberType DEF Shape
  <2> QED BY <2>1, <2>2 DEF Record, Goto
<1>2. UNCHANGED <<status, entryOf, invoices, loop>>
      BY DEF Record, documents
<1>3. /\ Grows
      /\ \E i \in DOMAIN journal'[Document[p].year] :
            /\ journal'[Document[p].year][i].source = p
            /\ journal'[Document[p].year][i].number = number
  <2> DEFINE y == Document[p].year
  <2>1. y \in AllYears
        BY DocumentType DEF Documents
  <2>2. JournalShape
        BY DEF Shape
  <2>3. Insert(y, p, Document[p].lines) /\ number = NextNumber(y)
        BY <1>1
  <2> HIDE DEF y
  <2>4. /\ Grows
        /\ Len(journal[y]) + 1 \in DOMAIN journal'[y]
        /\ journal'[y][Len(journal[y]) + 1].source = p
        /\ journal'[y][Len(journal[y]) + 1].number = number
        BY <2>1, <2>2, <2>3, InsertGrows
  <2>5. \E i \in DOMAIN journal'[y] :
            journal'[y][i].source = p /\ journal'[y][i].number = number
        BY <2>4
  <2> QED BY <2>4, <2>5 DEF y
<1>4. BookedUnder(p, number)'
      BY <1>3 DEF BookedUnder
<1>5. Shape' /\ Correlative'
  <2>1. task' \in [Threads -> {None} \cup
                    [proposal : Proposals, at : {"test", "record", "settle"},
                     number : Nat \cup {None}]]
        BY <1>1 DEF Shape
  <2> QED BY <1>2, <1>3, <2>1 DEF Shape, Grows
<1>6. TasksKnow'
  <2> SUFFICES ASSUME NEW u \in Threads, task'[u] # None
               PROVE  /\ invoices[task'[u].proposal] > 0
                      /\ task'[u].at = "settle" =>
                             BookedUnder(task[u].proposal, task[u].number)'
      BY <1>2 DEF TasksKnow
  <2>1. CASE u = t
    <3>1. task'[u].proposal = p /\ task'[u].number = number
          BY <1>1, <2>1 DEF Shape
    <3>2. invoices[p] > 0
          BY <1>1 DEF TasksKnow
    <3> QED BY <1>4, <3>1, <3>2 DEF BookedUnder
  <2>2. CASE u # t
    <3>1. task'[u] = task[u] /\ task[u].proposal \in Proposals
          BY <1>1, <2>2 DEF Shape
    <3>2. task[u].at = "settle" => BookedUnder(task[u].proposal, task[u].number)
          BY <3>1 DEF TasksKnow
    <3>3. ASSUME NEW q \in Proposals, NEW m, BookedUnder(q, m)
          PROVE  BookedUnder(q, m)'
          BY <1>3, <3>3, StaysBooked
    <3>4. task[u].at = "settle" => BookedUnder(task[u].proposal, task[u].number)'
          BY <3>1, <3>2, <3>3 DEF BookedUnder
    <3> QED BY <3>1, <3>4 DEF TasksKnow
  <2> QED BY <2>1, <2>2
<1>7. ApprovedIsBooked'
  <2>1. \A q \in Proposals : status[q] = "APPROVED" =>
            invoices[q] > 0 /\ BookedUnder(q, entryOf[q])
        BY ApprovedIs
  <2>2. ASSUME NEW q \in Proposals, status[q] = "APPROVED"
        PROVE  invoices[q] > 0 /\ BookedUnder(q, entryOf[q])'
    <3>1. ASSUME NEW m, BookedUnder(q, m)
          PROVE  BookedUnder(q, m)'
          BY <1>3, <3>1, StaysBooked
    <3> QED BY <1>2, <2>1, <2>2, <3>1 DEF BookedUnder
  <2> QED BY <1>2, <2>2 DEF ApprovedIsBooked, BookedUnder, Of
<1> QED BY <1>5, <1>6, <1>7

LEMMA SettleStep ==
    ASSUME IInv, NEW t \in Threads, Settle(t)
    PROVE  IInv'
<1> USE DEF IInv
<1>1. PICK p \in Proposals, number \in Nat :
          /\ invoices[p] > 0 /\ BookedUnder(p, number)
          /\ status' = [status EXCEPT ![p] = "APPROVED"]
          /\ entryOf' = [entryOf EXCEPT ![p] = number]
  <2>1. task[t] # None /\ task[t].at = "settle" /\ task[t].proposal \in Proposals
        BY DEF Settle, At, Shape
  <2>2. BookedUnder(task[t].proposal, task[t].number) /\ invoices[task[t].proposal] > 0
        BY <2>1 DEF TasksKnow
  <2>3. task[t].number \in Nat
    <3> DEFINE y == Document[task[t].proposal].year
    <3>1. y \in AllYears
          BY <2>1, ProposalYear
    <3> HIDE DEF y
    <3>2. PICK i \in DOMAIN journal[y] : journal[y][i].number = task[t].number
          BY <2>2 DEF BookedUnder, y
    <3>3. y \in DOMAIN journal /\ DOMAIN journal[y] = 1..Len(journal[y])
          BY <3>1 DEF Shape, JournalShape
    <3> QED BY <3>2, <3>3 DEF Correlative
  <2> QED BY <2>1, <2>2, <2>3 DEF Settle
<1>2. task' = [task EXCEPT ![t] = None] /\ UNCHANGED <<journal, invoices, loop>>
      BY DEF Settle
<1>3. Shape' /\ Correlative'
  <2>1. JournalShape' /\ Correlative'
        BY <1>2, SameGrows DEF Shape, Grows
  <2>2. /\ status' \in [Proposals -> Statuses]
        /\ entryOf' \in [Proposals -> Nat \cup {None}]
        /\ task' \in [Threads -> {None} \cup
                    [proposal : Proposals, at : {"test", "record", "settle"},
                     number : Nat \cup {None}]]
        BY <1>1, <1>2 DEF Shape, Statuses
  <2> QED BY <1>2, <2>1, <2>2 DEF Shape
<1>4. TasksKnow'
      BY <1>2 DEF TasksKnow, Shape, BookedUnder
<1>5. ApprovedIsBooked'
  <2> SUFFICES ASSUME NEW q \in Proposals, status'[q] = "APPROVED"
               PROVE  invoices[q] > 0 /\ BookedUnder(q, entryOf'[q])
      BY <1>2 DEF ApprovedIsBooked, BookedUnder, Of
  <2>1. CASE q = p
        BY <1>1, <2>1 DEF Shape
  <2>2. CASE q # p
        BY <1>1, <2>2, ApprovedIs DEF Shape
  <2> QED BY <2>1, <2>2
<1> QED BY <1>3, <1>4, <1>5

LEMMA RejectStep ==
    ASSUME IInv, NEW p \in Proposals, Reject(p)
    PROVE  IInv'
<1> USE DEF IInv
<1>1. Shape' /\ Correlative'
      BY DEF Reject, Shape, Statuses, JournalShape, Correlative
<1>2. TasksKnow'
      BY DEF Reject, TasksKnow, BookedUnder
<1>3. ApprovedIsBooked'
      BY DEF Reject, ApprovedIsBooked, Of, Shape
<1> QED BY <1>1, <1>2, <1>3

LEMMA ReconcileStep ==
    ASSUME IInv, NEW m \in Movements, Reconcile(m)
    PROVE  IInv'
<1>1. Grows
      BY InsertGrows, DocumentType DEF Reconcile, IInv, Shape, Documents
<1> QED BY <1>1, GrowsKeeps DEF Reconcile, IInv, Shape

\* The other steps of the event loop.
LEMMA LoopStep ==
    ASSUME IInv,
           \/ \E y \in Years : Depreciate(y) \/ \E rate \in Rates : Simulate(y, rate)
           \/ RecordDepreciation \/ CloseYear \/ LoopAbort
    PROVE  IInv'
<1> USE DEF IInv
<1>1. CASE \E y \in Years : Depreciate(y) \/ \E rate \in Rates : Simulate(y, rate)
  <2>1. UNCHANGED <<journal, documents, task>> /\ loop'.year \in Years
        BY <1>1 DEF Depreciate, Simulate
  <2> QED BY <2>1, SameGrows, GrowsKeeps DEF Shape, documents
<1>2. CASE RecordDepreciation
  <2>1. PICK lines : Insert(loop.year, "depreciation", lines)
        BY <1>2 DEF RecordDepreciation
  <2>2. loop.year \in AllYears
        BY <1>2, DocumentType DEF RecordDepreciation, Shape
  <2>3. Grows
        BY <2>1, <2>2, InsertGrows DEF Shape
  <2> QED BY <1>2, <2>3, GrowsKeeps DEF RecordDepreciation, documents
<1>3. CASE CloseYear
      BY <1>3, CloseYearGrows, GrowsKeeps DEF CloseYear, documents
<1>4. CASE LoopAbort
      BY <1>4, SameGrows, GrowsKeeps DEF LoopAbort, Shape, documents
<1> QED BY <1>1, <1>2, <1>3, <1>4

LEMMA StutterStep ==
    ASSUME IInv, UNCHANGED vars
    PROVE  IInv'
BY SameGrows, GrowsKeeps DEF vars, documents, IInv, Shape
-----------------------------------------------------------------------------
(***************************************************************************)
(* Numbers without gaps, and proposals approved with their invoice and     *)
(* entry, whatever fails and whoever closes a year: the inductive          *)
(* invariant.                                                              *)
(***************************************************************************)
THEOREM BooksInvariant == Spec => []IInv
<1>1. IInv /\ [Next]_vars => IInv'
  <2> SUFFICES ASSUME IInv, [Next]_vars PROVE IInv'
      OBVIOUS
  <2>1. ASSUME NEW t \in Threads, NEW p \in Proposals, Approve(t, p)
        PROVE  IInv'
        BY <2>1, ApproveStep
  <2>2. ASSUME NEW t \in Threads, Test(t) \/ Record(t) \/ Settle(t) \/ Abort(t)
        PROVE  IInv'
        BY <2>2, TestStep, RecordStep, SettleStep, AbortStep
  <2>3. ASSUME NEW p \in Proposals, Reject(p)
        PROVE  IInv'
        BY <2>3, RejectStep
  <2>4. ASSUME NEW m \in Movements, Reconcile(m)
        PROVE  IInv'
        BY <2>4, ReconcileStep
  <2>5. CASE \/ \E y \in Years : Depreciate(y) \/ \E rate \in Rates : Simulate(y, rate)
             \/ RecordDepreciation \/ CloseYear \/ LoopAbort
        BY <2>5, LoopStep
  <2>6. CASE UNCHANGED vars
        BY <2>6, StutterStep
  <2> QED BY <2>1, <2>2, <2>3, <2>4, <2>5, <2>6 DEF Next
<1> QED BY <1>1, InitIInv, PTL DEF Spec

\* Four writers in several threads number the entries 1, 2, 3...
THEOREM AlwaysCorrelative == Spec => []Correlative
<1>1. IInv => Correlative
      BY DEF IInv
<1> QED BY <1>1, BooksInvariant, PTL

\* An approved proposal has its invoice, and its entry under its number.
THEOREM AlwaysBooked == Spec => []ApprovedIsBooked
<1>1. IInv => ApprovedIsBooked
      BY DEF IInv
<1> QED BY <1>1, BooksInvariant, PTL
-----------------------------------------------------------------------------
(***************************************************************************)
(* The sums over a journal.                                                *)
(***************************************************************************)

EntrySet == [number : Nat, source : Sources, lines : Lines]

\* A set of numbers has a least one.
LEMMA LeastNat ==
    ASSUME NEW S \in SUBSET Nat, S # {}
    PROVE  \E x \in S : \A y \in S : x <= y
<1> DEFINE Below == {ss \in Nat \X Nat : ss[1] < ss[2]}
<1>1. IsWellFoundedOn(Below, Nat)
    BY NatLessThanWellFounded DEF OpToRel
<1>2. \A x, y \in Nat : <<y, x>> \notin Below => x <= y
    OBVIOUS
<1> HIDE DEF Below
<1>3. \E x \in S : \A y \in S : <<y, x>> \notin Below
    BY <1>1, WFMin
<1> QED
    BY <1>2, <1>3

\* A set of numbers with 0, and with n + 1 if it has n, is Nat.
LEMMA AllNumbers ==
    ASSUME NEW S \in SUBSET Nat, 0 \in S, \A n \in S : n + 1 \in S
    PROVE  S = Nat
<1>1. SUFFICES ASSUME Nat \ S # {} PROVE FALSE
    OBVIOUS
<1>2. PICK x \in Nat \ S : \A y \in Nat \ S : x <= y
    BY <1>1, LeastNat
<1>3. x # 0 /\ x - 1 \in Nat /\ x - 1 \in S
    BY <1>2
<1> QED
    BY <1>2, <1>3

\* Up to a bound.
LEMMA AllUpTo ==
    ASSUME NEW N \in Nat, NEW S \in SUBSET (0..N), 0 \in S,
           \A n \in S : n < N => n + 1 \in S
    PROVE  S = 0..N
<1> DEFINE U == {n \in Nat : n <= N => n \in S}
<1>1. 0 \in U /\ \A n \in U : n + 1 \in U
    <2>1. 0 \in U
        OBVIOUS
    <2>2. ASSUME NEW n \in Nat, n <= N => n \in S, n + 1 <= N
          PROVE  n + 1 \in S
        <3>1. n <= N /\ n < N
            BY <2>2
        <3>2. n \in S
            BY <2>2, <3>1
        <3> QED
            BY <3>1, <3>2
    <2> QED
        BY <2>1, <2>2
<1>2. U \subseteq Nat
    OBVIOUS
<1> HIDE DEF U
<1>3. U = Nat
    BY <1>1, <1>2, AllNumbers
<1>4. ASSUME NEW n \in 0..N PROVE n \in S
    <2>1. n \in U /\ n <= N
        BY <1>3
    <2> QED
        BY <2>1 DEF U
<1> QED
    BY <1>4

\* A function on 0..N that starts at 0 and adds up.
Adds(f, N, add) == f[0] = 0 /\ \A n \in 1..N : f[n] = f[n - 1] + add[n]

LEMMA AddsExists ==
    ASSUME NEW N \in Nat, NEW add \in [1..N -> Int]
    PROVE  \E f \in [0..N -> Int] : Adds(f, N, add)
<1> DEFINE S == {m \in 0..N : \E f \in [0..N -> Int] : Adds(f, m, add)}
<1>1. 0 \in S
    <2>1. [n \in 0..N |-> 0] \in [0..N -> Int] /\ Adds([n \in 0..N |-> 0], 0, add)
        BY DEF Adds
    <2> QED
        BY <2>1
<1>2. ASSUME NEW m \in S, m < N PROVE m + 1 \in S
    <2>1. PICK f \in [0..N -> Int] : Adds(f, m, add)
        OBVIOUS
    <2> DEFINE g == [f EXCEPT ![m + 1] = f[m] + add[m + 1]]
    <2>2. m \in 0..N /\ m + 1 \in 1..N /\ m \in Nat
        BY <1>2
    <2>3. g \in [0..N -> Int] /\ g[m + 1] = f[m] + add[m + 1]
          /\ \A n \in 0..N : n # m + 1 => g[n] = f[n]
        BY <2>2
    <2> HIDE DEF g
    <2>4. Adds(g, m + 1, add)
        <3>1. g[0] = 0
            BY <2>1, <2>2, <2>3 DEF Adds
        <3> DEFINE P(n) == g[n] = g[n - 1] + add[n]
        <3>2. ASSUME NEW n \in 1..(m + 1) PROVE P(n)
            <4>1. CASE n = m + 1
                <5>1. n - 1 = m /\ m # m + 1
                    BY <2>2, <4>1
                <5> QED
                    BY <2>2, <2>3, <4>1, <5>1
            <4>2. CASE n \in 1..m
                <5>1. n \in 0..N /\ n - 1 \in 0..N /\ n # m + 1 /\ n - 1 # m + 1
                    BY <2>2, <4>2
                <5> QED
                    BY <2>1, <2>3, <4>2, <5>1 DEF Adds
            <4> QED
                BY <2>2, <4>1, <4>2
        <3> QED
            BY <3>1, <3>2 DEF Adds
    <2> QED
        BY <2>2, <2>3, <2>4
<1> HIDE DEF S
<1>3. S \subseteq 0..N
    BY DEF S
<1>4. N \in S
    <2>1. S = 0..N
        BY <1>1, <1>2, <1>3, AllUpTo
    <2> QED
        BY <2>1
<1> QED
    BY <1>4 DEF S

LEMMA AddsUnique ==
    ASSUME NEW N \in Nat, NEW add, NEW f, NEW g, Adds(f, N, add), Adds(g, N, add)
    PROVE  \A n \in 0..N : f[n] = g[n]
<1> DEFINE S == {n \in 0..N : f[n] = g[n]}
<1>1. 0 \in S
    BY DEF Adds
<1>2. ASSUME NEW n \in S, n < N PROVE n + 1 \in S
    <2>1. n + 1 \in 1..N /\ (n + 1) - 1 = n
        BY <1>2
    <2> QED
        BY <2>1 DEF Adds
<1> HIDE DEF S
<1>3. S \subseteq 0..N
    BY DEF S
<1>4. S = 0..N
    BY <1>1, <1>2, <1>3, AllUpTo
<1> QED
    BY <1>4 DEF S

Column(entries, a) == [n \in 1..Len(entries) |-> entries[n].lines[a]]

LEMMA SumIs ==
    ASSUME NEW entries, Len(entries) \in Nat, NEW a,
           \A n \in 1..Len(entries) : entries[n].lines[a] \in Int
    PROVE  \E f \in [0..Len(entries) -> Int] :
               /\ Adds(f, Len(entries), Column(entries, a))
               /\ SumOf(entries, a) = f[Len(entries)]
<1> DEFINE N == Len(entries)
           add == Column(entries, a)
           Step(g) == [n \in 0..N |-> IF n = 0 THEN 0 ELSE g[n - 1] + entries[n].lines[a]]
           sum == CHOOSE g : g = Step(g)
<1>1. SumOf(entries, a) = sum[N]
    BY DEF SumOf
<1>2. PICK f \in [0..N -> Int] : Adds(f, N, add)
    <2>1. add \in [1..N -> Int]
        BY DEF Column
    <2> HIDE DEF add
    <2> QED
        BY <2>1, AddsExists
<1>3. f = Step(f)
    <2>1. \A n \in 0..N : f[n] = IF n = 0 THEN 0 ELSE f[n - 1] + entries[n].lines[a]
        BY <1>2 DEF Adds, Column
    <2> QED
        BY <2>1
<1>4. sum = Step(sum)
    <2> HIDE DEF Step
    <2> QED
        BY <1>3
<1>5. Adds(sum, N, add)
    <2> HIDE DEF sum
    <2>1. \A n \in 0..N : sum[n] = IF n = 0 THEN 0 ELSE sum[n - 1] + entries[n].lines[a]
        BY <1>4
    <2> QED
        BY <2>1 DEF Adds, Column
<1>6. sum[N] = f[N]
    <2> HIDE DEF sum, add
    <2> QED
        BY <1>2, <1>5, AddsUnique
<1> QED
    BY <1>1, <1>2, <1>6

\* What an entry says of an account is a number.
LEMMA EntryAmounts ==
    ASSUME NEW entries \in Seq(EntrySet), NEW a \in Accounts
    PROVE  /\ Len(entries) \in Nat
           /\ \A n \in 1..Len(entries) : entries[n].lines[a] \in Int
<1>1. Len(entries) \in Nat /\ \A n \in 1..Len(entries) : entries[n] \in EntrySet
    OBVIOUS
<1>2. ASSUME NEW e \in EntrySet PROVE e.lines[a] \in Int
    <2>1. e.lines \in [Accounts -> Int]
        BY DEF EntrySet, Lines
    <2> QED
        BY <2>1
<1> QED
    BY <1>1, <1>2

\* The sum over an account is a number, and another entry adds its amount.
LEMMA SumType ==
    ASSUME NEW entries \in Seq(EntrySet), NEW a \in Accounts
    PROVE  SumOf(entries, a) \in Int
<1>1. /\ Len(entries) \in Nat
      /\ \A n \in 1..Len(entries) : entries[n].lines[a] \in Int
    BY EntryAmounts
<1>2. PICK f \in [0..Len(entries) -> Int] : SumOf(entries, a) = f[Len(entries)]
    BY <1>1, SumIs
<1> QED
    BY <1>1, <1>2

LEMMA SumAppend ==
    ASSUME NEW entries \in Seq(EntrySet), NEW e \in EntrySet, NEW a \in Accounts
    PROVE  SumOf(Append(entries, e), a) = SumOf(entries, a) + e.lines[a]
<1> DEFINE N == Len(entries)
           more == Append(entries, e)
<1>1. /\ more \in Seq(EntrySet) /\ N \in Nat /\ Len(more) = N + 1
      /\ \A n \in 1..N : more[n] = entries[n]
      /\ more[N + 1] = e
    OBVIOUS
<1>2. \A n \in 1..N : entries[n].lines[a] \in Int
    BY EntryAmounts
<1> HIDE DEF more
<1>3. \A n \in 1..(N + 1) : more[n].lines[a] \in Int
    <2> HIDE DEF N
    <2>1. \A n \in 1..Len(more) : more[n].lines[a] \in Int
        BY <1>1, EntryAmounts
    <2> QED
        BY <1>1, <2>1
<1>4. PICK f \in [0..N -> Int] : Adds(f, N, Column(entries, a)) /\ SumOf(entries, a) = f[N]
    BY <1>1, <1>2, SumIs
<1>5. PICK g \in [0..(N + 1) -> Int] :
          Adds(g, N + 1, Column(more, a)) /\ SumOf(more, a) = g[N + 1]
    <2>1. Len(more) \in Nat /\ \A n \in 1..Len(more) : more[n].lines[a] \in Int
        BY <1>1, <1>3
    <2> HIDE DEF N
    <2> QED
        BY <1>1, <2>1, SumIs
<1>6. Adds(g, N, Column(entries, a))
    <2>1. \A n \in 1..N : n \in 1..(N + 1)
        BY <1>1
    <2> QED
        BY <1>1, <1>5, <2>1 DEF Adds, Column
<1>7. g[N] = f[N]
    BY <1>1, <1>4, <1>6, AddsUnique
<1>8. g[N + 1] = g[N] + e.lines[a]
    <2>1. N + 1 \in 1..(N + 1) /\ (N + 1) - 1 = N
        BY <1>1
    <2> QED
        BY <1>1, <1>5, <2>1 DEF Adds, Column
<1> QED
    BY <1>4, <1>5, <1>7, <1>8 DEF more

\* Sums account by account.
LEMMA SevenSums ==
    ASSUME NEW a \in Int, NEW b \in Int, NEW c \in Int,
           NEW d \in Int, NEW e \in Int, NEW f \in Int, NEW g \in Int,
           NEW u \in Int, NEW v \in Int, NEW w \in Int,
           NEW x \in Int, NEW y \in Int, NEW z \in Int, NEW t \in Int
    PROVE  (a + u) + (b + v) + (c + w) + (d + x) + (e + y) + (f + z) + (g + t)
               = (a + b + c + d + e + f + g) + (u + v + w + x + y + z + t)
OBVIOUS

LEMMA TotalAdds ==
    ASSUME NEW new, NEW old, NEW lines,
           \A a \in Accounts : /\ old[a] \in Int /\ lines[a] \in Int
                               /\ new[a] = old[a] + lines[a]
    PROVE  Total(new) = Total(old) + Total(lines)
<1>1. Total(new) = (old["6"] + lines["6"]) + (old["630"] + lines["630"])
                       + (old["7"] + lines["7"]) + (old["1-5"] + lines["1-5"])
                       + (old["129"] + lines["129"]) + (old["4752"] + lines["4752"])
                       + (old["others"] + lines["others"])
    BY DEF Total, Accounts
<1>2. /\ old["6"] \in Int /\ old["630"] \in Int /\ old["7"] \in Int
      /\ old["1-5"] \in Int /\ old["129"] \in Int /\ old["4752"] \in Int
      /\ old["others"] \in Int /\ lines["others"] \in Int
      /\ lines["6"] \in Int /\ lines["630"] \in Int /\ lines["7"] \in Int
      /\ lines["1-5"] \in Int /\ lines["129"] \in Int /\ lines["4752"] \in Int
    BY DEF Accounts
<1> QED
    BY <1>1, <1>2, SevenSums DEF Total

\* Entries that balance.
Balanced == {e \in EntrySet : Total(e.lines) = 0}

\* The balances of all accounts add up to 0 if every entry does: it holds of
\* the first n entries, for every n.
LEMMA TotalOfSums ==
    ASSUME NEW entries \in Seq(Balanced)
    PROVE  Total([a \in Accounts |-> SumOf(entries, a)]) = 0
<1> DEFINE N == Len(entries)
<1>1. N \in Nat /\ entries \in Seq(EntrySet)
    BY DEF Balanced
<1>2. \A n \in 1..N : entries[n] \in EntrySet /\ Total(entries[n].lines) = 0
    BY DEF Balanced
<1>3. ASSUME NEW a \in Accounts
      PROVE  \E f \in [0..N -> Int] : /\ Adds(f, N, Column(entries, a))
                                      /\ SumOf(entries, a) = f[N]
    <2>1. \A n \in 1..N : entries[n].lines[a] \in Int
        BY <1>1, EntryAmounts
    <2> QED
        BY <1>1, <2>1, SumIs
<1>4. PICK F \in [Accounts -> [0..N -> Int]] :
          \A a \in Accounts : /\ Adds(F[a], N, Column(entries, a))
                              /\ SumOf(entries, a) = F[a][N]
    <2> DEFINE C(a) == CHOOSE f \in [0..N -> Int] :
                           /\ Adds(f, N, Column(entries, a))
                           /\ SumOf(entries, a) = f[N]
    <2>1. \A a \in Accounts : /\ C(a) \in [0..N -> Int]
                              /\ Adds(C(a), N, Column(entries, a))
                              /\ SumOf(entries, a) = C(a)[N]
        BY <1>3
    <2> HIDE DEF C
    <2>2. [a \in Accounts |-> C(a)] \in [Accounts -> [0..N -> Int]]
        BY <2>1
    <2> QED
        BY <2>1, <2>2
<1> DEFINE Row(n) == [a \in Accounts |-> F[a][n]]
           S == {n \in 0..N : Total(Row(n)) = 0}
<1>5. \A n \in 0..N : Total(Row(n)) = F["6"][n] + F["630"][n] + F["7"][n]
                          + F["1-5"][n] + F["129"][n] + F["4752"][n]
                          + F["others"][n]
    BY DEF Total, Accounts
<1>6. 0 \in S
    BY <1>1, <1>4, <1>5 DEF Adds, Accounts
<1>7. ASSUME NEW n \in S, n < N PROVE n + 1 \in S
    <2>1. n + 1 \in 1..N /\ (n + 1) - 1 = n /\ n \in 0..N /\ n + 1 \in 0..N
        BY <1>1, <1>7
    <2>2. \A a \in Accounts : F[a][n + 1] = F[a][n] + entries[n + 1].lines[a]
        BY <1>4, <2>1 DEF Adds, Column
    <2>3. Total(entries[n + 1].lines) = 0 /\ entries[n + 1].lines \in Lines
        BY <1>2, <2>1 DEF EntrySet
    <2>4. \A a \in Accounts : F[a][n] \in Int /\ entries[n + 1].lines[a] \in Int
        BY <2>1, <2>3 DEF Lines
    <2>5. Total(Row(n)) = 0
        BY <1>7
    <2>6. Total(Row(n + 1)) = Total(Row(n)) + Total(entries[n + 1].lines)
        <3>1. \A a \in Accounts :
                  /\ Row(n)[a] \in Int /\ entries[n + 1].lines[a] \in Int
                  /\ Row(n + 1)[a] = Row(n)[a] + entries[n + 1].lines[a]
            BY <2>2, <2>4
        <3> HIDE DEF Row
        <3> QED
            BY <3>1, TotalAdds
    <2> QED
        BY <2>1, <2>3, <2>5, <2>6
<1> HIDE DEF S
<1>8. S \subseteq 0..N
    BY DEF S
<1>9. N \in S
    <2>1. S = 0..N
        BY <1>1, <1>6, <1>7, <1>8, AllUpTo
    <2> QED
        BY <1>1, <2>1
<1>10. [a \in Accounts |-> SumOf(entries, a)] = Row(N)
    BY <1>4
<1> QED
    BY <1>9, <1>10 DEF S
-----------------------------------------------------------------------------
(***************************************************************************)
(* The ledger: its types, and what balances.                               *)
(***************************************************************************)

Ledger ==
    /\ journal \in [AllYears -> Seq(EntrySet)]
    /\ loop \in {None} \cup [year : Years, balance : Lines \cup {None},
                           taxed : BOOLEAN, rate : Int]

\* No closing up to year y has left anything out.
Unbroken(y, left) == ~\E z \in left : z <= y

\* The lines a thread has had tested balance, as do the balances the closing
\* has read if nothing was left out before.
Tested ==
    /\ \A t \in Threads : task[t] # None /\ task[t].at = "record" =>
           Total(Document[task[t].proposal].lines) = 0
    /\ loop # None /\ loop.balance # None /\ Unbroken(loop.year, leftOut) =>
           Total(loop.balance) = 0

\* An entry of year y is as DoubleEntry has it.
Even(y, e, left) ==
    \/ Total(e.lines) = 0
    \/ e.source \in {"regularization", "closing", "opening"} /\ ~Unbroken(y, left)

LEMMA DoubleIs ==
    /\ DoubleEntry <=>
           \A y \in DOMAIN journal : \A i \in DOMAIN journal[y] :
               Even(y, journal[y][i], leftOut)
    /\ DoubleEntry' <=>
           \A y \in DOMAIN journal' : \A i \in DOMAIN journal'[y] :
               Even(y, journal'[y][i], leftOut')
BY DEF DoubleEntry, Even, Unbroken

\* What is assumed of a document.
LEMMA DocumentLines ==
    ASSUME NEW d \in Documents
    PROVE  Document[d].lines \in Lines /\ d \in Sources
BY BooksAssumption DEF Sources

LEMMA EntryTyped ==
    ASSUME NEW number \in Nat, NEW source \in Sources, NEW lines \in Lines
    PROVE  Entry(number, source, lines) \in EntrySet
BY DEF Entry, EntrySet

\* Lines, from their seven amounts.
LEMMA LinesAre ==
    ASSUME NEW lines, lines = [x \in Accounts |-> lines[x]],
           lines["6"] \in Int, lines["630"] \in Int, lines["7"] \in Int,
           lines["1-5"] \in Int, lines["129"] \in Int, lines["4752"] \in Int,
           lines["others"] \in Int
    PROVE  lines \in Lines
<1>1. \A x \in Accounts : lines[x] \in Int
    BY DEF Accounts
<1> QED
    BY <1>1 DEF Lines

\* The lines of the depreciation and of the tax balance.
LEMMA DepreciationBalances ==
    \E lines \in Lines :
        /\ Total(lines) = 0
        /\ lines = [a \in Accounts |-> CASE a = "6" -> Quota [] a = "1-5" -> -Quota
                                          [] OTHER -> 0]
<1> DEFINE lines == [a \in Accounts |-> CASE a = "6" -> Quota [] a = "1-5" -> -Quota
                                          [] OTHER -> 0]
<1>1. /\ lines["6"] = Quota /\ lines["630"] = 0 /\ lines["7"] = 0
      /\ lines["1-5"] = -Quota /\ lines["129"] = 0 /\ lines["4752"] = 0
      /\ lines["others"] = 0
    BY DEF Accounts
<1>2. Quota \in Int
    BY BooksAssumption
<1>3. lines = [a \in Accounts |-> lines[a]]
    OBVIOUS
<1> HIDE DEF lines
<1>4. /\ lines["6"] \in Int /\ lines["630"] \in Int /\ lines["7"] \in Int
      /\ lines["1-5"] \in Int /\ lines["129"] \in Int /\ lines["4752"] \in Int
      /\ lines["others"] \in Int /\ Total(lines) = 0
    BY <1>1, <1>2 DEF Total
<1>5. lines \in Lines
    BY <1>3, <1>4, LinesAre
<1> QED
    BY <1>4, <1>5 DEF lines

LEMMA TaxBalances ==
    ASSUME NEW tax \in Int
    PROVE  TaxLines(tax) \in Lines /\ Total(TaxLines(tax)) = 0
<1> DEFINE lines == TaxLines(tax)
<1>1. /\ lines["6"] = 0 /\ lines["630"] = tax /\ lines["7"] = 0
      /\ lines["1-5"] = 0 /\ lines["129"] = 0 /\ lines["4752"] = -tax
      /\ lines["others"] = 0
    BY DEF Accounts, TaxLines
<1>3. lines = [a \in Accounts |-> lines[a]]
    BY DEF TaxLines
<1> HIDE DEF lines
<1>4. /\ lines["6"] \in Int /\ lines["630"] \in Int /\ lines["7"] \in Int
      /\ lines["1-5"] \in Int /\ lines["129"] \in Int /\ lines["4752"] \in Int
      /\ lines["others"] \in Int /\ Total(lines) = 0
    BY <1>1 DEF Total
<1>5. lines \in Lines
    BY <1>3, <1>4, LinesAre
<1> QED
    BY <1>4, <1>5 DEF lines

\* The tax that gets lines.
LEMMA DueType ==
    ASSUME NEW tax \in Int
    PROVE  Due(tax) \in Nat /\ (tax >= 0 => Due(tax) = tax)
BY DEF Due

\* The lines of the closing, and when they balance: that is, when nothing is
\* left out of them.
LEMMA ClosingBalances ==
    ASSUME NEW balance \in Lines, NEW tax \in Int
    PROVE  /\ RegularizationLines(balance, tax) \in Lines
           /\ ClosingLines(balance, tax) \in Lines
           /\ Reversed(ClosingLines(balance, tax)) \in Lines
           /\ Total(balance) = 0 /\ balance["others"] = 0 /\ tax >= 0 =>
                  /\ Total(RegularizationLines(balance, tax)) = 0
                  /\ Total(ClosingLines(balance, tax)) = 0
                  /\ Total(Reversed(ClosingLines(balance, tax))) = 0
<1> DEFINE whole == Total(balance) = 0 /\ balance["others"] = 0 /\ tax >= 0
<1>1. /\ balance["6"] \in Int /\ balance["630"] \in Int /\ balance["7"] \in Int
      /\ balance["1-5"] \in Int /\ balance["129"] \in Int /\ balance["4752"] \in Int
      /\ Due(tax) \in Int
    BY DueType DEF Lines, Accounts
<1>2. whole =>
          /\ Due(tax) = tax
          /\ balance["6"] + balance["630"] + balance["7"]
                 + balance["1-5"] + balance["129"] + balance["4752"] = 0
    BY <1>1, DueType DEF Total
<1> HIDE DEF whole
<1>3. /\ RegularizationLines(balance, tax) \in Lines
      /\ whole => Total(RegularizationLines(balance, tax)) = 0
    <2> DEFINE lines == RegularizationLines(balance, tax)
    <2>1. /\ lines["6"] = -balance["6"] /\ lines["630"] = -balance["630"] - Due(tax)
          /\ lines["7"] = -balance["7"] /\ lines["1-5"] = 0
          /\ lines["129"] = balance["7"] + balance["6"] + balance["630"] + tax
          /\ lines["4752"] = 0 /\ lines["others"] = 0
        BY DEF Accounts, RegularizationLines
    <2>2. lines = [a \in Accounts |-> lines[a]]
        BY DEF RegularizationLines
    <2> HIDE DEF lines
    <2>3. /\ lines["6"] \in Int /\ lines["630"] \in Int /\ lines["7"] \in Int
          /\ lines["1-5"] \in Int /\ lines["129"] \in Int /\ lines["4752"] \in Int
          /\ lines["others"] \in Int
        BY <1>1, <2>1
    <2>4. whole => Total(lines) = 0
        BY <1>1, <1>2, <2>1 DEF Total
    <2>5. lines \in Lines
        BY <2>2, <2>3, LinesAre
    <2> QED
        BY <2>4, <2>5 DEF lines
<1>4. /\ ClosingLines(balance, tax) \in Lines
      /\ Reversed(ClosingLines(balance, tax)) \in Lines
      /\ whole => /\ Total(ClosingLines(balance, tax)) = 0
                  /\ Total(Reversed(ClosingLines(balance, tax))) = 0
    <2> DEFINE lines == ClosingLines(balance, tax)
               back == Reversed(lines)
    <2>1. /\ lines["6"] = 0 /\ lines["630"] = 0 /\ lines["7"] = 0
          /\ lines["1-5"] = -balance["1-5"]
          /\ lines["4752"] = -balance["4752"] + Due(tax)
          /\ lines["129"] = -balance["129"] - balance["7"] - balance["6"]
                                - balance["630"] - tax
          /\ lines["others"] = 0
        BY DEF Accounts, ClosingLines
    <2>2. lines = [a \in Accounts |-> lines[a]] /\ back = [a \in Accounts |-> back[a]]
        BY DEF ClosingLines, Reversed
    <2>3. \A a \in Accounts : back[a] = -lines[a]
        BY DEF Reversed
    <2> HIDE DEF lines, back
    <2>4. /\ lines["6"] \in Int /\ lines["630"] \in Int /\ lines["7"] \in Int
          /\ lines["1-5"] \in Int /\ lines["129"] \in Int /\ lines["4752"] \in Int
          /\ lines["others"] \in Int
        BY <1>1, <2>1
    <2>5. /\ back["6"] = -lines["6"] /\ back["630"] = -lines["630"]
          /\ back["7"] = -lines["7"] /\ back["1-5"] = -lines["1-5"]
          /\ back["129"] = -lines["129"] /\ back["4752"] = -lines["4752"]
          /\ back["others"] = -lines["others"]
        BY <2>3 DEF Accounts
    <2>6. /\ back["6"] \in Int /\ back["630"] \in Int /\ back["7"] \in Int
          /\ back["1-5"] \in Int /\ back["129"] \in Int /\ back["4752"] \in Int
          /\ back["others"] \in Int
        <3>1. \A a \in Accounts : lines[a] \in Int
            BY <2>4 DEF Accounts
        <3>2. \A x \in Int : -x \in Int
            OBVIOUS
        <3>3. \A a \in Accounts : back[a] \in Int
            BY <2>3, <3>1, <3>2, Zenon
        <3> QED
            BY <3>3 DEF Accounts
    <2>7. ASSUME whole PROVE Total(lines) = 0
        <3>1. lines["4752"] = -balance["4752"] + tax
            BY <1>2, <2>1, <2>7
        <3>2. lines["1-5"] + lines["129"] + lines["4752"]
                  = -(balance["6"] + balance["630"] + balance["7"]
                         + balance["1-5"] + balance["129"] + balance["4752"])
            BY SMTT(30), <1>1, <2>1, <3>1
        <3>3. lines["1-5"] + lines["129"] + lines["4752"] = 0
            BY <1>2, <2>7, <3>2
        <3> QED
            BY <2>1, <2>4, <3>3 DEF Total
    <2>8. Total(lines) = 0 => Total(back) = 0
        BY <2>4, <2>5 DEF Total
    <2>9. lines \in Lines /\ back \in Lines
        BY <2>2, <2>4, <2>6, LinesAre
    <2> QED
        BY <2>7, <2>8, <2>9 DEF lines, back
<1> QED
    BY <1>3, <1>4 DEF whole

\* The tax is a number, below zero only if its rate is.
LEMMA Rounds ==
    ASSUME NEW n \in Int
    PROVE  /\ (n + 5000) \div 10000 \in Int
           /\ n >= 0 => (n + 5000) \div 10000 >= 0
OBVIOUS

LEMMA Shares ==
    ASSUME NEW profit \in Int, NEW rate \in Int
    PROVE  /\ profit * rate \in Int /\ profit * (-rate) \in Int
           /\ profit > 0 /\ rate >= 0 => profit * rate >= 0
OBVIOUS

LEMMA TaxType ==
    ASSUME NEW balance \in Lines, NEW taxed, NEW rate \in Int
    PROVE  /\ TaxOn(balance, taxed, rate) \in Int
           /\ rate >= 0 => TaxOn(balance, taxed, rate) >= 0
<1>1. balance["7"] \in Int /\ balance["6"] \in Int /\ balance["630"] \in Int
    BY DEF Lines, Accounts
<1> DEFINE profit == -(balance["7"] + balance["6"] + balance["630"])
           more == profit * rate
           less == profit * (-rate)
<1>2. profit \in Int
    BY <1>1
<1>3. TaxOn(balance, taxed, rate) =
          IF taxed \/ profit <= 0 THEN 0
          ELSE IF rate < 0 THEN -((less + 5000) \div 10000)
                           ELSE (more + 5000) \div 10000
    BY DEF TaxOn
<1>4. more \in Int /\ less \in Int /\ (profit > 0 /\ rate >= 0 => more >= 0)
    <2> HIDE DEF profit
    <2> QED
        BY <1>2, Shares
<1> HIDE DEF profit, more, less
<1> DEFINE up == (more + 5000) \div 10000
           down == (less + 5000) \div 10000
<1>5. up \in Int /\ down \in Int /\ (more >= 0 => up >= 0)
    BY <1>4, Rounds
<1> HIDE DEF up, down
<1>6. TaxOn(balance, taxed, rate) =
          IF taxed \/ profit <= 0 THEN 0 ELSE IF rate < 0 THEN -down ELSE up
    BY <1>3 DEF up, down
<1> QED
    BY <1>2, <1>4, <1>5, <1>6

\* The balances of a year are lines; they balance if its entries do.
LEMMA BalanceType ==
    ASSUME Ledger, NEW y \in AllYears
    PROVE  Balance(y) \in Lines
<1>1. journal[y] \in Seq(EntrySet)
    BY DEF Ledger
<1>2. \A a \in Accounts : SumOf(journal[y], a) \in Int
    BY <1>1, SumType
<1> QED
    BY <1>2 DEF Balance, Lines

LEMMA BalanceBalances ==
    ASSUME Ledger, DoubleEntry, NEW y \in AllYears, Unbroken(y, leftOut)
    PROVE  Total(Balance(y)) = 0
<1>1. journal[y] \in Seq(EntrySet) /\ y \in DOMAIN journal
    BY DEF Ledger
<1>2. \A i \in DOMAIN journal[y] : journal[y][i] \in Balanced
    <2> SUFFICES ASSUME NEW i \in DOMAIN journal[y] PROVE journal[y][i] \in Balanced
        OBVIOUS
    <2>1. journal[y][i] \in EntrySet
        BY <1>1
    <2>2. Total(journal[y][i].lines) = 0
        BY <1>1, DoubleIs DEF Even
    <2> QED
        BY <2>1, <2>2 DEF Balanced
<1>3. journal[y] \in Seq(Balanced)
    <2>1. /\ Len(journal[y]) \in Nat /\ DOMAIN journal[y] = 1..Len(journal[y])
          /\ journal[y] = [i \in 1..Len(journal[y]) |-> journal[y][i]]
        BY <1>1
    <2>2. journal[y] \in [1..Len(journal[y]) -> Balanced]
        BY <1>2, <2>1
    <2> QED
        BY <2>1, <2>2
<1> QED
    BY <1>3, TotalOfSums DEF Balance

\* Two entries, one after the other.
LEMMA AppendTwo ==
    ASSUME NEW S, NEW s \in Seq(S), NEW a \in S, NEW b \in S
    PROVE  s \o <<a, b>> = Append(Append(s, a), b)
<1> DEFINE t == <<a, b>>
           u == Append(Append(s, a), b)
<1>1. t \in Seq(S) /\ Len(t) = 2 /\ t[1] = a /\ t[2] = b
    OBVIOUS
<1>2. /\ u \in Seq(S) /\ Len(u) = Len(s) + 2 /\ Len(s) \in Nat
      /\ \A i \in 1..Len(s) : u[i] = s[i]
      /\ u[Len(s) + 1] = a /\ u[Len(s) + 2] = b
    <2>1. Append(s, a) \in Seq(S) /\ Len(Append(s, a)) = Len(s) + 1
          /\ \A i \in 1..Len(s) : Append(s, a)[i] = s[i]
          /\ Append(s, a)[Len(s) + 1] = a
        OBVIOUS
    <2> QED
        BY <2>1
<1> HIDE DEF t, u
<1>3. /\ s \o t \in Seq(S) /\ Len(s \o t) = Len(s) + 2
      /\ \A i \in 1..(Len(s) + 2) :
             (s \o t)[i] = IF i <= Len(s) THEN s[i] ELSE t[i - Len(s)]
    <2>1. /\ s \o t \in Seq(S) /\ Len(s \o t) = Len(s) + Len(t)
          /\ \A i \in 1..(Len(s) + Len(t)) :
                 (s \o t)[i] = IF i <= Len(s) THEN s[i] ELSE t[i - Len(s)]
        BY <1>1, ConcatProperties
    <2> QED
        BY <1>1, <2>1
<1>4. \A i \in 1..(Len(s) + 2) : (s \o t)[i] = u[i]
    <2> SUFFICES ASSUME NEW i \in 1..(Len(s) + 2) PROVE (s \o t)[i] = u[i]
        OBVIOUS
    <2>1. CASE i \in 1..Len(s)
        BY <1>2, <1>3, <2>1
    <2>2. CASE i = Len(s) + 1
        <3>1. i - Len(s) = 1 /\ ~(i <= Len(s))
            BY <1>2, <2>2
        <3> QED
            BY <1>1, <1>2, <1>3, <2>2, <3>1
    <2>3. CASE i = Len(s) + 2
        <3>1. i - Len(s) = 2 /\ ~(i <= Len(s))
            BY <1>2, <2>3
        <3> QED
            BY <1>1, <1>2, <1>3, <2>3, <3>1
    <2>4. i \in 1..Len(s) \/ i = Len(s) + 1 \/ i = Len(s) + 2
        BY <1>2
    <2> QED
        BY <2>1, <2>2, <2>3, <2>4
<1>5. s \o t = u
    BY <1>2, <1>3, <1>4, SeqEqual
<1> QED
    BY <1>5 DEF t, u

\* The closing of year y appends the tax, if there is any, the regularization
\* and the closing entry, and the opening to the next year.
ClosesWith(y, tax, balance, s, taxEntry, r, c, o) ==
    /\ y = loop.year /\ balance = loop.balance /\ loop.balance # None
    /\ loop # None /\ (loop.rate >= 0 => tax >= 0)
    /\ taxEntry.source = "tax" /\ taxEntry.lines = TaxLines(tax)
    /\ r.source = "regularization" /\ r.lines = RegularizationLines(balance, tax)
    /\ c.source = "closing" /\ c.lines = ClosingLines(balance, tax)
    /\ o.source = "opening" /\ o.lines = Reversed(ClosingLines(balance, tax))
    /\ ~(tax > 0) => s = journal[y]
    /\ tax > 0 => s = Append(journal[y], taxEntry)
    /\ journal' = [journal EXCEPT ![y] = Append(Append(s, r), c),
                                  ![y + 1] = Append(@, o)]
    /\ closed' = closed \cup {y}
    /\ leftOut' = IF tax < 0 \/ balance["others"] # 0 THEN leftOut \cup {y}
                                                     ELSE leftOut

LEMMA CloseYearIs ==
    ASSUME IInv, Ledger, CloseYear
    PROVE  \E y \in Years, tax \in Int, balance \in Lines,
              s \in Seq(EntrySet), taxEntry \in EntrySet,
              r \in EntrySet, c \in EntrySet, o \in EntrySet :
               ClosesWith(y, tax, balance, s, taxEntry, r, c, o)
<1> DEFINE y == loop.year
           balance == loop.balance
           tax == TaxOn(balance, loop.taxed, loop.rate)
           n == NextNumber(y) + (IF tax > 0 THEN 1 ELSE 0)
           taxEntry == Entry(NextNumber(y), "tax", TaxLines(tax))
           r == Entry(n, "regularization", RegularizationLines(balance, tax))
           c == Entry(n + 1, "closing", ClosingLines(balance, tax))
           o == Entry(NextNumber(y + 1), "opening", Reversed(ClosingLines(balance, tax)))
           s == IF tax > 0 THEN Append(journal[y], taxEntry) ELSE journal[y]
<1>1. /\ y \in Years /\ balance \in Lines /\ loop.rate \in Int
      /\ loop # None /\ loop.balance # None
    BY DEF CloseYear, Ledger
<1>2. tax \in Int /\ (loop.rate >= 0 => tax >= 0)
    BY <1>1, TaxType
<1>3. y \in AllYears /\ y + 1 \in AllYears /\ y # y + 1
    BY <1>1, DocumentType DEF Years
<1>4. /\ journal' = [journal EXCEPT
             ![y] = @ \o (IF tax > 0 THEN <<taxEntry>> ELSE <<>>) \o <<r, c>>,
             ![y + 1] = Append(@, o)]
      /\ closed' = closed \cup {y}
      /\ leftOut' = IF tax < 0 \/ balance["others"] # 0 THEN leftOut \cup {y}
                                                       ELSE leftOut
    BY DEF CloseYear
<1> HIDE DEF y, balance, tax
<1>5. NextNumber(y) \in Nat /\ NextNumber(y + 1) \in Nat
    <2>1. ASSUME NEW z \in AllYears PROVE NextNumber(z) \in Nat
        <3>1. NextNumber(z) = Len(journal[z]) + 1 /\ Len(journal[z]) \in Nat
            BY NextNumberIs DEF IInv, Shape
        <3> QED
            BY <3>1
    <2> QED
        BY <1>3, <2>1
<1>6. n \in Nat /\ n + 1 \in Nat
    BY <1>2, <1>5
<1>7. {"tax", "regularization", "closing", "opening"} \subseteq Sources
    BY DEF Sources
<1> HIDE DEF n
<1>8. taxEntry \in EntrySet /\ r \in EntrySet /\ c \in EntrySet /\ o \in EntrySet
    <2>1. /\ TaxLines(tax) \in Lines
          /\ RegularizationLines(balance, tax) \in Lines
          /\ ClosingLines(balance, tax) \in Lines
          /\ Reversed(ClosingLines(balance, tax)) \in Lines
        BY <1>1, <1>2, TaxBalances, ClosingBalances
    <2>2. taxEntry \in EntrySet
        BY <1>5, <1>7, <2>1, EntryTyped
    <2>3. r \in EntrySet /\ c \in EntrySet
        BY <1>6, <1>7, <2>1, EntryTyped
    <2>4. o \in EntrySet
        BY <1>5, <1>7, <2>1, EntryTyped
    <2> QED
        BY <2>2, <2>3, <2>4
<1>9. /\ taxEntry.source = "tax" /\ taxEntry.lines = TaxLines(tax)
      /\ r.source = "regularization" /\ r.lines = RegularizationLines(balance, tax)
      /\ c.source = "closing" /\ c.lines = ClosingLines(balance, tax)
      /\ o.source = "opening" /\ o.lines = Reversed(ClosingLines(balance, tax))
    BY DEF Entry
<1> HIDE DEF taxEntry, r, c, o
<1>10. journal[y] \in Seq(EntrySet) /\ s \in Seq(EntrySet)
    BY <1>3, <1>8 DEF Ledger
<1>11. journal[y] \o (IF tax > 0 THEN <<taxEntry>> ELSE <<>>) = s
    <2>1. CASE tax > 0
        BY <1>8, <1>10, <2>1, AppendIsConcat
    <2>2. CASE ~(tax > 0)
        BY <1>10, <2>2
    <2> QED
        BY <2>1, <2>2
<1>12. s \o <<r, c>> = Append(Append(s, r), c)
    BY <1>8, <1>10, AppendTwo
<1>13. journal' = [journal EXCEPT ![y] = Append(Append(s, r), c),
                                  ![y + 1] = Append(@, o)]
    BY <1>4, <1>11, <1>12
<1>14. /\ ~(tax > 0) => s = journal[y]
       /\ tax > 0 => s = Append(journal[y], taxEntry)
    BY <1>2
<1> HIDE DEF s
<1>15. y = loop.year /\ balance = loop.balance
    BY DEF y, balance
<1>16. ClosesWith(y, tax, balance, s, taxEntry, r, c, o)
    BY <1>1, <1>2, <1>4, <1>9, <1>13, <1>14, <1>15 DEF ClosesWith
<1> QED
    BY <1>1, <1>2, <1>8, <1>10, <1>15, <1>16

\* record_entry appends one entry, with its source and lines.
LEMMA InsertIs ==
    ASSUME IInv, journal \in [AllYears -> Seq(EntrySet)], NEW y \in AllYears,
           NEW source \in Sources, NEW lines \in Lines, Insert(y, source, lines)
    PROVE  \E e \in EntrySet :
               /\ e.source = source /\ e.lines = lines
               /\ journal' = [journal EXCEPT ![y] = Append(@, e)]
<1> DEFINE e == Entry(NextNumber(y), source, lines)
<1>1. NextNumber(y) \in Nat
    <2>1. NextNumber(y) = Len(journal[y]) + 1 /\ Len(journal[y]) \in Nat
        BY NextNumberIs DEF IInv, Shape
    <2> QED
        BY <2>1
<1>2. e \in EntrySet
    BY <1>1, EntryTyped
<1>3. e.source = source /\ e.lines = lines
    BY DEF Entry
<1>4. journal' = [journal EXCEPT ![y] = Append(@, e)]
    BY DEF Insert
<1> HIDE DEF e
<1> QED
    BY <1>2, <1>3, <1>4

\* What an entry in one year, or a closing in two, leaves of the journal.
LEMMA OneYear ==
    ASSUME journal \in [AllYears -> Seq(EntrySet)], NEW y \in AllYears,
           NEW e \in EntrySet, journal' = [journal EXCEPT ![y] = Append(@, e)]
    PROVE  /\ journal' \in [AllYears -> Seq(EntrySet)]
           /\ journal'[y] = Append(journal[y], e)
           /\ \A z \in AllYears : z # y => journal'[z] = journal[z]
<1>1. journal[y] \in Seq(EntrySet) /\ Append(journal[y], e) \in Seq(EntrySet)
    OBVIOUS
<1> QED
    BY <1>1

LEMMA TwoYears ==
    ASSUME journal \in [AllYears -> Seq(EntrySet)], NEW y \in Years,
           NEW s \in Seq(EntrySet), NEW r \in EntrySet, NEW c \in EntrySet,
           NEW o \in EntrySet,
           journal' = [journal EXCEPT ![y] = Append(Append(s, r), c),
                                      ![y + 1] = Append(@, o)]
    PROVE  /\ y \in AllYears /\ y + 1 \in AllYears /\ y # y + 1
           /\ journal' \in [AllYears -> Seq(EntrySet)]
           /\ journal'[y] = Append(Append(s, r), c)
           /\ journal'[y + 1] = Append(journal[y + 1], o)
           /\ \A z \in AllYears : z # y /\ z # y + 1 => journal'[z] = journal[z]
<1>1. y \in AllYears /\ y + 1 \in AllYears /\ y # y + 1
    BY DocumentType DEF Years
<1>2. /\ journal[y + 1] \in Seq(EntrySet)
      /\ Append(journal[y + 1], o) \in Seq(EntrySet)
      /\ Append(Append(s, r), c) \in Seq(EntrySet)
    BY <1>1
<1> DEFINE a == Append(Append(s, r), c)
           b == Append(journal[y + 1], o)
<1>3. journal' = [journal EXCEPT ![y] = a, ![y + 1] = b]
    BY <1>1
<1> HIDE DEF a, b
<1>4. /\ journal' \in [AllYears -> Seq(EntrySet)]
      /\ journal'[y] = a /\ journal'[y + 1] = b
      /\ \A z \in AllYears : z # y /\ z # y + 1 => journal'[z] = journal[z]
    BY <1>1, <1>2, <1>3 DEF a, b
<1> QED
    BY <1>1, <1>4 DEF a, b

\* What record_entry or the closing leaves of the journal.
LEMMA InsertLedger ==
    ASSUME IInv, Ledger, NEW y \in AllYears,
           NEW source \in Sources, NEW lines \in Lines, Insert(y, source, lines)
    PROVE  journal' \in [AllYears -> Seq(EntrySet)]
<1>1. PICK e \in EntrySet : journal' = [journal EXCEPT ![y] = Append(@, e)]
    BY InsertIs DEF Ledger
<1> QED
    BY <1>1, OneYear DEF Ledger

LEMMA CloseYearLedger ==
    ASSUME IInv, Ledger, CloseYear
    PROVE  journal' \in [AllYears -> Seq(EntrySet)]
<1>1. PICK y \in Years, tax \in Int, balance \in Lines,
           s \in Seq(EntrySet), taxEntry \in EntrySet,
           r \in EntrySet, c \in EntrySet, o \in EntrySet :
               ClosesWith(y, tax, balance, s, taxEntry, r, c, o)
    BY CloseYearIs
<1> QED
    BY <1>1, TwoYears DEF Ledger, ClosesWith
-----------------------------------------------------------------------------
(***************************************************************************)
(* How many entries a document has in its year.                            *)
(***************************************************************************)

\* The places of the entries of a source.
OfIn(entries, source) == {i \in DOMAIN entries : entries[i].source = source}

\* They are finitely many.
LEMMA OfFinite ==
    ASSUME NEW entries \in Seq(EntrySet), NEW d
    PROVE  IsFiniteSet(OfIn(entries, d)) /\ Cardinality(OfIn(entries, d)) \in Nat
<1>1. Len(entries) \in Nat /\ OfIn(entries, d) \subseteq 1..Len(entries)
    BY DEF OfIn
<1>2. IsFiniteSet(1..Len(entries))
    BY <1>1, FS_Interval
<1> QED
    BY <1>1, <1>2, FS_Subset, FS_CardinalityType

\* Another entry is one more for its own source.
LEMMA OfAppend ==
    ASSUME NEW entries \in Seq(EntrySet), NEW e \in EntrySet, NEW d
    PROVE  /\ e.source = d => Cardinality(OfIn(Append(entries, e), d))
                                  = Cardinality(OfIn(entries, d)) + 1
           /\ e.source # d => OfIn(Append(entries, e), d) = OfIn(entries, d)
<1> DEFINE N == Len(entries)
           more == Append(entries, e)
<1>1. /\ N \in Nat /\ DOMAIN entries = 1..N /\ DOMAIN more = 1..(N + 1)
      /\ \A i \in 1..N : more[i] = entries[i]
      /\ more[N + 1] = e
    OBVIOUS
<1>2. 1..(N + 1) = 1..N \cup {N + 1} /\ N + 1 \notin 1..N
    BY <1>1
<1> HIDE DEF more, N
<1>3. CASE e.source = d
    <2>1. OfIn(more, d) = OfIn(entries, d) \cup {N + 1}
        BY <1>1, <1>2, <1>3 DEF OfIn
    <2>2. N + 1 \notin OfIn(entries, d)
        BY <1>1, <1>2 DEF OfIn
    <2>3. Cardinality(OfIn(more, d)) = Cardinality(OfIn(entries, d)) + 1
        BY <2>1, <2>2, OfFinite, FS_AddElement
    <2> QED
        BY <1>3, <2>3 DEF more
<1>4. CASE e.source # d
    <2>1. OfIn(more, d) = OfIn(entries, d)
        BY <1>1, <1>2, <1>4 DEF OfIn
    <2> QED
        BY <1>4, <2>1 DEF more
<1> QED
    BY <1>3, <1>4

\* The entries of a document in its year.
Booked(d) == Cardinality(Of(d, Document[d].year))

\* In terms of the entries of its year.
LEMMA BookedIs ==
    ASSUME NEW d
    PROVE  /\ Booked(d) = Cardinality(OfIn(journal[Document[d].year], d))
           /\ Booked(d)' = Cardinality(OfIn(journal'[Document[d].year], d))
BY DEF Booked, Of, OfIn

LEMMA BookedType ==
    ASSUME Ledger, NEW d \in Documents
    PROVE  Booked(d) \in Nat
<1>1. Document[d].year \in AllYears
    BY DocumentType
<1>2. journal[Document[d].year] \in Seq(EntrySet)
    BY <1>1 DEF Ledger
<1> QED
    BY <1>2, OfFinite, BookedIs

\* An entry counts for its own document, and for no other.
LEMMA InsertCounts ==
    ASSUME IInv, Ledger, NEW y \in AllYears,
           NEW source \in Sources, NEW lines \in Lines, Insert(y, source, lines),
           NEW d \in Documents
    PROVE  /\ source # d => Booked(d)' = Booked(d)
           /\ source = d /\ y = Document[d].year => Booked(d)' = Booked(d) + 1
<1> DEFINE z == Document[d].year
<1>1. z \in AllYears
    BY DocumentType
<1>2. PICK e \in EntrySet :
          e.source = source /\ journal' = [journal EXCEPT ![y] = Append(@, e)]
    BY InsertIs DEF Ledger
<1>3. /\ journal'[y] = Append(journal[y], e)
      /\ z # y => journal'[z] = journal[z]
      /\ journal[z] \in Seq(EntrySet)
    BY <1>1, <1>2, OneYear DEF Ledger
<1>4. /\ Booked(d) = Cardinality(OfIn(journal[z], d))
      /\ Booked(d)' = Cardinality(OfIn(journal'[z], d))
    BY BookedIs
<1> HIDE DEF z
<1>5. CASE z = y
    BY <1>2, <1>3, <1>4, <1>5, OfAppend DEF z
<1>6. CASE z # y
    BY <1>3, <1>4, <1>6 DEF z
<1> QED
    BY <1>5, <1>6

\* The entries of the closing are of no document.
LEMMA CloseYearCounts ==
    ASSUME IInv, Ledger, CloseYear, NEW d \in Documents
    PROVE  Booked(d)' = Booked(d)
<1> DEFINE z == Document[d].year
<1>1. PICK y \in Years, tax \in Int, balance \in Lines,
           s \in Seq(EntrySet), taxEntry \in EntrySet,
           r \in EntrySet, c \in EntrySet, o \in EntrySet :
               ClosesWith(y, tax, balance, s, taxEntry, r, c, o)
    BY CloseYearIs
<1>2. z \in AllYears
    BY DocumentType
<1>3. /\ taxEntry.source # d /\ r.source # d /\ c.source # d /\ o.source # d
    BY <1>1, BooksAssumption DEF ClosesWith
<1>4. /\ y \in AllYears /\ y + 1 \in AllYears /\ y # y + 1
      /\ journal'[y] = Append(Append(s, r), c)
      /\ journal'[y + 1] = Append(journal[y + 1], o)
      /\ z # y /\ z # y + 1 => journal'[z] = journal[z]
    <2>1. journal' = [journal EXCEPT ![y] = Append(Append(s, r), c),
                                     ![y + 1] = Append(@, o)]
        BY <1>1 DEF ClosesWith
    <2>2. /\ y \in AllYears /\ y + 1 \in AllYears /\ y # y + 1
          /\ journal'[y] = Append(Append(s, r), c)
          /\ journal'[y + 1] = Append(journal[y + 1], o)
          /\ \A x \in AllYears : x # y /\ x # y + 1 => journal'[x] = journal[x]
        <3> HIDE DEF z
        <3> QED
            BY <2>1, TwoYears DEF Ledger
    <2> QED
        BY <1>2, <2>2
<1>5. /\ Booked(d) = Cardinality(OfIn(journal[z], d))
      /\ Booked(d)' = Cardinality(OfIn(journal'[z], d))
    BY BookedIs
<1>6. journal[y] \in Seq(EntrySet) /\ journal[y + 1] \in Seq(EntrySet)
    BY <1>4 DEF Ledger
<1>7. OfIn(s, d) = OfIn(journal[y], d)
    <2>1. CASE ~(tax > 0)
        BY <1>1, <2>1 DEF ClosesWith
    <2>2. CASE tax > 0
        <3>1. s = Append(journal[y], taxEntry)
            BY <1>1, <2>2 DEF ClosesWith
        <3> QED
            BY <1>3, <1>6, <3>1, OfAppend
    <2> QED
        BY <2>1, <2>2
<1>8. OfIn(journal'[y], d) = OfIn(s, d)
    <2>1. OfIn(Append(s, r), d) = OfIn(s, d)
        BY <1>3, OfAppend
    <2>2. Append(s, r) \in Seq(EntrySet)
        OBVIOUS
    <2>3. OfIn(Append(Append(s, r), c), d) = OfIn(Append(s, r), d)
        BY <1>3, <2>2, OfAppend
    <2> QED
        BY <1>4, <2>1, <2>3
<1>9. OfIn(journal'[y + 1], d) = OfIn(journal[y + 1], d)
    BY <1>3, <1>4, <1>6, OfAppend
<1> HIDE DEF z
<1>10. OfIn(journal'[z], d) = OfIn(journal[z], d)
    <2>1. CASE z = y
        BY <1>7, <1>8, <2>1
    <2>2. CASE z = y + 1
        BY <1>9, <2>2
    <2>3. CASE z # y /\ z # y + 1
        BY <1>4, <2>3
    <2> QED
        BY <2>1, <2>2, <2>3
<1> QED
    BY <1>5, <1>10

LEMMA SameCounts ==
    ASSUME UNCHANGED journal, NEW d
    PROVE  Booked(d)' = Booked(d)
BY BookedIs
-----------------------------------------------------------------------------
(***************************************************************************)
(* Invariants of the ledger and of the documents, step by step.            *)
(***************************************************************************)

\* The rest of the type.
Kept ==
    /\ closed \subseteq Years /\ leftOut \subseteq closed
    /\ \A p \in Proposals : entryOf[p] # None <=> status[p] = "APPROVED"
    /\ linked \subseteq Movements
    /\ torn \in [Movements -> 0..MaxTorn]

\* The threads that have an invoice of proposal p and no entry yet.
Writing(p) == {t \in Threads : /\ task[t] # None /\ task[t].proposal = p
                               /\ task[t].at \in {"test", "record"}}

\* Threads with an invoice and no entry are reckoned with the entries.
Invoiced ==
    \A p \in Proposals : Booked(p) + Cardinality(Writing(p)) <= invoices[p]

\* All of it, inductive on top of IInv.
LInv == /\ IInv /\ Ledger /\ Tested /\ DoubleEntry /\ Kept
        /\ BookedOnceButFailures /\ Invoiced

\* What the writers insert.
LEMMA RecordIs ==
    ASSUME IInv, Ledger, NEW t \in Threads, Record(t)
    PROVE  \E p \in Proposals :
               /\ task[t] # None /\ task[t].proposal = p /\ task[t].at = "record"
               /\ Document[p].year \in AllYears /\ Document[p].lines \in Lines
               /\ p \in Sources /\ p \in Documents
               /\ Insert(Document[p].year, p, Document[p].lines)
               /\ task' = [task EXCEPT ![t] =
                      [proposal |-> p, at |-> "settle",
                       number |-> NextNumber(Document[p].year)]]
               /\ UNCHANGED <<closed, leftOut, documents, loop>>
<1> DEFINE p == task[t].proposal
<1>1. task[t] # None /\ task[t].at = "record" /\ p \in Proposals
    BY DEF Record, At, IInv, Shape
<1>3. /\ Insert(Document[p].year, p, Document[p].lines)
      /\ task' = [task EXCEPT ![t] =
             [proposal |-> p, at |-> "settle",
              number |-> NextNumber(Document[p].year)]]
      /\ UNCHANGED <<closed, leftOut, documents, loop>>
    BY DEF Record, Goto
<1> HIDE DEF p
<1>4. p \in Documents /\ p \in Sources /\ Document[p].lines \in Lines
    BY <1>1, DocumentLines DEF Documents
<1>5. Document[p].year \in AllYears
    BY <1>1, ProposalYear
<1> QED
    BY <1>1, <1>3, <1>4, <1>5 DEF p

LEMMA ReconcileIs ==
    ASSUME NEW m \in Movements, Reconcile(m)
    PROVE  /\ m \in Documents /\ m \in Sources
           /\ Document[m].year \in AllYears /\ Document[m].lines \in Lines
           /\ Total(Document[m].lines) = 0
           /\ Insert(Document[m].year, m, Document[m].lines)
<1>1. m \in Documents
    BY DEF Documents
<1>2. Document[m].year \in AllYears /\ m \in Sources /\ Document[m].lines \in Lines
    BY <1>1, DocumentLines, DocumentType
<1>3. Total(Document[m].lines) = 0
    BY DEF Reconcile, Accepts
<1> QED
    BY <1>1, <1>2, <1>3 DEF Reconcile

LEMMA DepreciationIs ==
    ASSUME Ledger, RecordDepreciation
    PROVE  /\ loop.year \in AllYears /\ "depreciation" \in Sources
           /\ \E lines \in Lines : Total(lines) = 0 /\ Insert(loop.year, "depreciation", lines)
<1>1. loop.year \in AllYears
    BY DocumentType DEF RecordDepreciation, Ledger
<1> QED
    BY <1>1, DepreciationBalances DEF RecordDepreciation, Sources

\* Every step keeps the types of the ledger.
LEMMA LedgerNext ==
    ASSUME IInv, Ledger, [Next]_vars
    PROVE  Ledger'
<1> USE DEF IInv
<1>1. ASSUME NEW t \in Threads, NEW p \in Proposals, Approve(t, p)
      PROVE  Ledger'
    BY <1>1 DEF Approve, Ledger
<1>2. ASSUME NEW t \in Threads, Test(t) \/ Settle(t) \/ Abort(t)
      PROVE  Ledger'
    <2>1. UNCHANGED <<journal, loop>>
        BY <1>2 DEF Test, Settle, Abort
    <2> QED
        BY <2>1 DEF Ledger
<1>3. ASSUME NEW t \in Threads, Record(t)
      PROVE  Ledger'
    <2>1. PICK p \in Proposals :
              /\ Document[p].year \in AllYears /\ Document[p].lines \in Lines
              /\ p \in Sources
              /\ Insert(Document[p].year, p, Document[p].lines)
              /\ UNCHANGED loop
        BY <1>3, RecordIs
    <2>2. journal' \in [AllYears -> Seq(EntrySet)]
        BY <2>1, InsertLedger
    <2> QED
        BY <2>1, <2>2 DEF Ledger
<1>4. ASSUME NEW p \in Proposals, Reject(p)
      PROVE  Ledger'
    BY <1>4 DEF Reject, Ledger
<1>5. ASSUME NEW m \in Movements, Reconcile(m)
      PROVE  Ledger'
    <2>1. journal' \in [AllYears -> Seq(EntrySet)]
        BY <1>5, ReconcileIs, InsertLedger
    <2>2. UNCHANGED loop
        BY <1>5 DEF Reconcile
    <2> QED
        BY <2>1, <2>2 DEF Ledger
<1>6. ASSUME NEW y \in Years, Depreciate(y)
      PROVE  Ledger'
    <2>1. /\ loop' = [year |-> y, balance |-> None, taxed |-> FALSE, rate |-> 0]
          /\ UNCHANGED journal
        BY <1>6 DEF Depreciate
    <2> QED
        BY <2>1 DEF Ledger
<1>7. ASSUME NEW y \in Years, NEW rate \in Rates, Simulate(y, rate)
      PROVE  Ledger'
    <2>1. Balance(y) \in Lines /\ Taxed(y) \in BOOLEAN /\ rate \in Int
        BY BalanceType, DocumentType, BooksAssumption DEF Taxed
    <2>2. /\ loop' = [year |-> y, balance |-> Balance(y), taxed |-> Taxed(y),
                     rate |-> rate]
          /\ UNCHANGED journal
        BY <1>7 DEF Simulate
    <2> QED
        BY <2>1, <2>2 DEF Ledger
<1>8. CASE RecordDepreciation
    <2>1. journal' \in [AllYears -> Seq(EntrySet)]
        BY <1>8, DepreciationIs, InsertLedger
    <2> QED
        BY <1>8, <2>1 DEF RecordDepreciation, Ledger
<1>9. CASE CloseYear
    <2>1. journal' \in [AllYears -> Seq(EntrySet)]
        BY <1>9, CloseYearLedger
    <2> QED
        BY <1>9, <2>1 DEF CloseYear, Ledger
<1>10. CASE LoopAbort
    BY <1>10 DEF LoopAbort, Ledger
<1>11. CASE UNCHANGED vars
    BY <1>11 DEF vars, Ledger
<1> QED
    BY <1>1, <1>2, <1>3, <1>4, <1>5, <1>6, <1>7, <1>8, <1>9, <1>10, <1>11 DEF Next

\* A thread goes on, and the loop does not; or the other way round.
LEMMA TaskTested ==
    ASSUME IInv, Tested, NEW t \in Threads, NEW v, task' = [task EXCEPT ![t] = v],
           v # None /\ v.at = "record" => Total(Document[v.proposal].lines) = 0,
           UNCHANGED <<loop, leftOut>>
    PROVE  Tested'
<1>1. \A u \in Threads : task'[u] = IF u = t THEN v ELSE task[u]
    BY DEF IInv, Shape
<1>2. ASSUME NEW u \in Threads, task'[u] # None, task'[u].at = "record"
      PROVE  Total(Document[task'[u].proposal].lines) = 0
    BY <1>1, <1>2 DEF Tested
<1>3. loop' # None /\ loop'.balance # None /\ Unbroken(loop'.year, leftOut') =>
          Total(loop'.balance) = 0
    BY DEF Tested
<1> QED
    BY <1>2, <1>3 DEF Tested

LEMMA LoopTested ==
    ASSUME Tested, UNCHANGED task,
           loop' # None /\ loop'.balance # None /\ Unbroken(loop'.year, leftOut') =>
               Total(loop'.balance) = 0
    PROVE  Tested'
BY DEF Tested

\* Every step keeps what threads and the loop know of lines.
LEMMA TestedNext ==
    ASSUME IInv, Ledger, Tested, DoubleEntry, [Next]_vars
    PROVE  Tested'
<1>1. ASSUME NEW t \in Threads, NEW p \in Proposals, Approve(t, p)
      PROVE  Tested'
    <2>1. /\ task' = [task EXCEPT ![t] = [proposal |-> p, at |-> "test", number |-> None]]
          /\ UNCHANGED <<loop, leftOut>>
        BY <1>1 DEF Approve, Goto
    <2> QED
        BY <2>1, TaskTested
<1>2. ASSUME NEW t \in Threads, Test(t)
      PROVE  Tested'
    <2> DEFINE p == task[t].proposal
    <2>1. UNCHANGED <<loop, leftOut>>
        BY <1>2 DEF Test
    <2>2. CASE Accepts(p)
        <3>1. /\ Total(Document[p].lines) = 0
              /\ task' = [task EXCEPT ![t] =
                     [proposal |-> p, at |-> "record",
                      number |-> NextNumber(Document[p].year)]]
            BY <1>2, <2>2 DEF Test, Goto, Accepts
        <3> QED
            BY <2>1, <3>1, TaskTested
    <2>3. CASE ~Accepts(p)
        <3>1. task' = [task EXCEPT ![t] = None]
            BY <1>2, <2>3 DEF Test
        <3> QED
            BY <2>1, <3>1, TaskTested
    <2> QED
        BY <2>2, <2>3
<1>3. ASSUME NEW t \in Threads, Record(t)
      PROVE  Tested'
    <2>1. PICK p \in Proposals :
              /\ task' = [task EXCEPT ![t] =
                     [proposal |-> p, at |-> "settle",
                      number |-> NextNumber(Document[p].year)]]
              /\ UNCHANGED <<loop, leftOut>>
        BY <1>3, RecordIs
    <2> QED
        BY <2>1, TaskTested
<1>4. ASSUME NEW t \in Threads, Settle(t) \/ Abort(t)
      PROVE  Tested'
    <2>1. task' = [task EXCEPT ![t] = None] /\ UNCHANGED <<loop, leftOut>>
        BY <1>4 DEF Settle, Abort
    <2> QED
        BY <2>1, TaskTested
<1>5. ASSUME \/ \E p \in Proposals : Reject(p)
             \/ \E m \in Movements : Reconcile(m)
             \/ UNCHANGED vars
      PROVE  Tested'
    <2>1. UNCHANGED <<task, loop, leftOut>>
        BY <1>5 DEF Reject, Reconcile, vars
    <2> QED
        BY <2>1 DEF Tested
<1>6. ASSUME NEW y \in Years, Depreciate(y)
      PROVE  Tested'
    <2>1. /\ loop' = [year |-> y, balance |-> None, taxed |-> FALSE, rate |-> 0]
          /\ UNCHANGED task
        BY <1>6 DEF Depreciate
    <2> QED
        BY <2>1, LoopTested
<1>7. ASSUME NEW y \in Years, NEW rate \in Rates, Simulate(y, rate)
      PROVE  Tested'
    <2>1. /\ loop'.year = y /\ loop'.balance = Balance(y)
          /\ UNCHANGED <<task, leftOut>>
        BY <1>7 DEF Simulate
    <2>2. Unbroken(y, leftOut) => Total(Balance(y)) = 0
        BY BalanceBalances, DocumentType
    <2> QED
        BY <2>1, <2>2, LoopTested
<1>8. CASE RecordDepreciation \/ CloseYear \/ LoopAbort
    <2>1. loop' = None /\ UNCHANGED task
        BY <1>8 DEF RecordDepreciation, CloseYear, LoopAbort
    <2> QED
        BY <2>1, LoopTested
<1> QED
    BY <1>1, <1>2, <1>3, <1>4, <1>5, <1>6, <1>7, <1>8 DEF Next

\* An entry that balances keeps the others even.
LEMMA InsertDouble ==
    ASSUME IInv, Ledger, DoubleEntry, NEW y \in AllYears,
           NEW source \in Sources, NEW lines \in Lines, Insert(y, source, lines),
           Total(lines) = 0, UNCHANGED leftOut
    PROVE  DoubleEntry'
<1>1. PICK e \in EntrySet :
          e.lines = lines /\ journal' = [journal EXCEPT ![y] = Append(@, e)]
    BY InsertIs DEF Ledger
<1>2. /\ journal'[y] = Append(journal[y], e)
      /\ \A z \in AllYears : z # y => journal'[z] = journal[z]
      /\ journal[y] \in Seq(EntrySet)
      /\ DOMAIN journal = AllYears /\ DOMAIN journal' = AllYears
    BY <1>1, OneYear DEF Ledger
<1> SUFFICES ASSUME NEW z \in AllYears, NEW i \in DOMAIN journal'[z]
             PROVE  Even(z, journal'[z][i], leftOut)
    BY <1>2, DoubleIs
<1>3. \A j \in DOMAIN journal[z] : Even(z, journal[z][j], leftOut)
    BY <1>2, DoubleIs
<1>4. CASE z # y
    BY <1>2, <1>3, <1>4
<1>5. CASE z = y /\ i \in DOMAIN journal[y]
    <2>1. journal'[z][i] = journal[z][i]
        BY <1>2, <1>5
    <2> QED
        BY <1>3, <1>5, <2>1
<1>6. CASE z = y /\ i \notin DOMAIN journal[y]
    <2>1. journal'[z][i] = e
        BY <1>2, <1>6
    <2> QED
        BY <1>1, <2>1 DEF Even
<1> QED
    BY <1>4, <1>5, <1>6

\* What was even stays so when more is left out.
LEMMA EvenMore ==
    ASSUME NEW y, NEW e, NEW left, NEW more, left \subseteq more, Even(y, e, left)
    PROVE  Even(y, e, more)
BY DEF Even, Unbroken

\* A sequence with one more element.
LEMMA AppendAll ==
    ASSUME NEW entries \in Seq(EntrySet), NEW e \in EntrySet, NEW y, NEW left,
           \A i \in DOMAIN entries : Even(y, entries[i], left), Even(y, e, left)
    PROVE  \A i \in DOMAIN Append(entries, e) : Even(y, Append(entries, e)[i], left)
<1> DEFINE more == Append(entries, e)
<1> SUFFICES ASSUME NEW i \in DOMAIN more PROVE Even(y, more[i], left)
    OBVIOUS
<1>1. CASE i \in DOMAIN entries
    <2>1. more[i] = entries[i]
        BY <1>1
    <2> QED
        BY <1>1, <2>1
<1>2. CASE i \notin DOMAIN entries
    <2>1. more[i] = e
        BY <1>2
    <2> QED
        BY <2>1
<1> QED
    BY <1>1, <1>2

\* The entries of a closing are even: they balance unless it, or a closing
\* before, leaves something out.
LEMMA CloseYearDouble ==
    ASSUME IInv, Ledger, Tested, DoubleEntry, Kept, CloseYear
    PROVE  DoubleEntry'
<1>1. PICK y \in Years, tax \in Int, balance \in Lines,
           s \in Seq(EntrySet), taxEntry \in EntrySet,
           r \in EntrySet, c \in EntrySet, o \in EntrySet :
               ClosesWith(y, tax, balance, s, taxEntry, r, c, o)
    BY CloseYearIs
<1> DEFINE left == leftOut'
<1>2. /\ y \in AllYears /\ y + 1 \in AllYears /\ y # y + 1 /\ y \in Int
      /\ journal'[y] = Append(Append(s, r), c)
      /\ journal'[y + 1] = Append(journal[y + 1], o)
      /\ \A z \in AllYears : z # y /\ z # y + 1 => journal'[z] = journal[z]
      /\ DOMAIN journal = AllYears /\ DOMAIN journal' = AllYears
    <2>1. journal' = [journal EXCEPT ![y] = Append(Append(s, r), c),
                                     ![y + 1] = Append(@, o)]
        BY <1>1 DEF ClosesWith
    <2>2. y \in Int
        BY DEF Years
    <2> QED
        BY <2>1, <2>2, TwoYears DEF Ledger
<1>3. journal[y] \in Seq(EntrySet) /\ journal[y + 1] \in Seq(EntrySet)
    BY <1>2 DEF Ledger
<1>4. left = IF tax < 0 \/ balance["others"] # 0 THEN leftOut \cup {y} ELSE leftOut
    BY <1>1 DEF ClosesWith
<1>5. leftOut \subseteq left /\ left \subseteq Int
    <2>1. leftOut \subseteq Int
        BY DEF Kept, Years
    <2> QED
        BY <1>2, <1>4, <2>1
<1> HIDE DEF left
<1>6. \A z \in AllYears : \A i \in DOMAIN journal[z] : Even(z, journal[z][i], left)
    <2>1. \A z \in AllYears : \A i \in DOMAIN journal[z] : Even(z, journal[z][i], leftOut)
        BY <1>2, DoubleIs
    <2> QED
        BY <1>5, <2>1, EvenMore
<1>7. /\ r.source = "regularization" /\ r.lines = RegularizationLines(balance, tax)
      /\ c.source = "closing" /\ c.lines = ClosingLines(balance, tax)
      /\ o.source = "opening" /\ o.lines = Reversed(ClosingLines(balance, tax))
      /\ taxEntry.lines = TaxLines(tax)
      /\ y = loop.year /\ balance = loop.balance /\ loop # None /\ loop.balance # None
    BY <1>1 DEF ClosesWith
<1>8. /\ Even(y, r, left) /\ Even(y, c, left) /\ Even(y + 1, o, left)
    <2>1. CASE Unbroken(y, left)
        <3>1. ~(tax < 0 \/ balance["others"] # 0) /\ left = leftOut
            <4>1. y \notin left
                BY <1>2, <2>1 DEF Unbroken
            <4> QED
                BY <1>4, <4>1
        <3>2. Total(balance) = 0
            BY <1>7, <2>1, <3>1 DEF Tested
        <3>3. tax >= 0 /\ balance["others"] = 0
            BY <3>1
        <3>4. Total(r.lines) = 0 /\ Total(c.lines) = 0 /\ Total(o.lines) = 0
            BY <1>7, <3>2, <3>3, ClosingBalances
        <3> QED
            BY <3>4 DEF Even
    <2>2. CASE ~Unbroken(y, left)
        <3>1. ~Unbroken(y + 1, left)
            <4>1. PICK z \in left : z <= y
                BY <2>2 DEF Unbroken
            <4>2. z <= y + 1
                BY <1>2, <1>5, <4>1
            <4> QED
                BY <4>1, <4>2 DEF Unbroken
        <3> QED
            BY <1>7, <2>2, <3>1 DEF Even
    <2> QED
        BY <2>1, <2>2
<1>9. \A i \in DOMAIN s : Even(y, s[i], left)
    <2>1. CASE ~(tax > 0)
        <3>1. s = journal[y]
            BY <1>1, <2>1 DEF ClosesWith
        <3> QED
            BY <1>2, <1>6, <3>1
    <2>2. CASE tax > 0
        <3>1. s = Append(journal[y], taxEntry)
            BY <1>1, <2>2 DEF ClosesWith
        <3>2. Even(y, taxEntry, left)
            BY <1>7, TaxBalances DEF Even
        <3>3. \A i \in DOMAIN journal[y] : Even(y, journal[y][i], left)
            BY <1>2, <1>6
        <3> QED
            BY <1>3, <3>1, <3>2, <3>3, AppendAll
    <2> QED
        BY <2>1, <2>2
<1>10. \A i \in DOMAIN journal'[y] : Even(y, journal'[y][i], left)
    <2>1. /\ Append(s, r) \in Seq(EntrySet)
          /\ \A i \in DOMAIN Append(s, r) : Even(y, Append(s, r)[i], left)
        BY <1>8, <1>9, AppendAll
    <2>2. \A i \in DOMAIN Append(Append(s, r), c) : Even(y, Append(Append(s, r), c)[i], left)
        BY <1>8, <2>1, AppendAll
    <2> QED
        BY <1>2, <2>2
<1>11. \A i \in DOMAIN journal'[y + 1] : Even(y + 1, journal'[y + 1][i], left)
    <2>1. \A i \in DOMAIN journal[y + 1] : Even(y + 1, journal[y + 1][i], left)
        BY <1>2, <1>6
    <2>2. \A i \in DOMAIN Append(journal[y + 1], o) :
              Even(y + 1, Append(journal[y + 1], o)[i], left)
        BY <1>3, <1>8, <2>1, AppendAll
    <2> QED
        BY <1>2, <2>2
<1>12. ASSUME NEW z \in AllYears PROVE \A i \in DOMAIN journal'[z] : Even(z, journal'[z][i], left)
    <2>1. CASE z = y
        BY <1>10, <2>1
    <2>2. CASE z = y + 1
        BY <1>11, <2>2
    <2>3. CASE z # y /\ z # y + 1
        BY <1>2, <1>6, <2>3
    <2> QED
        BY <2>1, <2>2, <2>3
<1> QED
    BY <1>2, <1>12, DoubleIs DEF left

\* Every step keeps the entries even.
LEMMA DoubleNext ==
    ASSUME IInv, Ledger, Tested, DoubleEntry, Kept, [Next]_vars
    PROVE  DoubleEntry'
<1>1. UNCHANGED <<journal, leftOut>> => DoubleEntry'
    BY DEF DoubleEntry
<1>2. ASSUME NEW t \in Threads, NEW p \in Proposals, Approve(t, p)
      PROVE  DoubleEntry'
    BY <1>1, <1>2 DEF Approve
<1>3. ASSUME NEW t \in Threads, Test(t) \/ Settle(t) \/ Abort(t)
      PROVE  DoubleEntry'
    BY <1>1, <1>3 DEF Test, Settle, Abort
<1>4. ASSUME NEW t \in Threads, Record(t)
      PROVE  DoubleEntry'
    <2>1. PICK p \in Proposals :
              /\ task[t] # None /\ task[t].proposal = p /\ task[t].at = "record"
              /\ Document[p].year \in AllYears /\ Document[p].lines \in Lines
              /\ p \in Sources
              /\ Insert(Document[p].year, p, Document[p].lines)
              /\ UNCHANGED leftOut
        BY <1>4, RecordIs
    <2>2. Total(Document[p].lines) = 0
        BY <2>1 DEF Tested
    <2> QED
        BY <2>1, <2>2, InsertDouble
<1>5. ASSUME NEW p \in Proposals, Reject(p)
      PROVE  DoubleEntry'
    BY <1>1, <1>5 DEF Reject
<1>6. ASSUME NEW m \in Movements, Reconcile(m)
      PROVE  DoubleEntry'
    <2>1. UNCHANGED leftOut
        BY <1>6 DEF Reconcile
    <2> QED
        BY <1>6, <2>1, ReconcileIs, InsertDouble
<1>7. ASSUME NEW y \in Years,
             Depreciate(y) \/ \E rate \in Rates : Simulate(y, rate)
      PROVE  DoubleEntry'
    BY <1>1, <1>7 DEF Depreciate, Simulate
<1>8. CASE RecordDepreciation
    <2>1. PICK lines \in Lines : Total(lines) = 0 /\ Insert(loop.year, "depreciation", lines)
        BY <1>8, DepreciationIs
    <2>2. /\ loop.year \in AllYears /\ "depreciation" \in Sources
          /\ UNCHANGED leftOut
        BY <1>8, DepreciationIs DEF RecordDepreciation
    <2> QED
        BY <2>1, <2>2, InsertDouble
<1>9. CASE CloseYear
    BY <1>9, CloseYearDouble
<1>10. CASE LoopAbort
    BY <1>1, <1>10 DEF LoopAbort
<1>11. CASE UNCHANGED vars
    BY <1>1, <1>11 DEF vars
<1> QED
    BY <1>2, <1>3, <1>4, <1>5, <1>6, <1>7, <1>8, <1>9, <1>10, <1>11 DEF Next

\* The number of the entry a thread has written.
LEMMA SettlesNumber ==
    ASSUME IInv, Ledger, NEW t \in Threads, Settle(t)
    PROVE  task[t].number \in Nat /\ task[t].proposal \in Proposals
<1> DEFINE y == Document[task[t].proposal].year
<1>1. task[t] # None /\ task[t].at = "settle" /\ task[t].proposal \in Proposals
    BY DEF Settle, At, IInv, Shape
<1>2. y \in AllYears
    BY <1>1, ProposalYear
<1>3. BookedUnder(task[t].proposal, task[t].number)
    BY <1>1 DEF IInv, TasksKnow
<1>4. journal[y] \in Seq(EntrySet)
    BY <1>2 DEF Ledger
<1>5. PICK i \in DOMAIN journal[y] : journal[y][i].number = task[t].number
    BY <1>3 DEF BookedUnder
<1> HIDE DEF y
<1>6. journal[y][i] \in EntrySet
    BY <1>4, <1>5
<1> QED
    BY <1>1, <1>5, <1>6 DEF EntrySet

\* Every step keeps the types.
LEMMA KeptNext ==
    ASSUME IInv, Ledger, Kept, [Next]_vars
    PROVE  Kept'
<1>1. ASSUME NEW t \in Threads, NEW p \in Proposals, Approve(t, p)
      PROVE  Kept'
    BY <1>1 DEF Approve, Kept
<1>2. ASSUME NEW t \in Threads, Test(t) \/ Record(t) \/ Abort(t)
      PROVE  Kept'
    BY <1>2 DEF Test, Record, Abort, documents, Kept
<1>3. ASSUME NEW t \in Threads, Settle(t)
      PROVE  Kept'
    <2> DEFINE p == task[t].proposal
    <2>1. task[t].number # None /\ p \in Proposals
        BY <1>3, SettlesNumber, BooksAssumption
    <2>2. /\ status' = [status EXCEPT ![p] = "APPROVED"]
          /\ entryOf' = [entryOf EXCEPT ![p] = task[t].number]
          /\ UNCHANGED <<closed, leftOut, linked, torn>>
        BY <1>3 DEF Settle
    <2> HIDE DEF p
    <2>3. ASSUME NEW q \in Proposals
          PROVE  entryOf'[q] # None <=> status'[q] = "APPROVED"
        BY <2>1, <2>2 DEF Kept, IInv, Shape
    <2> QED
        BY <2>2, <2>3 DEF Kept
<1>4. ASSUME NEW p \in Proposals, Reject(p)
      PROVE  Kept'
    <2>1. ASSUME NEW q \in Proposals
          PROVE  entryOf'[q] # None <=> status'[q] = "APPROVED"
        BY <1>4 DEF Reject, Kept, IInv, Shape
    <2> QED
        BY <1>4, <2>1 DEF Reject, Kept
<1>5. ASSUME NEW m \in Movements, Reconcile(m)
      PROVE  Kept'
    <2>1. UNCHANGED <<closed, leftOut, status, entryOf>>
        BY <1>5 DEF Reconcile
    <2>2. linked' \subseteq Movements
        BY <1>5 DEF Reconcile, Kept
    <2>3. torn' \in [Movements -> 0..MaxTorn]
        <3>1. CASE UNCHANGED torn
            BY <3>1 DEF Kept
        <3>2. CASE torn[m] < MaxTorn /\ torn' = [torn EXCEPT ![m] = @ + 1]
            <4>1. torn[m] + 1 \in 0..MaxTorn
                BY <3>2, BooksAssumption DEF Kept
            <4> QED
                BY <3>2, <4>1 DEF Kept
        <3> QED
            BY <1>5, <3>1, <3>2 DEF Reconcile
    <2> QED
        BY <2>1, <2>2, <2>3 DEF Kept
<1>6. ASSUME NEW y \in Years,
             Depreciate(y) \/ \E rate \in Rates : Simulate(y, rate)
      PROVE  Kept'
    BY <1>6 DEF Depreciate, Simulate, documents, Kept
<1>7. CASE RecordDepreciation
    BY <1>7 DEF RecordDepreciation, documents, Kept
<1>8. CASE CloseYear
    <2>1. /\ closed' = closed \cup {loop.year} /\ loop.year \in Years
          /\ leftOut' = leftOut \/ leftOut' = leftOut \cup {loop.year}
        BY <1>8 DEF CloseYear, Ledger
    <2> QED
        BY <1>8, <2>1 DEF CloseYear, documents, Kept
<1>9. CASE LoopAbort
    BY <1>9 DEF LoopAbort, documents, Kept
<1>10. CASE UNCHANGED vars
    BY <1>10 DEF vars, documents, Kept
<1> QED
    BY <1>1, <1>2, <1>3, <1>4, <1>5, <1>6, <1>7, <1>8, <1>9, <1>10 DEF Next

\* Whoever books a document books it once.
LEMMA OnceKept ==
    ASSUME BookedOnceButFailures, UNCHANGED <<linked, torn>>,
           \A m \in Movements : Booked(m)' = Booked(m)
    PROVE  BookedOnceButFailures'
BY DEF BookedOnceButFailures, Booked

\* Every step keeps the count of the entries of a movement.
LEMMA OnceNext ==
    ASSUME IInv, Ledger, Kept, BookedOnceButFailures, [Next]_vars
    PROVE  BookedOnceButFailures'
<1>1. UNCHANGED journal => \A m \in Movements : Booked(m)' = Booked(m)
    BY SameCounts
<1>2. ASSUME NEW t \in Threads, NEW p \in Proposals, Approve(t, p)
      PROVE  BookedOnceButFailures'
    BY <1>1, <1>2, OnceKept DEF Approve
<1>3. ASSUME NEW t \in Threads, Test(t) \/ Settle(t) \/ Abort(t)
      PROVE  BookedOnceButFailures'
    BY <1>1, <1>3, OnceKept DEF Test, Settle, Abort, documents
<1>4. ASSUME NEW t \in Threads, Record(t)
      PROVE  BookedOnceButFailures'
    <2>1. PICK p \in Proposals :
              /\ Document[p].year \in AllYears /\ Document[p].lines \in Lines
              /\ p \in Sources
              /\ Insert(Document[p].year, p, Document[p].lines)
              /\ UNCHANGED documents
        BY <1>4, RecordIs
    <2>2. ASSUME NEW m \in Movements PROVE Booked(m)' = Booked(m)
        <3>1. p # m /\ m \in Documents
            BY BooksAssumption DEF Documents
        <3> QED
            BY <2>1, <3>1, InsertCounts
    <2> QED
        BY <2>1, <2>2, OnceKept DEF documents
<1>5. ASSUME NEW p \in Proposals, Reject(p)
      PROVE  BookedOnceButFailures'
    BY <1>1, <1>5, OnceKept DEF Reject
<1>6. ASSUME NEW m \in Movements, Reconcile(m)
      PROVE  BookedOnceButFailures'
    <2>1. m \notin linked /\ Booked(m) = torn[m] /\ torn[m] \in Nat
        <3>1. m \notin linked
            BY <1>6 DEF Reconcile
        <3>2. torn[m] \in Nat
            BY DEF Kept
        <3> QED
            BY <3>1, <3>2 DEF BookedOnceButFailures, Booked
    <2>2. /\ Booked(m)' = Booked(m) + 1
          /\ \A n \in Movements : n # m => Booked(n)' = Booked(n)
        BY <1>6, ReconcileIs, InsertCounts DEF Documents
    <2>3. Booked(m)' = torn'[m] + (IF m \in linked' THEN 1 ELSE 0)
        <3>1. CASE linked' = linked \cup {m} /\ UNCHANGED torn
            BY <2>1, <2>2, <3>1
        <3>2. CASE torn' = [torn EXCEPT ![m] = @ + 1] /\ UNCHANGED linked
            <4>1. torn'[m] = torn[m] + 1
                BY <3>2 DEF Kept
            <4> QED
                BY <2>1, <2>2, <3>2, <4>1
        <3> QED
            BY <1>6, <3>1, <3>2 DEF Reconcile
    <2>4. ASSUME NEW n \in Movements, n # m
          PROVE  Booked(n)' = torn'[n] + (IF n \in linked' THEN 1 ELSE 0)
        <3>1. torn'[n] = torn[n] /\ (n \in linked' <=> n \in linked)
            BY <1>6, <2>4 DEF Reconcile, Kept
        <3> QED
            BY <2>2, <2>4, <3>1 DEF BookedOnceButFailures, Booked
    <2> QED
        BY <2>3, <2>4 DEF BookedOnceButFailures, Booked
<1>7. ASSUME NEW y \in Years,
             Depreciate(y) \/ \E rate \in Rates : Simulate(y, rate)
      PROVE  BookedOnceButFailures'
    BY <1>1, <1>7, OnceKept DEF Depreciate, Simulate, documents
<1>8. CASE RecordDepreciation
    <2>1. PICK lines \in Lines : Insert(loop.year, "depreciation", lines)
        BY <1>8, DepreciationIs
    <2>2. \A m \in Movements : m \in Documents /\ "depreciation" # m
        BY BooksAssumption DEF Documents
    <2>3. \A m \in Movements : Booked(m)' = Booked(m)
        BY <1>8, <2>1, <2>2, DepreciationIs, InsertCounts
    <2> QED
        BY <1>8, <2>3, OnceKept DEF RecordDepreciation, documents
<1>9. CASE CloseYear
    <2>1. \A m \in Movements : Booked(m)' = Booked(m)
        BY <1>9, CloseYearCounts DEF Documents
    <2> QED
        BY <1>9, <2>1, OnceKept DEF CloseYear, documents
<1>10. CASE LoopAbort
    BY <1>1, <1>10, OnceKept DEF LoopAbort, documents
<1>11. CASE UNCHANGED vars
    BY <1>1, <1>11, OnceKept DEF vars, documents
<1> QED
    BY <1>2, <1>3, <1>4, <1>5, <1>6, <1>7, <1>8, <1>9, <1>10, <1>11 DEF Next

\* The threads of the pool are finitely many.
LEMMA WritingFinite ==
    ASSUME NEW p
    PROVE  IsFiniteSet(Writing(p)) /\ Cardinality(Writing(p)) \in Nat
<1>1. Writing(p) \subseteq Threads /\ IsFiniteSet(Threads)
    BY BooksAssumption DEF Writing
<1> QED
    BY <1>1, FS_Subset, FS_CardinalityType

\* No entry comes in, and no thread starts to write one.
LEMMA InvoicedKept ==
    ASSUME IInv, Ledger, Invoiced, NEW p \in Proposals,
           Booked(p)' = Booked(p), invoices'[p] = invoices[p],
           Writing(p)' \subseteq Writing(p)
    PROVE  Booked(p)' + Cardinality(Writing(p)') <= invoices'[p]
<1>1. Cardinality(Writing(p)') <= Cardinality(Writing(p))
    BY WritingFinite, FS_Subset
<1>2. IsFiniteSet(Writing(p)')
    BY WritingFinite, FS_Subset
<1>3. Cardinality(Writing(p)') \in Nat /\ Cardinality(Writing(p)) \in Nat
    BY <1>2, WritingFinite, FS_CardinalityType
<1>4. Booked(p) \in Nat
    BY BookedType DEF Documents
<1>5. invoices[p] \in Nat /\ Booked(p) + Cardinality(Writing(p)) <= invoices[p]
    BY DEF Invoiced, IInv, Shape
<1> QED
    BY <1>1, <1>3, <1>4, <1>5

\* Every step keeps the entries of a proposal within its invoices.
LEMMA InvoicedNext ==
    ASSUME IInv, Ledger, Invoiced, [Next]_vars
    PROVE  Invoiced'
<1>1. UNCHANGED journal => \A p \in Proposals : Booked(p)' = Booked(p)
    BY SameCounts
<1>2. \A p \in Proposals : Booked(p) \in Nat /\ invoices[p] \in Nat
    BY BookedType DEF Documents, IInv, Shape
<1>3. (\A p \in Proposals : Booked(p)' + Cardinality(Writing(p)') <= invoices'[p])
          => Invoiced'
    BY DEF Invoiced
<1>4. UNCHANGED task => \A p \in Proposals : Writing(p)' \subseteq Writing(p)
    BY DEF Writing
<1>5. \A t \in Threads : task' = [task EXCEPT ![t] = None]
          => \A p \in Proposals : Writing(p)' \subseteq Writing(p)
    BY DEF Writing, IInv, Shape
<1>6. ASSUME NEW t \in Threads, NEW p \in Proposals, Approve(t, p)
      PROVE  Invoiced'
    <2>1. /\ UNCHANGED journal /\ task[t] = None
          /\ invoices' = [invoices EXCEPT ![p] = @ + 1]
          /\ task' = [task EXCEPT ![t] = [proposal |-> p, at |-> "test",
                                         number |-> None]]
        BY <1>6 DEF Approve, Goto
    <2>2. \A u \in Threads : task'[u] = IF u = t THEN [proposal |-> p, at |-> "test",
                                                     number |-> None] ELSE task[u]
        BY <2>1 DEF IInv, Shape
    <2>3. Booked(p)' + Cardinality(Writing(p)') <= invoices'[p]
        <3>1. Writing(p)' \subseteq Writing(p) \cup {t}
            BY <2>2 DEF Writing
        <3>2. t \notin Writing(p)
            BY <2>1 DEF Writing
        <3>3. Cardinality(Writing(p) \cup {t}) = Cardinality(Writing(p)) + 1
              /\ IsFiniteSet(Writing(p) \cup {t})
            BY <3>2, WritingFinite, FS_AddElement
        <3>4. Cardinality(Writing(p)') <= Cardinality(Writing(p)) + 1
              /\ IsFiniteSet(Writing(p)')
            BY <3>1, <3>3, FS_Subset
        <3>5. Cardinality(Writing(p)') \in Nat /\ Cardinality(Writing(p)) \in Nat
            BY <3>4, WritingFinite, FS_CardinalityType
        <3>6. invoices'[p] = invoices[p] + 1
            BY <2>1 DEF IInv, Shape
        <3>7. Booked(p)' = Booked(p)
            BY <1>1, <2>1
        <3>8. Booked(p) + Cardinality(Writing(p)) <= invoices[p]
            BY DEF Invoiced
        <3> QED
            BY <1>2, <3>4, <3>5, <3>6, <3>7, <3>8
    <2>4. ASSUME NEW q \in Proposals, q # p
          PROVE  Booked(q)' + Cardinality(Writing(q)') <= invoices'[q]
        <3>1. Writing(q)' \subseteq Writing(q)
            BY <2>2, <2>4 DEF Writing
        <3>2. invoices'[q] = invoices[q] /\ Booked(q)' = Booked(q)
            BY <1>1, <2>1, <2>4 DEF IInv, Shape
        <3> QED
            BY <3>1, <3>2, InvoicedKept
    <2> QED
        BY <1>3, <2>3, <2>4
<1>7. ASSUME NEW t \in Threads, Test(t)
      PROVE  Invoiced'
    <2>1. task[t] # None /\ task[t].at = "test" /\ UNCHANGED <<journal, invoices>>
        BY <1>7 DEF Test, At, documents
    <2>2. PICK v : task' = [task EXCEPT ![t] = v]
                   /\ (v = None \/ v.proposal = task[t].proposal)
        BY <1>7 DEF Test, Goto
    <2>3. \A u \in Threads : task'[u] = IF u = t THEN v ELSE task[u]
        BY <2>2 DEF IInv, Shape
    <2>4. \A p \in Proposals : Writing(p)' \subseteq Writing(p)
        BY <2>1, <2>2, <2>3 DEF Writing
    <2> QED
        BY <1>1, <1>3, <2>1, <2>4, InvoicedKept
<1>8. ASSUME NEW t \in Threads, Record(t)
      PROVE  Invoiced'
    <2>1. PICK p \in Proposals :
              /\ task[t] # None /\ task[t].proposal = p /\ task[t].at = "record"
              /\ Document[p].year \in AllYears /\ Document[p].lines \in Lines
              /\ p \in Sources /\ p \in Documents
              /\ Insert(Document[p].year, p, Document[p].lines)
              /\ task' = [task EXCEPT ![t] =
                     [proposal |-> p, at |-> "settle",
                      number |-> NextNumber(Document[p].year)]]
              /\ UNCHANGED documents
        BY <1>8, RecordIs
    <2> DEFINE v == [proposal |-> p, at |-> "settle",
                     number |-> NextNumber(Document[p].year)]
    <2>2. \A u \in Threads : task'[u] = IF u = t THEN v ELSE task[u]
        BY <2>1 DEF IInv, Shape
    <2>3. v.at = "settle"
        OBVIOUS
    <2>4. \A q \in Proposals : invoices'[q] = invoices[q]
        BY <2>1 DEF documents
    <2> HIDE DEF v
    <2>5. Booked(p)' + Cardinality(Writing(p)') <= invoices'[p]
        <3>1. t \in Writing(p) /\ Writing(p)' \subseteq Writing(p) \ {t}
            BY <2>1, <2>2, <2>3 DEF Writing
        <3>2. /\ Cardinality(Writing(p) \ {t}) = Cardinality(Writing(p)) - 1
              /\ IsFiniteSet(Writing(p) \ {t})
            BY <3>1, WritingFinite, FS_RemoveElement
        <3>3. Cardinality(Writing(p)') <= Cardinality(Writing(p)) - 1
              /\ IsFiniteSet(Writing(p)')
            BY <3>1, <3>2, FS_Subset
        <3>4. Cardinality(Writing(p)') \in Nat /\ Cardinality(Writing(p)) \in Nat
            BY <3>3, WritingFinite, FS_CardinalityType
        <3>5. Booked(p)' = Booked(p) + 1
            BY <2>1, InsertCounts
        <3>6. Booked(p) + Cardinality(Writing(p)) <= invoices[p]
            BY DEF Invoiced
        <3> QED
            BY <1>2, <2>4, <3>3, <3>4, <3>5, <3>6
    <2>6. ASSUME NEW q \in Proposals, q # p
          PROVE  Booked(q)' + Cardinality(Writing(q)') <= invoices'[q]
        <3>1. Writing(q)' \subseteq Writing(q)
            BY <2>2, <2>3 DEF Writing
        <3>2. q \in Documents
            BY DEF Documents
        <3>3. Booked(q)' = Booked(q)
            BY <2>1, <2>6, <3>2, InsertCounts
        <3> QED
            BY <2>4, <3>1, <3>3, InvoicedKept
    <2> QED
        BY <1>3, <2>5, <2>6
<1>9. ASSUME NEW t \in Threads, Settle(t) \/ Abort(t)
      PROVE  Invoiced'
    <2>1. task' = [task EXCEPT ![t] = None] /\ UNCHANGED <<journal, invoices>>
        BY <1>9 DEF Settle, Abort, documents
    <2> QED
        BY <1>1, <1>3, <1>5, <2>1, InvoicedKept
<1>10. ASSUME NEW p \in Proposals, Reject(p)
       PROVE  Invoiced'
    <2>1. UNCHANGED <<journal, invoices, task>>
        BY <1>10 DEF Reject
    <2> QED
        BY <1>1, <1>3, <1>4, <2>1, InvoicedKept
<1>11. ASSUME NEW m \in Movements, Reconcile(m)
       PROVE  Invoiced'
    <2>1. UNCHANGED <<invoices, task>>
        BY <1>11 DEF Reconcile
    <2>2. ASSUME NEW p \in Proposals PROVE Booked(p)' = Booked(p)
        <3>1. m # p /\ p \in Documents
            BY BooksAssumption DEF Documents
        <3> QED
            BY <1>11, <3>1, ReconcileIs, InsertCounts
    <2> QED
        BY <1>3, <1>4, <2>1, <2>2, InvoicedKept
<1>12. ASSUME NEW y \in Years,
             Depreciate(y) \/ \E rate \in Rates : Simulate(y, rate)
       PROVE  Invoiced'
    <2>1. UNCHANGED <<journal, invoices, task>>
        BY <1>12 DEF Depreciate, Simulate, documents
    <2> QED
        BY <1>1, <1>3, <1>4, <2>1, InvoicedKept
<1>13. CASE RecordDepreciation
    <2>1. UNCHANGED <<invoices, task>>
        BY <1>13 DEF RecordDepreciation, documents
    <2>2. PICK lines \in Lines : Insert(loop.year, "depreciation", lines)
        BY <1>13, DepreciationIs
    <2>3. \A p \in Proposals : p \in Documents /\ "depreciation" # p
        BY BooksAssumption DEF Documents
    <2>4. \A p \in Proposals : Booked(p)' = Booked(p)
        BY <1>13, <2>2, <2>3, DepreciationIs, InsertCounts
    <2> QED
        BY <1>3, <1>4, <2>1, <2>4, InvoicedKept
<1>14. CASE CloseYear
    <2>1. UNCHANGED <<invoices, task>>
        BY <1>14 DEF CloseYear, documents
    <2>2. \A p \in Proposals : Booked(p)' = Booked(p)
        BY <1>14, CloseYearCounts DEF Documents
    <2> QED
        BY <1>3, <1>4, <2>1, <2>2, InvoicedKept
<1>15. CASE LoopAbort \/ UNCHANGED vars
    <2>1. UNCHANGED <<journal, invoices, task>>
        BY <1>15 DEF LoopAbort, documents, vars
    <2> QED
        BY <1>1, <1>3, <1>4, <2>1, InvoicedKept
<1> QED
    BY <1>6, <1>7, <1>8, <1>9, <1>10, <1>11, <1>12, <1>13, <1>14, <1>15 DEF Next

\* It holds at the start.
LEMMA InitLInv == Init => LInv
<1> SUFFICES ASSUME Init PROVE LInv
    OBVIOUS
<1>1. \A y \in AllYears : journal[y] = <<>>
    BY DEF Init, AllYears
<1>2. /\ Ledger /\ Tested /\ DoubleEntry
    BY <1>1 DEF Init, Ledger, Tested, DoubleEntry, AllYears
<1>3. Kept
    BY BooksAssumption DEF Init, Kept
<1>4. ASSUME NEW d \in Documents PROVE Booked(d) = 0
    <2>1. Document[d].year \in AllYears
        BY DocumentType
    <2>2. Of(d, Document[d].year) = {}
        BY <1>1, <2>1 DEF Of
    <2> QED
        BY <2>2, FS_EmptySet DEF Booked
<1>5. BookedOnceButFailures
    BY <1>4 DEF Init, BookedOnceButFailures, Booked, Documents
<1>6. Invoiced
    <2>1. \A p \in Proposals : Writing(p) = {}
        BY DEF Init, Writing
    <2>2. Cardinality({}) = 0
        BY FS_EmptySet
    <2>3. \A p \in Proposals : Booked(p) = 0 /\ invoices[p] = 0
        BY <1>4 DEF Init, Documents
    <2>4. \A p \in Proposals : Booked(p) + Cardinality(Writing(p)) <= invoices[p]
        BY <2>1, <2>2, <2>3
    <2> QED
        BY <2>4 DEF Invoiced
<1> QED
    BY <1>2, <1>3, <1>5, <1>6, InitIInv DEF LInv
-----------------------------------------------------------------------------
(***************************************************************************)
(* What follows of every behaviour.                                        *)
(***************************************************************************)

\* The ledger, the types and the counts: the second inductive invariant.
THEOREM LedgerInvariant == Spec => []LInv
<1>1. LInv /\ [Next]_vars /\ IInv' => LInv'
    BY LedgerNext, TestedNext, DoubleNext, KeptNext, OnceNext, InvoicedNext DEF LInv
<1> QED
    BY <1>1, InitLInv, BooksInvariant, PTL DEF Spec

\* Every variable has its type, and a proposal an entry if it is approved.
THEOREM TypeCorrect == Spec => []TypeOK
<1>1. LInv => TypeOK
    <2> SUFFICES ASSUME LInv PROVE TypeOK
        OBVIOUS
    <2> USE DEF LInv
    <2>1. journal \in [AllYears -> Seq(EntrySet)]
        BY DEF Ledger
    <2>2. loop \in {None} \cup [year : Years, balance : Lines \cup {None},
                              taxed : BOOLEAN, rate : Int]
        BY DEF Ledger
    <2>3. /\ status \in [Proposals -> Statuses]
          /\ entryOf \in [Proposals -> Nat \cup {None}]
          /\ invoices \in [Proposals -> Nat]
          /\ task \in [Threads -> {None} \cup
                          [proposal : Proposals, at : {"test", "record", "settle"},
                           number : Nat \cup {None}]]
        BY DEF IInv, Shape
    <2> QED
        BY <2>1, <2>2, <2>3 DEF TypeOK, EntrySet, AllYears, Kept
<1> QED
    BY <1>1, LedgerInvariant, PTL

\* Every entry balances, those of the closing as well, whatever the rate of the
\* tax and whatever is written between the reading of the balances and the
\* closing, unless a closing up to that year has left something out.
THEOREM AlwaysDoubleEntry == Spec => []DoubleEntry
<1>1. LInv => DoubleEntry
    BY DEF LInv
<1> QED
    BY <1>1, LedgerInvariant, PTL

\* No expense is in the journal without a row of its own in invoices.
THEOREM AlwaysInvoiced == Spec => []BookedIsInvoiced
<1>1. LInv => BookedIsInvoiced
    <2> SUFFICES ASSUME LInv, NEW p \in Proposals
                 PROVE  Booked(p) <= invoices[p]
        BY DEF BookedIsInvoiced, Booked
    <2>1. Booked(p) \in Nat /\ Cardinality(Writing(p)) \in Nat /\ invoices[p] \in Nat
        BY BookedType, WritingFinite DEF LInv, Documents, IInv, Shape
    <2>2. Booked(p) + Cardinality(Writing(p)) <= invoices[p]
        BY DEF LInv, Invoiced
    <2> QED
        BY <2>1, <2>2
<1> QED
    BY <1>1, LedgerInvariant, PTL

\* A movement is booked once, and once more for every failure between the two
\* commits of its reconciliation.
THEOREM AlwaysOnce == Spec => []BookedOnceButFailures
<1>1. LInv => BookedOnceButFailures
    BY DEF LInv
<1> QED
    BY <1>1, LedgerInvariant, PTL

\* Only the closing closes a year.
LEMMA ClosedBy ==
    ASSUME [Next]_vars, NEW y \in closed' \ closed
    PROVE  CloseYear
BY DEF Next, vars, documents, Approve, Test, Record, Settle, Abort, Reject,
       Reconcile, Depreciate, Simulate, RecordDepreciation, LoopAbort

\* Without tax its lines are 0 (-0 included).
LEMMA NoTax ==
    ASSUME NEW a \in Accounts
    PROVE  TaxLines(0)[a] = 0
<1>1. TaxLines(0) = [x \in Accounts |-> CASE x = "630" -> 0 [] x = "4752" -> -0
                                          [] OTHER -> 0]
    BY DEF TaxLines
<1>2. -0 = 0
    <2>1. 0 \in Int /\ \A x \in Int : -x = 0 - x
        OBVIOUS
    <2>2. -0 = 0 - 0
        BY <2>1, Zenon
    <2> QED
        BY <2>2
<1> QED
    BY <1>1, <1>2

\* A closing that nobody came in between, account by account.
CarriedOver(y) ==
    LET opened == [a \in Accounts |-> Balance(y + 1)'[a] - Balance(y + 1)[a]]
        result == Balance(y)["6"] + Balance(y)["630"] + Balance(y)["7"]
    IN  /\ \A a \in Accounts \ {"others"} : Balance(y)'[a] = 0
        /\ Balance(y)'["others"] = Balance(y)["others"]
        /\ \A a \in {"6", "630", "7", "others"} : opened[a] = 0
        /\ opened["1-5"] = Balance(y)["1-5"]
        /\ loop.rate >= 0 =>
               opened["129"] + opened["4752"] =
                   Balance(y)["129"] + Balance(y)["4752"] + result

\* The result before tax is the one after it, and the tax.
LEMMA ResultSplit ==
    ASSUME NEW u \in Int, NEW v \in Int, NEW six \in Int, NEW seven \in Int,
           NEW taxes \in Int, NEW tax \in Int, NEW net \in Int,
           net = seven + six + taxes + tax
    PROVE  (u + net) + (v - tax) = u + v + (six + taxes + seven)
OBVIOUS

LEMMA CarriesOver ==
    ASSUME LInv, [Next]_vars, NEW y \in closed' \ closed, loop.balance = Balance(y)
    PROVE  CarriedOver(y)
<1> USE DEF LInv
<1>1. PICK z \in Years, tax \in Int, b \in Lines,
           s \in Seq(EntrySet), taxEntry \in EntrySet,
           r \in EntrySet, c \in EntrySet, o \in EntrySet :
               ClosesWith(z, tax, b, s, taxEntry, r, c, o)
    BY ClosedBy, CloseYearIs
<1>2. z = y /\ b = Balance(y) /\ (loop.rate >= 0 => tax >= 0)
    BY <1>1 DEF ClosesWith
<1>3. /\ y \in AllYears /\ y + 1 \in AllYears
      /\ journal'[y] = Append(Append(s, r), c)
      /\ journal'[y + 1] = Append(journal[y + 1], o)
    <2>1. y \in Years /\ journal \in [AllYears -> Seq(EntrySet)]
        BY <1>2 DEF Ledger
    <2>2. journal' = [journal EXCEPT ![y] = Append(Append(s, r), c),
                                     ![y + 1] = Append(@, o)]
        BY <1>1, <1>2 DEF ClosesWith
    <2> QED
        BY <2>1, <2>2, TwoYears
<1>4. /\ journal[y] \in Seq(EntrySet) /\ journal[y + 1] \in Seq(EntrySet)
      /\ Append(s, r) \in Seq(EntrySet)
    BY <1>3 DEF Ledger
<1>5. ASSUME NEW a \in Accounts
      PROVE  /\ b[a] = SumOf(journal[y], a) /\ b[a] \in Int
             /\ Balance(y)'[a] = SumOf(s, a) + r.lines[a] + c.lines[a]
             /\ Balance(y + 1)[a] \in Int
             /\ Balance(y + 1)'[a] = Balance(y + 1)[a] + o.lines[a]
    <2>1. b[a] = SumOf(journal[y], a) /\ Balance(y + 1)[a] = SumOf(journal[y + 1], a)
        BY <1>2 DEF Balance
    <2>2. /\ Balance(y)'[a] = SumOf(Append(Append(s, r), c), a)
          /\ Balance(y + 1)'[a] = SumOf(Append(journal[y + 1], o), a)
        BY <1>3 DEF Balance
    <2>3. /\ SumOf(Append(Append(s, r), c), a) = SumOf(Append(s, r), a) + c.lines[a]
          /\ SumOf(Append(s, r), a) = SumOf(s, a) + r.lines[a]
          /\ SumOf(Append(journal[y + 1], o), a) = SumOf(journal[y + 1], a) + o.lines[a]
        BY <1>4, SumAppend
    <2>4. SumOf(journal[y], a) \in Int /\ SumOf(journal[y + 1], a) \in Int
        BY <1>4, SumType
    <2> QED
        BY <2>1, <2>2, <2>3, <2>4
<1> DEFINE due == Due(tax)
<1>6. due \in Int /\ (tax > 0 => due = tax) /\ (~(tax > 0) => due = 0)
      /\ (tax >= 0 => due = tax)
    BY DueType DEF Due
<1> HIDE DEF due
<1>7. ASSUME NEW a \in Accounts
      PROVE  SumOf(s, a) = b[a] + TaxLines(due)[a]
    <2>1. CASE ~(tax > 0)
        <3>1. s = journal[y]
            BY <1>1, <1>2, <2>1 DEF ClosesWith
        <3>2. TaxLines(due)[a] = 0
            BY <1>6, <2>1, NoTax
        <3> QED
            BY <1>5, <3>1, <3>2
    <2>2. CASE tax > 0
        <3>1. s = Append(journal[y], taxEntry) /\ taxEntry.lines = TaxLines(due)
            BY <1>1, <1>2, <1>6, <2>2 DEF ClosesWith
        <3>2. SumOf(s, a) = SumOf(journal[y], a) + taxEntry.lines[a]
            BY <1>4, <3>1, SumAppend
        <3> QED
            BY <1>5, <3>1, <3>2
    <2> QED
        BY <2>1, <2>2
<1>8. /\ r.lines = RegularizationLines(b, tax) /\ c.lines = ClosingLines(b, tax)
      /\ o.lines = Reversed(ClosingLines(b, tax))
    BY <1>1 DEF ClosesWith
<1>9. ASSUME NEW a \in Accounts
      PROVE  /\ Balance(y)'[a] = (b[a] + TaxLines(due)[a])
                    + RegularizationLines(b, tax)[a] + ClosingLines(b, tax)[a]
             /\ Balance(y + 1)[a] \in Int
             /\ Balance(y + 1)'[a] = Balance(y + 1)[a] + (-ClosingLines(b, tax)[a])
    <2>1. Reversed(ClosingLines(b, tax))[a] = -ClosingLines(b, tax)[a]
        BY DEF Reversed
    <2> QED
        BY <1>5, <1>7, <1>8, <2>1
<1>10. /\ b["6"] \in Int /\ b["630"] \in Int /\ b["7"] \in Int
       /\ b["1-5"] \in Int /\ b["129"] \in Int /\ b["4752"] \in Int
       /\ b["others"] \in Int
    BY <1>5 DEF Accounts
<1> DEFINE T == TaxLines(due)
           R == RegularizationLines(b, tax)
           C == ClosingLines(b, tax)
           result == b["7"] + b["6"] + b["630"] + tax
<1>11. /\ T["6"] = 0 /\ T["630"] = due /\ T["7"] = 0
       /\ T["1-5"] = 0 /\ T["129"] = 0 /\ T["4752"] = -due /\ T["others"] = 0
    BY DEF Accounts, TaxLines
<1>12. /\ R["6"] = -b["6"] /\ R["630"] = -b["630"] - due /\ R["7"] = -b["7"]
       /\ R["1-5"] = 0 /\ R["4752"] = 0 /\ R["others"] = 0
       /\ R["129"] = result
    BY DEF Accounts, RegularizationLines, due
<1>13. /\ C["6"] = 0 /\ C["630"] = 0 /\ C["7"] = 0
       /\ C["1-5"] = -b["1-5"] /\ C["4752"] = -b["4752"] + due /\ C["others"] = 0
       /\ C["129"] = -b["129"] - b["7"] - b["6"] - b["630"] - tax
    BY DEF Accounts, ClosingLines, due
<1>14. result \in Int /\ result = b["7"] + b["6"] + b["630"] + tax
    BY <1>10
<1> HIDE DEF T, R, C, result
<1>15. C["129"] = -b["129"] - result
    BY SMTT(30), <1>10, <1>13, <1>14
<1>16. /\ (b["6"] + T["6"]) + R["6"] + C["6"] = 0
       /\ (b["630"] + T["630"]) + R["630"] + C["630"] = 0
       /\ (b["7"] + T["7"]) + R["7"] + C["7"] = 0
    <2>1. (b["6"] + T["6"]) + R["6"] + C["6"] = 0
        BY SMTT(30), <1>10, <1>11, <1>12, <1>13
    <2>2. (b["630"] + T["630"]) + R["630"] + C["630"] = 0
        BY SMTT(30), <1>6, <1>10, <1>11, <1>12, <1>13
    <2>3. (b["7"] + T["7"]) + R["7"] + C["7"] = 0
        BY SMTT(30), <1>10, <1>11, <1>12, <1>13
    <2> QED
        BY <2>1, <2>2, <2>3
<1>17. /\ (b["1-5"] + T["1-5"]) + R["1-5"] + C["1-5"] = 0
       /\ (b["4752"] + T["4752"]) + R["4752"] + C["4752"] = 0
       /\ (b["others"] + T["others"]) + R["others"] + C["others"] = b["others"]
    <2>1. (b["1-5"] + T["1-5"]) + R["1-5"] + C["1-5"] = 0
        BY SMTT(30), <1>6, <1>10, <1>11, <1>12, <1>13
    <2>2. (b["4752"] + T["4752"]) + R["4752"] + C["4752"] = 0
        BY SMTT(30), <1>6, <1>10, <1>11, <1>12, <1>13
    <2>3. (b["others"] + T["others"]) + R["others"] + C["others"] = b["others"]
        BY SMTT(30), <1>6, <1>10, <1>11, <1>12, <1>13
    <2> QED
        BY <2>1, <2>2, <2>3
<1>18. (b["129"] + T["129"]) + R["129"] + C["129"] = 0
    BY SMTT(30), <1>10, <1>11, <1>12, <1>14, <1>15
<1>19. /\ \A a \in Accounts \ {"others"} : Balance(y)'[a] = 0
       /\ Balance(y)'["others"] = b["others"]
    <2>1. ASSUME NEW a \in Accounts
          PROVE  Balance(y)'[a] = (b[a] + T[a]) + R[a] + C[a]
        BY <1>9 DEF T, R, C
    <2>2. \A a \in Accounts \ {"others"} : (b[a] + T[a]) + R[a] + C[a] = 0
        BY <1>16, <1>17, <1>18 DEF Accounts
    <2> QED
        BY <1>17, <2>1, <2>2 DEF Accounts
<1>20. \A a \in Accounts : C[a] \in Int
    <2>1. C["6"] \in Int /\ C["630"] \in Int /\ C["7"] \in Int /\ C["others"] \in Int
        BY <1>13
    <2>2. C["1-5"] \in Int
        BY <1>10, <1>13
    <2>3. C["4752"] \in Int
        BY <1>6, <1>10, <1>13
    <2>4. C["129"] \in Int
        BY <1>10, <1>14, <1>15
    <2> QED
        BY <2>1, <2>2, <2>3, <2>4 DEF Accounts
<1> DEFINE opened == [a \in Accounts |-> Balance(y + 1)'[a] - Balance(y + 1)[a]]
<1>21. ASSUME NEW a \in Accounts PROVE opened[a] = -C[a] /\ opened[a] \in Int
    <2>1. C[a] \in Int
        BY <1>20
    <2>2. /\ Balance(y + 1)[a] \in Int
          /\ Balance(y + 1)'[a] = Balance(y + 1)[a] + (-C[a])
        BY <1>9 DEF C
    <2> QED
        BY <2>1, <2>2
<1> HIDE DEF opened
<1>22. \A a \in {"6", "630", "7", "others"} : opened[a] = 0
    <2>1. \A a \in {"6", "630", "7", "others"} : a \in Accounts /\ C[a] = 0
        BY <1>13 DEF Accounts
    <2>2. ASSUME NEW a \in {"6", "630", "7", "others"} PROVE opened[a] = 0
        <3>1. opened[a] = -C[a] /\ C[a] \in Int
            BY <1>20, <1>21, <2>1
        <3>2. opened[a] = 0 - C[a]
            BY <3>1
        <3> QED
            BY <2>1, <3>2
    <2> QED
        BY <2>2
<1>23. opened["1-5"] = b["1-5"]
    <2>1. opened["1-5"] = -C["1-5"]
        BY <1>21 DEF Accounts
    <2> QED
        BY <1>10, <1>13, <2>1
<1>24. ASSUME loop.rate >= 0
       PROVE  opened["129"] + opened["4752"]
                  = b["129"] + b["4752"] + (b["6"] + b["630"] + b["7"])
    <2>1. opened["129"] = -C["129"] /\ opened["4752"] = -C["4752"]
        BY <1>21 DEF Accounts
    <2>2. due = tax
        BY <1>2, <1>6, <1>24
    <2>3. opened["129"] = b["129"] + result
        BY <1>10, <1>14, <1>15, <2>1
    <2>4. opened["4752"] = b["4752"] - tax
        BY <1>6, <1>10, <1>13, <2>1, <2>2
    <2>5. (b["129"] + result) + (b["4752"] - tax)
              = b["129"] + b["4752"] + (b["6"] + b["630"] + b["7"])
        <3>1. result = b["7"] + b["6"] + b["630"] + tax
            BY <1>14
        <3>2. /\ b["6"] \in Int /\ b["630"] \in Int /\ b["7"] \in Int
              /\ b["129"] \in Int /\ b["4752"] \in Int /\ result \in Int
            BY <1>10, <1>14
        <3>3. tax \in Int
            OBVIOUS
        <3> QED
            BY ONLY <3>1, <3>2, <3>3, SMTT(60)
    <2> QED
        BY <2>3, <2>4, <2>5
<1> QED
    BY <1>2, <1>19, <1>22, <1>23, <1>24 DEF CarriedOver, opened

\* A closing that nobody came in between leaves groups 1 to 7 at zero, carries
\* the balance accounts over, with the result if no tax is below zero, and
\* leaves the other groups where they were, whatever the amounts and the rate.
THEOREM AlwaysCarriesOver == Spec => ClosingCarriesOver
<1> DEFINE Carries ==
        \A y \in closed' \ closed : loop.balance = Balance(y) => CarriedOver(y)
<1>1. LInv /\ [Next]_vars => Carries
    BY CarriesOver
<1>2. ClosingCarriesOver <=> [][Carries]_vars
    BY DEF ClosingCarriesOver, CarriedOver
<1> QED
    BY <1>1, <1>2, LedgerInvariant, PTL DEF Spec
=============================================================================

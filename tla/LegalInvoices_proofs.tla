------------------------- MODULE LegalInvoices_proofs -------------------------
(***************************************************************************)
(* Proofs about LegalInvoices: the numbers of a series are correlative and *)
(* its rows an append-only log of linked records, for every number of      *)
(* tenants, series and rows, and whatever the clock does; when the next    *)
(* number is free, and what the audit accepts.                             *)
(*                                                                         *)
(* Correlative is not inductive as it stands: that a number is free does   *)
(* not say by itself that it is the next one.  The invariant adds that a   *)
(* series of n rows holds every number of 1..n once (Numbered): a row      *)
(* found last has a number k of 1..n, k + 1 is free, and so k is n.        *)
(*                                                                         *)
(* The row found last is a CHOOSE: that there is one takes an order of the *)
(* rows without ties (NewestExists), which is that of the texts of their   *)
(* numbers (TextsAreOrdered).  Texts are compared by dividing by powers of *)
(* the base, of which the provers know nothing: the theorems say in Powers *)
(* what a power is, and what follows from it by induction is a lemma.      *)
(***************************************************************************)
EXTENDS LegalInvoices, SequenceTheorems, FiniteSetTheorems,
        WellFoundedInduction, TLAPS

\* What a power is.
Powers == Base^0 = 1 /\ \A d \in Nat : Base^(d + 1) = Base * Base^d

\* The texts of these numbers are in an order, as all texts are.
TextsOrdered(numbers) ==
    \A k, m, n \in numbers :
        /\ ~TextBelow(n, n)
        /\ m # n => TextBelow(m, n) \/ TextBelow(n, m)
        /\ TextBelow(k, m) /\ TextBelow(m, n) => TextBelow(k, n)

\* The rows of a series in a table: OfSeries(tn, s) is Of(rows[tn], s).
Of(table, s) == {i \in DOMAIN table : table[i].series = s}

UpTo(set, i) == {j \in set : j <= i}

\* These rows of a table have the numbers 1, 2, ..., in their order.
Numbered(table, T) ==
    /\ \A i \in T : table[i].number = Cardinality(UpTo(T, i))
    /\ \A i \in T : table[i].number \in 1..Cardinality(T)
    /\ \A i, j \in T : table[i].number = table[j].number => i = j
    /\ \A c \in 1..Cardinality(T) : \E i \in T : table[i].number = c

\* They are linked in the order of their numbers, as rows of series s.
LinkedOf(table, s, T) ==
    \A i \in T :
        /\ table[i].hash = Digest(<<s, table[i].number>>, table[i].prev)
        /\ table[i].number = 1 => table[i].prev = Genesis
        /\ \A j \in T : table[i].number = table[j].number + 1
                            => table[i].prev = table[j].hash

InOrder(table, s) ==
    /\ Numbered(table, Of(table, s))
    /\ LinkedOf(table, s, Of(table, s))

IInv ==
    /\ TypeOK
    /\ \A tn \in Tenants, s \in Series : InOrder(rows[tn], s)
-----------------------------------------------------------------------------
(***************************************************************************)
(* Numbers and powers of the base.                                         *)
(***************************************************************************)

\* Every non-empty set of numbers has a least element.
LEMMA LeastNat ==
    ASSUME NEW S \in SUBSET Nat, S # {}
    PROVE  \E x \in S : \A y \in S : x <= y
<1> DEFINE Below == {ss \in Nat \X Nat : ss[1] < ss[2]}
<1>1. IsWellFoundedOn(Below, Nat)
    BY NatLessThanWellFounded DEF OpToRel
<1>2. \A x, y \in Nat : <<y, x>> \notin Below => x <= y
    OBVIOUS
<1> HIDE DEF Below
<1>3. \E x \in S : \A y \in S : <<y, x>> \notin Below
    BY <1>1, WFMin
<1> QED
    BY <1>2, <1>3

\* Induction, over a set of numbers instead of a predicate.
LEMMA AllNumbers ==
    ASSUME NEW S \in SUBSET Nat, 0 \in S, \A n \in S : n + 1 \in S
    PROVE  S = Nat
<1>1. SUFFICES ASSUME Nat \ S # {} PROVE FALSE
    OBVIOUS
<1>2. PICK x \in Nat \ S : \A y \in Nat \ S : x <= y
    BY <1>1, LeastNat
<1>3. x # 0 /\ x - 1 \in Nat /\ x - 1 \in S
    BY <1>2
<1> QED
    BY <1>2, <1>3

LEMMA PowerType ==
    ASSUME Powers
    PROVE  \A d \in Nat : Base^d \in Nat \ {0}
<1> DEFINE S == {d \in Nat : Base^d \in Nat \ {0}}
<1>1. 0 \in S
    BY DEF Powers
<1>2. ASSUME NEW d \in S PROVE d + 1 \in S
    <2>1. \A b, x \in Nat \ {0} : b * x \in Nat \ {0}
        OBVIOUS
    <2> QED
        BY <2>1, InvoicesAssumption DEF Powers
<1> HIDE DEF S
<1>3. S \subseteq Nat
    BY DEF S
<1>4. S = Nat
    BY <1>1, <1>2, <1>3, AllNumbers
<1> QED
    BY <1>4 DEF S

\* Base^(d + e) is a product.
LEMMA PowerSum ==
    ASSUME Powers
    PROVE  \A d, e \in Nat : Base^(d + e) = Base^d * Base^e
<1> SUFFICES ASSUME NEW d \in Nat
             PROVE  \A e \in Nat : Base^(d + e) = Base^d * Base^e
    OBVIOUS
<1> DEFINE S == {e \in Nat : Base^(d + e) = Base^d * Base^e}
<1>1. 0 \in S
    <2>1. Base^d \in Nat
        BY PowerType
    <2> QED
        BY <2>1 DEF Powers
<1>2. ASSUME NEW e \in S PROVE e + 1 \in S
    <2>1. Base^d \in Nat /\ Base^e \in Nat /\ Base \in Nat
        BY PowerType, InvoicesAssumption
    <2>2. d + e \in Nat /\ d + (e + 1) = (d + e) + 1
        OBVIOUS
    <2>3. Base^(d + (e + 1)) = Base * (Base^d * Base^e) /\ Base^(e + 1) = Base * Base^e
        BY <2>2 DEF Powers
    <2>4. \A x, y, z \in Nat : x * (y * z) = y * (x * z)
        OBVIOUS
    <2> QED
        BY <2>1, <2>3, <2>4
<1> HIDE DEF S
<1>3. S \subseteq Nat
    BY DEF S
<1>4. S = Nat
    BY <1>1, <1>2, <1>3, AllNumbers
<1> QED
    BY <1>4 DEF S

LEMMA PowerMonotonic ==
    ASSUME Powers, NEW d \in Nat, NEW e \in Nat, d <= e
    PROVE  Base^d <= Base^e
<1>1. e - d \in Nat /\ d + (e - d) = e
    OBVIOUS
<1>2. Base^e = Base^d * Base^(e - d)
    BY <1>1, PowerSum
<1>3. Base^d \in Nat /\ Base^(e - d) \in Nat \ {0}
    BY <1>1, PowerType
<1>4. \A x \in Nat, y \in Nat \ {0} : x <= x * y
    OBVIOUS
<1> QED
    BY <1>2, <1>3, <1>4

LEMMA PowerAbove ==
    ASSUME Powers
    PROVE  \A n \in Nat : n < Base^n
<1> DEFINE S == {n \in Nat : n < Base^n}
<1>1. 0 \in S
    BY DEF Powers
<1>2. ASSUME NEW n \in S PROVE n + 1 \in S
    <2>1. Base^n \in Nat /\ Base^(n + 1) = Base * Base^n
        BY PowerType DEF Powers
    <2>2. \A b \in Nat \ {0, 1}, x \in Nat : b * x >= 2 * x
        OBVIOUS
    <2>3. Base * Base^n >= 2 * Base^n /\ Base^(n + 1) \in Nat
        BY <2>1, <2>2, PowerType, InvoicesAssumption
    <2> QED
        BY <2>1, <2>3
<1> HIDE DEF S
<1>3. S \subseteq Nat
    BY DEF S
<1>4. S = Nat
    BY <1>1, <1>2, <1>3, AllNumbers
<1> QED
    BY <1>4 DEF S
-----------------------------------------------------------------------------
(***************************************************************************)
(* The texts of numbers.                                                   *)
(***************************************************************************)

\* The text of a number has the digits of the number, or is padded.
LEMMA DigitsOf ==
    ASSUME Powers, NEW n \in Nat \ {0}
    PROVE  \E k \in 1..(n + 1) :
               /\ Base^(k - 1) <= n /\ n < Base^k
               /\ Digits(n) = IF k < Width THEN Width ELSE k
<1> DEFINE S == {d \in Nat : n < Base^d}
           Fits(d) == Base^(d - 1) <= n /\ n < Base^d
<1>1. n \in S
    BY PowerAbove
<1>2. PICK k \in S : \A d \in S : k <= d
    BY <1>1, LeastNat
<1>3. k # 0 /\ k \in Nat /\ k <= n
    BY <1>1, <1>2 DEF Powers
<1>4. k - 1 \in Nat /\ k - 1 \notin S
    BY <1>2, <1>3
<1>5. k \in 1..(n + 1) /\ Fits(k)
    BY <1>2, <1>3, <1>4, PowerType
<1>6. (CHOOSE d \in 1..(n + 1) : Fits(d)) \in 1..(n + 1)
      /\ Fits(CHOOSE d \in 1..(n + 1) : Fits(d))
    BY <1>5
<1> QED
    BY <1>6 DEF Digits

LEMMA DigitsType ==
    ASSUME Powers, NEW n \in Nat \ {0}
    PROVE  Digits(n) \in Nat
BY DigitsOf, InvoicesAssumption

LEMMA DigitsPadded ==
    ASSUME Powers, NEW n \in Nat \ {0}, n < Base^Width
    PROVE  Digits(n) = Width
<1>1. PICK k \in 1..(n + 1) :
          /\ Base^(k - 1) <= n /\ n < Base^k
          /\ Digits(n) = IF k < Width THEN Width ELSE k
    BY DigitsOf
<1>2. Width \in Nat /\ k \in Nat /\ k - 1 \in Nat
    BY InvoicesAssumption
<1>3. Base^(k - 1) \in Nat /\ Base^Width \in Nat
    BY <1>2, PowerType
<1>4. ~(Width <= k - 1)
    BY <1>1, <1>2, <1>3, PowerMonotonic
<1> QED
    BY <1>1, <1>2, <1>4

\* Two texts are compared as their numbers are, brought to one length; a text
\* that the other begins with is below it.
LEMMA TextBelowIs ==
    ASSUME Powers, NEW m \in Nat \ {0}, NEW n \in Nat \ {0},
           NEW top \in Nat, Digits(m) <= top, Digits(n) <= top
    PROVE  LET M == m * Base^(top - Digits(m))
               N == n * Base^(top - Digits(n))
           IN  TextBelow(m, n) <=> M < N \/ (M = N /\ Digits(m) < Digits(n))
<1> DEFINE a == Digits(m)
           b == Digits(n)
           p == Base^(top - a)
           q == Base^(top - b)
<1>1. a \in Nat /\ b \in Nat /\ top - a \in Nat /\ top - b \in Nat
    BY DigitsType
<1>2. p \in Nat \ {0} /\ q \in Nat \ {0}
    BY <1>1, PowerType
<1>3. \A x, y \in Nat, r \in Nat \ {0} : x < y <=> x * r < y * r
    OBVIOUS
<1>4. CASE a = b
    <2>1. m < n <=> m * p < n * p
        BY <1>2, <1>3
    <2> QED
        BY <1>1, <1>2, <1>4, <2>1 DEF TextBelow
<1>5. CASE a < b
    <2> DEFINE r == Base^(b - a)
    <2>1. b - a \in Nat /\ top - a = (b - a) + (top - b)
        BY <1>1, <1>5
    <2>2. r \in Nat \ {0} /\ p = r * q
        BY <1>1, <2>1, PowerType, PowerSum
    <2>3. TextBelow(m, n) <=> m <= n \div r
        BY <1>1, <1>5 DEF TextBelow
    <2> HIDE DEF a, b, p, q, r
    <2>4. m <= n \div r <=> m * r <= n
        BY <2>2
    <2>5. m * r <= n <=> (m * r) * q <= n * q
        BY <1>2, <1>3, <2>2
    <2>6. (m * r) * q = m * p
        BY <1>2, <2>2
    <2> QED
        BY <1>1, <1>2, <1>5, <2>3, <2>4, <2>5, <2>6 DEF a, b, p, q
<1>6. CASE b < a
    <2> DEFINE r == Base^(a - b)
    <2>1. a - b \in Nat /\ top - b = (a - b) + (top - a)
        BY <1>1, <1>6
    <2>2. r \in Nat \ {0} /\ q = r * p
        BY <1>1, <2>1, PowerType, PowerSum
    <2>3. TextBelow(m, n) <=> m \div r < n
        BY <1>1, <1>6 DEF TextBelow
    <2> HIDE DEF a, b, p, q, r
    <2>4. m \div r < n <=> m < n * r
        BY <2>2
    <2>5. m < n * r <=> m * p < (n * r) * p
        BY <1>2, <1>3, <2>2
    <2>6. (n * r) * p = n * q
        BY <1>2, <2>2
    <2> QED
        BY <1>1, <1>2, <1>6, <2>3, <2>4, <2>5, <2>6 DEF a, b, p, q
<1> QED
    BY <1>1, <1>4, <1>5, <1>6

(***************************************************************************)
(* The order of the texts of numbers is a strict total order.              *)
(***************************************************************************)
THEOREM TextsAreOrdered == ASSUME Powers PROVE TextsOrdered(Nat \ {0})
<1> SUFFICES ASSUME NEW k \in Nat \ {0}, NEW m \in Nat \ {0}, NEW n \in Nat \ {0}
             PROVE  /\ ~TextBelow(n, n)
                    /\ m # n => TextBelow(m, n) \/ TextBelow(n, m)
                    /\ TextBelow(k, m) /\ TextBelow(m, n) => TextBelow(k, n)
    BY DEF TextsOrdered
<1> DEFINE a == Digits(k)
           b == Digits(m)
           c == Digits(n)
           top == a + b + c
           K == k * Base^(top - a)
           M == m * Base^(top - b)
           N == n * Base^(top - c)
<1>1. a \in Nat /\ b \in Nat /\ c \in Nat
    BY DigitsType
<1>2. /\ top \in Nat /\ a <= top /\ b <= top /\ c <= top
      /\ top - a \in Nat /\ top - b \in Nat /\ top - c \in Nat
    BY <1>1
<1>3. K \in Nat /\ M \in Nat /\ N \in Nat
    BY <1>2, PowerType
<1>4. /\ TextBelow(n, n) <=> N < N \/ (N = N /\ c < c)
      /\ TextBelow(m, n) <=> M < N \/ (M = N /\ b < c)
      /\ TextBelow(n, m) <=> N < M \/ (N = M /\ c < b)
      /\ TextBelow(k, m) <=> K < M \/ (K = M /\ a < b)
      /\ TextBelow(k, n) <=> K < N \/ (K = N /\ a < c)
    BY <1>2, TextBelowIs
<1>5. m # n /\ b = c => M # N
    <2>1. \A x, y \in Nat, r \in Nat \ {0} : x * r = y * r => x = y
        OBVIOUS
    <2> QED
        BY <1>2, <2>1, PowerType
<1> HIDE DEF a, b, c, K, M, N
<1> QED
    BY <1>1, <1>3, <1>4, <1>5

\* Texts of padded numbers are in the order of the numbers.
LEMMA PaddedBelow ==
    ASSUME Powers, NEW m \in Nat \ {0}, NEW n \in Nat \ {0},
           m < Base^Width, n < Base^Width
    PROVE  TextBelow(m, n) <=> m < n
<1>1. Digits(m) = Width /\ Digits(n) = Width /\ Width \in Nat
    BY DigitsPadded, InvoicesAssumption
<1> QED
    BY <1>1 DEF TextBelow
-----------------------------------------------------------------------------
(***************************************************************************)
(* The newest of some rows.                                                *)
(***************************************************************************)

\* A relation that compares any two elements of a set of positions, and is
\* transitive there, has a first element in it.
LEMMA NewestExists ==
    ASSUME NEW N \in Nat, NEW T \in SUBSET (1..N), T # {}, NEW R,
           \A i, j \in T : i # j => <<i, j>> \in R \/ <<j, i>> \in R,
           \A i, j, k \in T : <<i, j>> \in R /\ <<j, k>> \in R => <<i, k>> \in R
    PROVE  \E i \in T : \A j \in T \ {i} : <<i, j>> \in R
<1> DEFINE Upto(k) == {i \in T : i <= k}
           First(k) == \E i \in Upto(k) : \A j \in Upto(k) \ {i} : <<i, j>> \in R
           Bad == {k \in Nat : Upto(k) # {} /\ ~First(k)}
<1>1. Bad = {}
    <2> SUFFICES ASSUME Bad # {} PROVE FALSE
        OBVIOUS
    <2>0. \A i \in T : i \in Nat /\ i >= 1
        OBVIOUS
    <2>1. PICK k \in Bad : \A y \in Bad : k <= y
        BY LeastNat
    <2>2. k \in Nat /\ Upto(k) # {} /\ ~First(k)
        BY <2>1
    <2>3. k >= 1 /\ k - 1 \in Nat /\ k \in Nat
        <3>1. PICK i \in T : i <= k
            BY <2>2
        <3> QED
            BY <3>1, <2>0, <2>2
    <2>4. k - 1 \notin Bad
        BY <2>1, <2>3
    <2> HIDE DEF Bad, First, Upto
    <2>5. CASE k \notin T
        <3>1. Upto(k) = Upto(k - 1)
            <4>1. \A i \in Nat : i # k => (i <= k <=> i <= k - 1)
                BY <2>3
            <4>2. \A i \in T : i \in Nat /\ i # k
                BY <2>5, <2>0
            <4> QED
                BY <4>1, <4>2 DEF Upto
        <3> QED
            BY <3>1, <2>2, <2>3, <2>4 DEF Bad, First
    <2>6. CASE k \in T /\ Upto(k - 1) = {}
        <3>1. Upto(k) = {k}
            <4>1. \A i \in Nat : i <= k => i <= k - 1 \/ i = k
                BY <2>3
            <4>2. k <= k
                BY <2>3
            <4> QED
                BY <4>1, <4>2, <2>6, <2>0 DEF Upto
        <3> QED
            BY <3>1, <2>2 DEF First
    <2>7. CASE k \in T /\ Upto(k - 1) # {}
        <3>1. First(k - 1)
            BY <2>7, <2>4, <2>3 DEF Bad
        <3>2. PICK m \in Upto(k - 1) :
                  \A j \in Upto(k - 1) \ {m} : <<m, j>> \in R
            BY <3>1 DEF First
        <3>3. Upto(k) = Upto(k - 1) \cup {k} /\ k \notin Upto(k - 1)
            <4>1. \A i \in T : i <= k <=> i <= k - 1 \/ i = k
                BY <2>3, <2>0
            <4>2. k <= k /\ ~(k <= k - 1)
                BY <2>3
            <4> QED
                BY <4>1, <4>2, <2>7 DEF Upto
        <3>4. m \in T /\ k \in T /\ m # k
            BY <3>2, <2>7, <3>3 DEF Upto
        <3>5. CASE <<m, k>> \in R
            <4>1. \A j \in Upto(k) \ {m} : <<m, j>> \in R
                BY <3>2, <3>3, <3>5
            <4> QED
                BY <4>1, <3>2, <3>3, <2>2 DEF First
        <3>6. CASE <<k, m>> \in R
            <4>1. ASSUME NEW j \in Upto(k) \ {k} PROVE <<k, j>> \in R
                <5>1. j \in Upto(k - 1) /\ j \in T
                    BY <3>3 DEF Upto
                <5>2. CASE j = m
                    BY <5>2, <3>6
                <5>3. CASE j # m
                    <6>1. <<m, j>> \in R
                        BY <5>1, <5>3, <3>2
                    <6> QED
                        BY <6>1, <3>6, <3>4, <5>1
                <5> QED
                    BY <5>2, <5>3
            <4> QED
                BY <4>1, <3>3, <2>2 DEF First
        <3> QED
            BY <3>4, <3>5, <3>6
    <2> QED
        BY <2>5, <2>6, <2>7
<1>2. Upto(N) = T
    <2>1. \A i \in T : i <= N
        OBVIOUS
    <2> QED
        BY <2>1
<1>3. First(N)
    BY <1>1, <1>2
<1> QED
    BY <1>2, <1>3

\* One row of a series is found last.
LEMMA NewestRow ==
    ASSUME Powers, NEW tn \in Tenants, NEW s,
           rows[tn] \in Seq(RowSet), OfSeries(tn, s) # {},
           \A i, j \in OfSeries(tn, s) :
               rows[tn][i].number = rows[tn][j].number => i = j
    PROVE  \E i \in OfSeries(tn, s) : \A j \in OfSeries(tn, s) \ {i} :
               Newer(rows[tn][i], rows[tn][j])
<1> DEFINE T == OfSeries(tn, s)
           t == rows[tn]
           N == Len(t)
           R == {p \in T \X T : Newer(t[p[1]], t[p[2]])}
<1>1. N \in Nat /\ DOMAIN t = 1..N /\ T \in SUBSET (1..N)
    BY DEF OfSeries
<1>2. \A i \in T : t[i].number \in Nat \ {0} /\ t[i].at \in 0..MaxClock
    <2>1. \A i \in T : t[i] \in RowSet
        BY <1>1
    <2> QED
        BY <2>1 DEF RowSet
<1>3. \A i, j \in T : <<i, j>> \in R <=> Newer(t[i], t[j])
    OBVIOUS
<1>4. \A i, j \in T : i # j => Newer(t[i], t[j]) \/ Newer(t[j], t[i])
    <2> SUFFICES ASSUME NEW i \in T, NEW j \in T, i # j
                 PROVE  Newer(t[i], t[j]) \/ Newer(t[j], t[i])
        OBVIOUS
    <2>1. t[i].number # t[j].number
        OBVIOUS
    <2>2. TextBelow(t[i].number, t[j].number) \/ TextBelow(t[j].number, t[i].number)
        BY <2>1, <1>2, TextsAreOrdered DEF TextsOrdered
    <2>3. t[i].at \in Int /\ t[j].at \in Int
        BY <1>2, InvoicesAssumption
    <2> QED
        BY <2>2, <2>3 DEF Newer
<1>5. \A i, j, k \in T :
          Newer(t[i], t[j]) /\ Newer(t[j], t[k]) => Newer(t[i], t[k])
    <2> SUFFICES ASSUME NEW i \in T, NEW j \in T, NEW k \in T,
                        Newer(t[i], t[j]), Newer(t[j], t[k])
                 PROVE  Newer(t[i], t[k])
        OBVIOUS
    <2>1. t[i].at \in Int /\ t[j].at \in Int /\ t[k].at \in Int
        BY <1>2, InvoicesAssumption
    <2>2. TextBelow(t[k].number, t[j].number) /\ TextBelow(t[j].number, t[i].number)
              => TextBelow(t[k].number, t[i].number)
        <3>1. /\ t[i].number \in Nat \ {0} /\ t[j].number \in Nat \ {0}
              /\ t[k].number \in Nat \ {0}
            BY <1>2
        <3> QED
            BY <3>1, TextsAreOrdered DEF TextsOrdered
    <2> QED
        BY <2>1, <2>2 DEF Newer
<1>6. \E i \in T : \A j \in T \ {i} : <<i, j>> \in R
    <2>1. \A i, j \in T : i # j => <<i, j>> \in R \/ <<j, i>> \in R
        BY <1>3, <1>4
    <2>2. \A i, j, k \in T : <<i, j>> \in R /\ <<j, k>> \in R => <<i, k>> \in R
        BY <1>3, <1>5
    <2> HIDE DEF R, T, N
    <2> QED
        BY <2>1, <2>2, <1>1, NewestExists DEF T
<1>7. \E i \in T : \A j \in T \ {i} : Newer(t[i], t[j])
    BY <1>6, <1>3
<1> QED
    BY <1>7

\* LastRecord is a row of its series.
LEMMA LastRecordIsRow ==
    ASSUME Powers, NEW tn \in Tenants, NEW s,
           rows[tn] \in Seq(RowSet), OfSeries(tn, s) # {},
           \A i, j \in OfSeries(tn, s) :
               rows[tn][i].number = rows[tn][j].number => i = j
    PROVE  \E i \in OfSeries(tn, s) : LastRecord(tn, s) = rows[tn][i]
<1>1. \E i \in OfSeries(tn, s) : \A j \in OfSeries(tn, s) \ {i} :
          Newer(rows[tn][i], rows[tn][j])
    BY NewestRow
<1> QED
    BY <1>1 DEF LastRecord
-----------------------------------------------------------------------------
(***************************************************************************)
(* A row appended to a table.                                              *)
(***************************************************************************)

LEMMA OfAppend ==
    ASSUME NEW table \in Seq(RowSet), NEW row \in RowSet, NEW s
    PROVE  /\ \A i \in 1..Len(table) : Append(table, row)[i] = table[i]
           /\ Append(table, row)[Len(table) + 1] = row
           /\ Of(table, s) \in SUBSET (1..Len(table))
           /\ Of(Append(table, row), s) =
                  IF row.series = s THEN Of(table, s) \cup {Len(table) + 1}
                                    ELSE Of(table, s)
<1>1. /\ Append(table, row) \in Seq(RowSet)
      /\ Len(Append(table, row)) = Len(table) + 1
      /\ \A i \in 1..Len(table) : Append(table, row)[i] = table[i]
      /\ Append(table, row)[Len(table) + 1] = row
    BY AppendProperties
<1>2. DOMAIN table = 1..Len(table) /\ Len(table) \in Nat
    OBVIOUS
<1>3. DOMAIN Append(table, row) = 1..(Len(table) + 1)
    BY <1>1
<1>4. 1..(Len(table) + 1) = 1..Len(table) \cup {Len(table) + 1}
    BY <1>2
<1>5. Of(table, s) \in SUBSET (1..Len(table))
    BY <1>2 DEF Of
<1> DEFINE t2 == Append(table, row)
<1>6. /\ DOMAIN t2 = DOMAIN table \cup {Len(table) + 1}
      /\ \A i \in DOMAIN table : t2[i] = table[i]
      /\ t2[Len(table) + 1] = row
    BY <1>1, <1>2, <1>3, <1>4
<1> HIDE DEF t2
<1>7. Of(t2, s) = IF row.series = s THEN Of(table, s) \cup {Len(table) + 1}
                                    ELSE Of(table, s)
    BY <1>6 DEF Of
<1> QED
    BY <1>1, <1>5, <1>7 DEF t2

LEMMA OfFinite ==
    ASSUME NEW table \in Seq(RowSet), NEW s
    PROVE  IsFiniteSet(Of(table, s)) /\ Cardinality(Of(table, s)) \in Nat
<1>1. Of(table, s) \in SUBSET (1..Len(table)) /\ Len(table) \in Nat
    BY DEF Of
<1>2. IsFiniteSet(1..Len(table))
    BY <1>1, FS_Interval
<1> QED
    BY <1>1, <1>2, FS_Subset, FS_CardinalityType

\* A row of another series changes nothing.
LEMMA OtherSeries ==
    ASSUME NEW table \in Seq(RowSet), NEW row \in RowSet, NEW s,
           row.series # s, InOrder(table, s)
    PROVE  InOrder(Append(table, row), s)
<1> DEFINE T == Of(table, s)
           t2 == Append(table, row)
<1>1. Of(t2, s) = T /\ \A i \in T : t2[i] = table[i]
    BY OfAppend
<1>2. Numbered(table, T) /\ LinkedOf(table, s, T)
    BY DEF InOrder
<1> HIDE DEF T, t2
<1>3. Numbered(t2, T)
    BY <1>1, <1>2 DEF Numbered
<1>4. LinkedOf(t2, s, T)
    BY <1>1, <1>2 DEF LinkedOf
<1> QED
    BY <1>1, <1>3, <1>4 DEF InOrder, t2

\* A row with the next number of its series.
LEMMA NextNumbered ==
    ASSUME NEW table \in Seq(RowSet), NEW row \in RowSet, NEW s, row.series = s,
           Numbered(table, Of(table, s)),
           row.number = Cardinality(Of(table, s)) + 1
    PROVE  Numbered(Append(table, row), Of(Append(table, row), s))
<1> DEFINE T == Of(table, s)
           new == Len(table) + 1
           t2 == Append(table, row)
           T2 == T \cup {new}
<1>1. /\ Of(t2, s) = T2
      /\ T \in SUBSET (1..Len(table))
      /\ \A i \in T : t2[i] = table[i]
      /\ t2[new] = row
    BY OfAppend
<1>2. IsFiniteSet(T) /\ Cardinality(T) \in Nat /\ Len(table) \in Nat
    BY OfFinite
<1>3. new \notin T /\ \A i \in T : i \in Int /\ i <= new /\ ~(new <= i)
    BY <1>1, <1>2
<1>4. Cardinality(T2) = Cardinality(T) + 1
    BY <1>2, <1>3, FS_AddElement
<1>5. \A i \in T : UpTo(T2, i) = UpTo(T, i)
    BY <1>3 DEF UpTo
<1>6. UpTo(T2, new) = T2
    BY <1>3, <1>2 DEF UpTo
<1>7. /\ \A i \in T : table[i].number = Cardinality(UpTo(T, i))
      /\ \A i \in T : table[i].number \in 1..Cardinality(T)
      /\ \A i, j \in T : table[i].number = table[j].number => i = j
      /\ \A c \in 1..Cardinality(T) : \E i \in T : table[i].number = c
    BY DEF Numbered
<1> HIDE DEF T, T2, t2, new
<1>8. \A i \in T2 : t2[i].number = Cardinality(UpTo(T2, i))
    BY ZenonT(60), <1>1, <1>4, <1>5, <1>6, <1>7 DEF T2, T
<1>9. \A i \in T2 : t2[i].number \in 1..Cardinality(T2)
    BY <1>1, <1>2, <1>4, <1>7 DEF T2, T
<1>10. \A i, j \in T2 : t2[i].number = t2[j].number => i = j
    <2>1. \A i \in T : t2[i].number # t2[new].number
        BY <1>1, <1>2, <1>7 DEF T
    <2> QED
        BY <2>1, <1>1, <1>7 DEF T2
<1>11. \A c \in 1..Cardinality(T2) : \E i \in T2 : t2[i].number = c
    <2> SUFFICES ASSUME NEW c \in 1..Cardinality(T2)
                 PROVE  \E i \in T2 : t2[i].number = c
        OBVIOUS
    <2>1. CASE c = Cardinality(T) + 1
        BY <2>1, <1>1 DEF T2, T
    <2>2. CASE c \in 1..Cardinality(T)
        BY <2>2, <1>1, <1>7 DEF T2
    <2> QED
        BY <2>1, <2>2, <1>2, <1>4
<1> QED
    <2>1. Numbered(t2, T2)
        BY <1>8, <1>9, <1>10, <1>11 DEF Numbered
    <2> QED
        BY <1>1, <2>1 DEF t2

\* Such a row, linked to the one with the number before its own.
LEMMA NextLinked ==
    ASSUME NEW table \in Seq(RowSet), NEW row \in RowSet, NEW s, row.series = s,
           InOrder(table, s),
           row.number = Cardinality(Of(table, s)) + 1,
           row.hash = Digest(<<s, row.number>>, row.prev),
           Of(table, s) = {} => row.prev = Genesis,
           \A j \in Of(table, s) : table[j].number = Cardinality(Of(table, s))
                                       => row.prev = table[j].hash
    PROVE  LinkedOf(Append(table, row), s, Of(Append(table, row), s))
<1> DEFINE T == Of(table, s)
           new == Len(table) + 1
           t2 == Append(table, row)
           T2 == T \cup {new}
<1>1. /\ Of(t2, s) = T2
      /\ T \in SUBSET (1..Len(table))
      /\ \A i \in T : t2[i] = table[i]
      /\ t2[new] = row
    BY OfAppend
<1>2. IsFiniteSet(T) /\ Cardinality(T) \in Nat
    BY OfFinite
<1>3. \A i \in T : table[i].number \in 1..Cardinality(T)
    BY DEF InOrder, Numbered
<1>4. \A i \in T :
          /\ table[i].hash = Digest(<<s, table[i].number>>, table[i].prev)
          /\ table[i].number = 1 => table[i].prev = Genesis
          /\ \A j \in T : table[i].number = table[j].number + 1
                              => table[i].prev = table[j].hash
    BY DEF InOrder, LinkedOf
<1>5. Cardinality(T) = 0 => row.prev = Genesis
    BY <1>2, FS_EmptySet
<1>6. \A j \in T : table[j].number = Cardinality(T) => row.prev = table[j].hash
    OBVIOUS
<1>7. row.number = Cardinality(T) + 1
    OBVIOUS
<1> HIDE DEF T, T2, t2, new
<1>8. ASSUME NEW i \in T2
      PROVE  /\ t2[i].hash = Digest(<<s, t2[i].number>>, t2[i].prev)
             /\ t2[i].number = 1 => t2[i].prev = Genesis
             /\ \A j \in T2 : t2[i].number = t2[j].number + 1
                                  => t2[i].prev = t2[j].hash
    <2>1. CASE i \in T
        <3>1. t2[i].number # t2[new].number + 1
            BY <2>1, <1>1, <1>2, <1>3, <1>7
        <3> QED
            BY <2>1, <3>1, <1>1, <1>4 DEF T2
    <2>2. CASE i = new
        <3>1. t2[new].number # t2[new].number + 1
            BY <1>1, <1>2, <1>7
        <3>2. \A j \in T : t2[new].number = t2[j].number + 1
                               => t2[new].prev = t2[j].hash
            BY <1>1, <1>2, <1>3, <1>6, <1>7
        <3>3. t2[new].number = 1 => t2[new].prev = Genesis
            BY <1>1, <1>2, <1>5, <1>7
        <3> QED
            BY <2>2, <3>1, <3>2, <3>3, <1>1 DEF T2
    <2> QED
        BY <2>1, <2>2 DEF T2
<1>9. LinkedOf(t2, s, T2)
    BY <1>8 DEF LinkedOf
<1> QED
    BY <1>1, <1>9 DEF t2
-----------------------------------------------------------------------------
(***************************************************************************)
(* The steps.                                                              *)
(***************************************************************************)

LEMMA InitIInv == Init => IInv
<1> SUFFICES ASSUME Init PROVE IInv
    OBVIOUS
<1>1. TypeOK
    BY InvoicesAssumption DEF Init, TypeOK
<1>2. \A s : Of(<<>>, s) = {}
    BY DEF Of
<1>3. Cardinality({}) = 0
    BY FS_EmptySet
<1>4. \A s : InOrder(<<>>, s)
    <2>1. \A s : Numbered(<<>>, {}) /\ LinkedOf(<<>>, s, {})
        BY <1>3 DEF Numbered, LinkedOf
    <2> QED
        BY <1>2, <2>1 DEF InOrder
<1>5. \A tn \in Tenants : rows[tn] = <<>>
    BY DEF Init
<1> QED
    BY <1>1, <1>4, <1>5 DEF IInv

\* What the row of issue_legal_invoice holds: the next number, and the digest
\* of the row with the number before it.
LEMMA IssuedRow ==
    ASSUME Powers, IInv, NEW tn \in Tenants, NEW s \in Series,
           ~NumberUsed(tn, s, NextSeq(tn, s))
    PROVE  LET T == Of(rows[tn], s) IN
           /\ NextSeq(tn, s) = Cardinality(T) + 1
           /\ PreviousHash(tn, s) \in Seq(Series \X Nat)
           /\ T = {} => PreviousHash(tn, s) = Genesis
           /\ \A j \in T : rows[tn][j].number = Cardinality(T)
                               => PreviousHash(tn, s) = rows[tn][j].hash
<1> DEFINE T == Of(rows[tn], s)
           t == rows[tn]
<1>1. t \in Seq(RowSet) /\ Numbered(t, T)
    BY DEF IInv, TypeOK, InOrder
<1>2. OfSeries(tn, s) = T
    BY DEF OfSeries, Of
<1>3. IsFiniteSet(T) /\ Cardinality(T) \in Nat
    BY <1>1, OfFinite
<1>4. /\ \A i \in T : t[i].number \in 1..Cardinality(T)
      /\ \A i, j \in T : t[i].number = t[j].number => i = j
      /\ \A c \in 1..Cardinality(T) : \E i \in T : t[i].number = c
    BY <1>1 DEF Numbered
<1>5. CASE T = {}
    <2>1. Cardinality(T) = 0
        BY <1>5, FS_EmptySet
    <2>2. NextSeq(tn, s) = 1 /\ PreviousHash(tn, s) = Genesis
        BY <1>5, <1>2 DEF NextSeq, PreviousHash
    <2>3. Genesis \in Seq(Series \X Nat)
        BY DEF Genesis
    <2> QED
        BY <1>5, <2>1, <2>2, <2>3
<1>6. CASE T # {}
    <2>1. PICK i \in T : LastRecord(tn, s) = t[i]
        BY <1>6, <1>2, <1>1, <1>4, LastRecordIsRow
    <2>2. NextSeq(tn, s) = t[i].number + 1 /\ PreviousHash(tn, s) = t[i].hash
        BY <1>6, <1>2, <2>1 DEF NextSeq, PreviousHash
    <2>3. \A j \in T : t[j].number # t[i].number + 1
        BY <1>2, <2>2 DEF NumberUsed
    <2>4. t[i].number = Cardinality(T)
        BY <2>1, <2>3, <1>3, <1>4
    <2>5. t[i].hash \in Seq(Series \X Nat)
        <3>1. i \in 1..Len(t)
            BY <1>1, <2>1 DEF Of
        <3>2. t[i] \in RowSet
            BY <1>1, <3>1
        <3> QED
            BY <3>2 DEF RowSet
    <2> QED
        BY <2>1, <2>2, <2>4, <2>5, <1>4, <1>6
<1> QED
    BY <1>5, <1>6

LEMMA IssueIInv ==
    ASSUME Powers, IInv, NEW tn \in Tenants, NEW s \in Series,
           Issue(tn, s)
    PROVE  IInv'
<1> DEFINE t == rows[tn]
           row == Row(s, NextSeq(tn, s), PreviousHash(tn, s), clock)
<1>1. /\ t \in Seq(RowSet) /\ clock \in 0..MaxClock /\ back \in 0..MaxBack
      /\ rows \in [Tenants -> Seq(RowSet)]
    BY DEF IInv, TypeOK
<1>2. /\ NextSeq(tn, s) = Cardinality(Of(t, s)) + 1
      /\ PreviousHash(tn, s) \in Seq(Series \X Nat)
      /\ Of(t, s) = {} => PreviousHash(tn, s) = Genesis
      /\ \A j \in Of(t, s) : t[j].number = Cardinality(Of(t, s))
                                 => PreviousHash(tn, s) = t[j].hash
    BY IssuedRow DEF Issue
<1>3. Cardinality(Of(t, s)) \in Nat
    BY <1>1, OfFinite
<1>4. NextSeq(tn, s) \in Nat \ {0}
    BY <1>2, <1>3
<1>5. Digest(<<s, NextSeq(tn, s)>>, PreviousHash(tn, s)) \in Seq(Series \X Nat)
    BY <1>2, <1>4 DEF Digest
<1>6. /\ row \in RowSet
      /\ row.series = s /\ row.number = NextSeq(tn, s)
      /\ row.prev = PreviousHash(tn, s)
      /\ row.hash = Digest(<<s, row.number>>, row.prev)
    BY <1>1, <1>2, <1>4, <1>5 DEF Row, RowSet, Year
<1>7. /\ rows' = [rows EXCEPT ![tn] = Append(t, row)]
      /\ clock' = clock /\ back' = back
    BY DEF Issue
<1> HIDE DEF row
<1>8. Append(t, row) \in Seq(RowSet)
    BY <1>1, <1>6, AppendProperties
<1>9. TypeOK'
    BY <1>1, <1>7, <1>8 DEF TypeOK
<1>10. ASSUME NEW s2 \in Series
       PROVE  InOrder(Append(t, row), s2)
    <2>1. InOrder(t, s2)
        BY DEF IInv
    <2>2. CASE s2 # s
        BY <2>1, <2>2, <1>1, <1>6, OtherSeries
    <2>3. CASE s2 = s
        <3>1. Numbered(Append(t, row), Of(Append(t, row), s))
            BY <2>1, <2>3, <1>1, <1>2, <1>6, NextNumbered DEF InOrder
        <3>2. LinkedOf(Append(t, row), s, Of(Append(t, row), s))
            BY <2>1, <2>3, <1>1, <1>2, <1>6, NextLinked
        <3> QED
            BY <3>1, <3>2, <2>3 DEF InOrder
    <2> QED
        BY <2>2, <2>3
<1>11. ASSUME NEW tn2 \in Tenants, NEW s2 \in Series
       PROVE  InOrder(rows'[tn2], s2)
    <2>1. CASE tn2 = tn
        BY <2>1, <1>1, <1>7, <1>10
    <2>2. CASE tn2 # tn
        <3>1. rows'[tn2] = rows[tn2]
            BY <2>2, <1>1, <1>7
        <3>2. InOrder(rows[tn2], s2)
            BY DEF IInv
        <3> QED
            BY <3>1, <3>2
    <2> QED
        BY <2>1, <2>2
<1> QED
    BY <1>9, <1>11 DEF IInv, InOrder, Numbered, LinkedOf, Of, UpTo

\* The clock does not touch the rows.
LEMMA ClockIInv == IInv /\ (Tick \/ SetBack \/ UNCHANGED vars) => IInv'
<1> SUFFICES ASSUME IInv, Tick \/ SetBack \/ UNCHANGED vars PROVE IInv'
    OBVIOUS
<1>1. rows' = rows
    BY DEF Tick, SetBack, vars
<1>2. TypeOK'
    BY <1>1, InvoicesAssumption DEF IInv, TypeOK, Tick, SetBack, vars
<1>3. (\A tn \in Tenants, s \in Series : InOrder(rows[tn], s))'
    BY <1>1 DEF IInv, InOrder, Numbered, LinkedOf, Of, UpTo
<1> QED
    BY <1>2, <1>3 DEF IInv

LEMMA IInvariant == ASSUME Powers PROVE Spec => []IInv
<1>1. Init => IInv
    BY InitIInv
<1>2. IInv /\ [Next]_vars => IInv'
    <2> SUFFICES ASSUME IInv, [Next]_vars PROVE IInv'
        OBVIOUS
    <2>1. ASSUME NEW tn \in Tenants, NEW s \in Series, Issue(tn, s) PROVE IInv'
        BY <2>1, IssueIInv
    <2>2. CASE Tick \/ SetBack \/ UNCHANGED vars
        BY <2>2, ClockIInv
    <2> QED
        BY <2>1, <2>2 DEF Next
<1> QED
    BY <1>1, <1>2, PTL DEF Spec
-----------------------------------------------------------------------------
\* Every variable has its type.
THEOREM TypeCorrect == ASSUME Powers PROVE Spec => []TypeOK
<1>1. IInv => TypeOK
    BY DEF IInv
<1> QED
    BY <1>1, IInvariant, PTL

(***************************************************************************)
(* The numbers of every series are 1, 2, ... in the order of issue, with   *)
(* no gap, whatever the clock of the machine does.                         *)
(***************************************************************************)
THEOREM AlwaysCorrelative == ASSUME Powers PROVE Spec => []Correlative
<1>1. IInv => Correlative
    BY DEF IInv, Correlative, InOrder, Numbered, Of, OfSeries, UpTo
<1> QED
    BY <1>1, IInvariant, PTL

\* Every invoice is linked to the one with the number before its own.
THEOREM AlwaysLinked ==
    ASSUME Powers
    PROVE  Spec => [](\A tn \in Tenants, s \in Series :
                          LinkedOf(rows[tn], s, Of(rows[tn], s)))
<1>1. IInv => \A tn \in Tenants, s \in Series :
                  LinkedOf(rows[tn], s, Of(rows[tn], s))
    BY DEF IInv, InOrder
<1> QED
    BY <1>1, IInvariant, PTL
-----------------------------------------------------------------------------
(***************************************************************************)
(* The rows of a series as a log: a row is at the place its number says.   *)
(***************************************************************************)

\* SeriesLog(tn, s) is LogOf(rows[tn], s).
LogOf(table, s) ==
    [n \in 1..Cardinality(Of(table, s)) |->
        LogRecord(table[CHOOSE i \in Of(table, s) : table[i].number = n])]

Logs == [o \in Tenants \X Series |-> SeriesLog(o[1], o[2])]

LEMMA LogIs ==
    ASSUME NEW tn \in Tenants, NEW s \in Series
    PROVE  /\ SeriesLog(tn, s) = LogOf(rows[tn], s)
           /\ SeriesLog(tn, s)' = LogOf(rows'[tn], s)
BY DEF SeriesLog, LogOf, OfSeries, Of

LEMMA LogHolds ==
    ASSUME NEW table \in Seq(RowSet), NEW s, Numbered(table, Of(table, s))
    PROVE  LET T == Of(table, s) IN
           /\ LogOf(table, s) \in Seq({LogRecord(table[i]) : i \in T})
           /\ Len(LogOf(table, s)) = Cardinality(T)
           /\ \A i \in T : LogOf(table, s)[table[i].number] = LogRecord(table[i])
<1> DEFINE T == Of(table, s)
           row(n) == CHOOSE i \in T : table[i].number = n
           log == LogOf(table, s)
<1>1. Cardinality(T) \in Nat
    BY OfFinite
<1>2. /\ \A i \in T : table[i].number \in 1..Cardinality(T)
      /\ \A i, j \in T : table[i].number = table[j].number => i = j
      /\ \A c \in 1..Cardinality(T) : \E i \in T : table[i].number = c
    BY DEF Numbered
<1>3. \A n \in 1..Cardinality(T) : row(n) \in T
    BY <1>2
<1>4. \A i \in T : row(table[i].number) = i
    BY <1>2
<1>5. log = [n \in 1..Cardinality(T) |-> LogRecord(table[row(n)])]
    BY DEF LogOf
<1> HIDE DEF T, row, log
<1>6. log \in Seq({LogRecord(table[i]) : i \in T}) /\ Len(log) = Cardinality(T)
    BY <1>1, <1>3, <1>5
<1>7. \A i \in T : log[table[i].number] = LogRecord(table[i])
    BY <1>2, <1>4, <1>5
<1> QED
    BY <1>6, <1>7 DEF T, log

\* The last digest of a log is that of the row with the largest number.
LEMMA LogLast ==
    ASSUME NEW table \in Seq(RowSet), NEW s, Numbered(table, Of(table, s))
    PROVE  LET T == Of(table, s) IN
           /\ T = {} => LastHash(LogOf(table, s)) = Genesis
           /\ T # {} => \E i \in T : /\ table[i].number = Cardinality(T)
                                    /\ LastHash(LogOf(table, s)) = table[i].hash
<1> DEFINE T == Of(table, s)
           log == LogOf(table, s)
<1>1. /\ log \in Seq({LogRecord(table[i]) : i \in T})
      /\ Len(log) = Cardinality(T)
      /\ \A i \in T : log[table[i].number] = LogRecord(table[i])
    BY LogHolds
<1>2. IsFiniteSet(T) /\ Cardinality(T) \in Nat
    BY OfFinite
<1>3. \A c \in 1..Cardinality(T) : \E i \in T : table[i].number = c
    BY DEF Numbered
<1> HIDE DEF T, log
<1>4. T = {} => LastHash(log) = Genesis
    <2> SUFFICES ASSUME T = {} PROVE LastHash(log) = Genesis
        OBVIOUS
    <2>1. log = <<>>
        BY <1>1, FS_EmptySet
    <2> QED
        BY <2>1 DEF LastHash
<1>5. ASSUME T # {}
      PROVE  \E i \in T : table[i].number = Cardinality(T) /\ LastHash(log) = table[i].hash
    <2>1. Cardinality(T) # 0
        BY <1>2, <1>5, FS_EmptySet
    <2>2. PICK i \in T : table[i].number = Cardinality(T)
        BY <2>1, <1>2, <1>3
    <2>3. log # <<>> /\ log[Len(log)] = LogRecord(table[i])
        BY <2>1, <2>2, <1>1
    <2>4. LastHash(log) = table[i].hash
        BY <2>3 DEF LastHash, LogRecord
    <2> QED
        BY <2>2, <2>4
<1> QED
    BY <1>4, <1>5 DEF T, log

\* A sequence is another one with an element at its end.
LEMMA GrownByOne ==
    ASSUME NEW A, NEW B, NEW a \in Seq(A), NEW b \in Seq(B), NEW e,
           Len(b) = Len(a) + 1, b[Len(a) + 1] = e,
           \A c \in 1..Len(a) : b[c] = a[c]
    PROVE  b = Append(a, e)
<1>1. /\ Len(Append(a, e)) = Len(a) + 1
      /\ \A c \in 1..Len(a) : Append(a, e)[c] = a[c]
      /\ Append(a, e)[Len(a) + 1] = e
      /\ Append(a, e) \in Seq(A \cup {e})
    <2>1. a \in Seq(A \cup {e})
        OBVIOUS
    <2> QED
        BY <2>1, AppendProperties
<1>2. Len(a) \in Nat /\ \A c \in 1..(Len(a) + 1) : c \in 1..Len(a) \/ c = Len(a) + 1
    OBVIOUS
<1>3. \A c \in 1..Len(b) : b[c] = Append(a, e)[c]
    BY <1>1, <1>2
<1>4. b \in Seq(A \cup B \cup {e}) /\ Append(a, e) \in Seq(A \cup B \cup {e})
    BY <1>1
<1> QED
    BY <1>1, <1>3, <1>4, SeqEqual

\* A row of another series is not in the log; the next one is at its end.
LEMMA LogAppend ==
    ASSUME NEW table \in Seq(RowSet), NEW row \in RowSet, NEW s,
           Numbered(table, Of(table, s))
    PROVE  /\ row.series # s => LogOf(Append(table, row), s) = LogOf(table, s)
           /\ row.series = s /\ row.number = Cardinality(Of(table, s)) + 1
                  => LogOf(Append(table, row), s)
                         = Append(LogOf(table, s), LogRecord(row))
<1> DEFINE T == Of(table, s)
           new == Len(table) + 1
           t2 == Append(table, row)
           T2 == Of(t2, s)
           log == LogOf(table, s)
           log2 == LogOf(t2, s)
<1>1. /\ \A i \in T : t2[i] = table[i]
      /\ t2[new] = row
      /\ T2 = IF row.series = s THEN T \cup {new} ELSE T
    BY OfAppend
<1>2. T \in SUBSET (1..Len(table)) /\ Len(table) \in Nat
    BY OfAppend
<1>3. IsFiniteSet(T) /\ Cardinality(T) \in Nat
    BY OfFinite
<1>4. CASE row.series # s
    <2>1. T2 = T
        BY <1>1, <1>4
    <2> DEFINE at(n) == table[CHOOSE i \in T : table[i].number = n]
               at2(n) == t2[CHOOSE i \in T2 : t2[i].number = n]
    <2>2. /\ log = [n \in 1..Cardinality(T) |-> LogRecord(at(n))]
          /\ log2 = [n \in 1..Cardinality(T2) |-> LogRecord(at2(n))]
        BY DEF LogOf
    <2>3. \A c \in 1..Cardinality(T) : \E i \in T : table[i].number = c
        BY DEF Numbered
    <2> HIDE DEF T, T2, t2, log, log2
    <2>4. ASSUME NEW n \in 1..Cardinality(T) PROVE at2(n) = at(n)
        <3>1. \A i \in T : t2[i].number = n <=> table[i].number = n
            BY <1>1
        <3>2. (CHOOSE i \in T : t2[i].number = n)
                  = (CHOOSE i \in T : table[i].number = n)
            BY <3>1
        <3>3. (CHOOSE i \in T : table[i].number = n) \in T
            BY <2>3
        <3> QED
            BY <3>2, <3>3, <2>1, <1>1
    <2> HIDE DEF at, at2
    <2>5. log2 = log
        BY <2>1, <2>2, <2>4
    <2> QED
        BY <2>5, <1>4 DEF log, log2, t2
<1>5. CASE row.series = s /\ row.number = Cardinality(T) + 1
    <2>1. T2 = T \cup {new}
        BY <1>1, <1>5
    <2>2. Cardinality(T2) = Cardinality(T) + 1
        <3>1. new \notin T
            BY <1>2
        <3> QED
            BY <2>1, <3>1, <1>3, FS_AddElement
    <2>3. t2 \in Seq(RowSet)
        BY AppendProperties
    <2>4. Numbered(t2, T2)
        BY <1>5, NextNumbered
    <2>5. /\ log2 \in Seq({LogRecord(t2[i]) : i \in T2})
          /\ Len(log2) = Cardinality(T2)
          /\ \A i \in T2 : log2[t2[i].number] = LogRecord(t2[i])
        BY <2>3, <2>4, LogHolds
    <2>6. /\ log \in Seq({LogRecord(table[i]) : i \in T})
          /\ Len(log) = Cardinality(T)
          /\ \A i \in T : log[table[i].number] = LogRecord(table[i])
        BY LogHolds
    <2>7. \A c \in 1..Cardinality(T) : \E i \in T : table[i].number = c
        BY DEF Numbered
    <2> HIDE DEF T, T2, t2, new, log, log2
    <2>8. \A c \in 1..Cardinality(T) : log2[c] = log[c]
        <3> SUFFICES ASSUME NEW c \in 1..Cardinality(T) PROVE log2[c] = log[c]
            OBVIOUS
        <3>1. PICK i \in T : table[i].number = c
            BY <2>7
        <3>2. log2[t2[i].number] = LogRecord(t2[i]) /\ t2[i] = table[i]
            BY <2>1, <2>5, <1>1
        <3> QED
            BY <3>1, <3>2, <2>6
    <2>9. log2[Cardinality(T) + 1] = LogRecord(row)
        BY <2>1, <2>5, <1>1, <1>5
    <2>10. log2 = Append(log, LogRecord(row))
        BY <2>2, <2>5, <2>6, <2>8, <2>9, <1>3, GrownByOne
    <2> QED
        BY <2>10, <1>5 DEF log, log2, t2, T
<1> QED
    BY <1>4, <1>5

(***************************************************************************)
(* Each step is a step of the log, or leaves it as it is.                  *)
(***************************************************************************)

LEMMA IssueLogs ==
    ASSUME Powers, IInv, NEW tn \in Tenants, NEW s \in Series, Issue(tn, s)
    PROVE  Log!Next
<1> DEFINE t == rows[tn]
           T == Of(t, s)
           row == Row(s, NextSeq(tn, s), PreviousHash(tn, s), clock)
           o == <<tn, s>>
           doc == <<s, NextSeq(tn, s)>>
<1>1. /\ t \in Seq(RowSet) /\ clock \in 0..MaxClock
      /\ rows \in [Tenants -> Seq(RowSet)]
      /\ \A z \in Series : Numbered(t, Of(t, z))
    BY DEF IInv, TypeOK, InOrder
<1>2. /\ NextSeq(tn, s) = Cardinality(T) + 1
      /\ PreviousHash(tn, s) \in Seq(Series \X Nat)
      /\ T = {} => PreviousHash(tn, s) = Genesis
      /\ \A j \in T : t[j].number = Cardinality(T)
                          => PreviousHash(tn, s) = t[j].hash
    BY IssuedRow DEF Issue
<1>3. NextSeq(tn, s) \in 1..MaxRows
    <2>1. T \in SUBSET (1..Len(t)) /\ Len(t) \in Nat /\ Len(t) < MaxRows
        BY <1>1 DEF Of, Issue
    <2>2. IsFiniteSet(1..Len(t)) /\ Cardinality(1..Len(t)) = Len(t)
        <3>1. \A n \in Nat : IsFiniteSet(1..n) /\ Cardinality(1..n) = n
            BY FS_Interval
        <3> HIDE DEF T, t
        <3> QED
            BY <2>1, <3>1
    <2>3. Cardinality(T) \in Nat
        BY <1>1, OfFinite
    <2>4. Cardinality(T) <= Len(t)
        <3> HIDE DEF T, t
        <3> QED
            BY <2>1, <2>2, FS_Subset
    <2> HIDE DEF T, t
    <2> QED
        BY <2>1, <2>3, <2>4, <1>2, InvoicesAssumption
<1>4. row \in RowSet
    <2> DEFINE digest == Digest(doc, PreviousHash(tn, s))
    <2>1. NextSeq(tn, s) \in Nat \ {0}
        BY <1>3, InvoicesAssumption
    <2>2. digest \in Seq(Series \X Nat)
        BY <1>2, <2>1 DEF Digest
    <2>3. Year(clock) \in {1, 2}
        BY DEF Year
    <2>4. row = [series |-> s, number |-> NextSeq(tn, s), prev |-> PreviousHash(tn, s),
                 hash |-> digest, at |-> clock, year |-> Year(clock)]
        BY DEF Row
    <2> HIDE DEF row, digest
    <2> QED
        BY <1>1, <1>2, <2>1, <2>2, <2>3, <2>4 DEF RowSet
<1>5. /\ row.series = s /\ row.number = NextSeq(tn, s)
      /\ LogRecord(row) = Log!Record(doc, PreviousHash(tn, s))
    BY DEF Row, LogRecord, Log!Record, Digest, Log!Digest
<1>6. rows' = [rows EXCEPT ![tn] = Append(t, row)]
    BY DEF Issue
<1>7. LastHash(SeriesLog(tn, s)) = PreviousHash(tn, s)
    <2>1. /\ T = {} => LastHash(LogOf(t, s)) = Genesis
          /\ T # {} => \E i \in T : /\ t[i].number = Cardinality(T)
                                   /\ LastHash(LogOf(t, s)) = t[i].hash
        BY <1>1, LogLast
    <2> HIDE DEF T, t
    <2>2. LastHash(LogOf(t, s)) = PreviousHash(tn, s)
        BY <2>1, <1>2
    <2> QED
        BY <2>2, LogIs DEF t
<1> HIDE DEF row
<1>8. SeriesLog(tn, s)'
          = Append(SeriesLog(tn, s), Log!Record(doc, LastHash(SeriesLog(tn, s))))
    <2>1. rows'[tn] = Append(t, row)
        BY <1>1, <1>6
    <2>2. LogOf(Append(t, row), s) = Append(LogOf(t, s), LogRecord(row))
        BY <1>1, <1>2, <1>4, <1>5, LogAppend
    <2> QED
        BY <2>1, <2>2, <1>5, <1>7, LogIs
<1>9. ASSUME NEW u \in Tenants, NEW z \in Series, <<u, z>> # o
      PROVE  SeriesLog(u, z)' = SeriesLog(u, z)
    <2>1. CASE u # tn
        <3>1. rows'[u] = rows[u]
            BY <2>1, <1>1, <1>6
        <3> QED
            BY <3>1, LogIs
    <2>2. CASE u = tn
        <3>1. rows'[u] = Append(t, row) /\ row.series # z
            BY <2>2, <1>1, <1>5, <1>6, <1>9
        <3>2. LogOf(Append(t, row), z) = LogOf(t, z)
            BY <3>1, <1>1, <1>4, LogAppend
        <3> QED
            BY <2>2, <3>1, <3>2, LogIs
    <2> QED
        BY <2>1, <2>2
<1>10. Logs' = [Logs EXCEPT ![o] = Append(@, Log!Record(doc, LastHash(@)))]
    <2>1. Logs[o] = SeriesLog(tn, s) /\ o \in Tenants \X Series
        BY DEF Logs
    <2>2. Logs' = [p \in Tenants \X Series |-> SeriesLog(p[1], p[2])']
        BY DEF Logs
    <2>3. \A p \in Tenants \X Series : p # o => SeriesLog(p[1], p[2])' = Logs[p]
        BY <1>9 DEF Logs
    <2>4. SeriesLog(o[1], o[2])' = Append(Logs[o], Log!Record(doc, LastHash(Logs[o])))
        BY <1>8, <2>1
    <2> HIDE DEF o, doc
    <2> QED
        BY <2>1, <2>2, <2>3, <2>4 DEF Logs
<1>11. Log!AppendRecord(o, doc)
    BY <1>10 DEF Log!AppendRecord, Logs, LastHash, Log!LastHash, Genesis, Log!Genesis
<1>12. o \in Tenants \X Series /\ doc \in Series \X (1..MaxRows)
    BY <1>3
<1> QED
    BY <1>11, <1>12 DEF Log!Next

LEMMA ClockLogs == Tick \/ SetBack \/ UNCHANGED vars => UNCHANGED Logs
<1> SUFFICES ASSUME Tick \/ SetBack \/ UNCHANGED vars PROVE UNCHANGED Logs
    OBVIOUS
<1>1. rows' = rows
    BY DEF Tick, SetBack, vars
<1> QED
    BY <1>1 DEF Logs, SeriesLog, OfSeries

LEMMA InitLogs == Init => Log!Init
<1> SUFFICES ASSUME Init PROVE Log!Init
    OBVIOUS
<1>1. ASSUME NEW tn \in Tenants, NEW s \in Series PROVE SeriesLog(tn, s) = <<>>
    <2>1. OfSeries(tn, s) = {} /\ Cardinality({}) = 0
        BY FS_EmptySet DEF Init, OfSeries
    <2> QED
        BY <2>1 DEF SeriesLog
<1> QED
    BY <1>1 DEF Log!Init

(***************************************************************************)
(* Each series of each tenant is an append-only log of linked records,     *)
(* whatever the clock does and whichever row the code finds last.          *)
(***************************************************************************)
THEOREM InvoicesImplementLog == ASSUME Powers PROVE Spec => ImplementsLog
<1>1. IInv /\ [Next]_vars => [Log!Next]_Logs
    <2> SUFFICES ASSUME IInv, [Next]_vars PROVE Log!Next \/ UNCHANGED Logs
        OBVIOUS
    <2>1. ASSUME NEW tn \in Tenants, NEW s \in Series, Issue(tn, s)
          PROVE  Log!Next
        BY <2>1, IssueLogs
    <2> QED
        BY <2>1, ClockLogs DEF Next
<1> QED
    BY <1>1, InitLogs, IInvariant, PTL DEF Spec, ImplementsLog, Log!Spec, Logs
-----------------------------------------------------------------------------
(***************************************************************************)
(* The next number of a series, as long as the clock has not been set      *)
(* back: the rows are then in the order of their times.                    *)
(***************************************************************************)

Clocked ==
    back = 0 =>
        \A tn \in Tenants : \A i, j \in DOMAIN rows[tn] :
            i <= j => rows[tn][i].at <= rows[tn][j].at /\ rows[tn][j].at <= clock

LEMMA IssueClocked ==
    ASSUME IInv, IInv', Clocked, NEW tn \in Tenants, NEW s \in Series, Issue(tn, s)
    PROVE  Clocked'
<1> SUFFICES ASSUME back = 0, NEW o \in Tenants,
                    NEW i \in DOMAIN rows'[o], NEW j \in DOMAIN rows'[o], i <= j
             PROVE  rows'[o][i].at <= rows'[o][j].at /\ rows'[o][j].at <= clock
    BY DEF Clocked, Issue
<1> DEFINE t == rows[tn]
           row == Row(s, NextSeq(tn, s), PreviousHash(tn, s), clock)
<1>1. t \in Seq(RowSet) /\ rows \in [Tenants -> Seq(RowSet)] /\ clock \in Int
    BY InvoicesAssumption DEF IInv, TypeOK
<1>2. rows' = [rows EXCEPT ![tn] = Append(t, row)]
    BY DEF Issue
<1>3. row.at = clock
    BY DEF Row
<1>4. CASE o # tn
    BY <1>1, <1>2, <1>4 DEF Clocked
<1>5. CASE o = tn
    <2> HIDE DEF row
    <2>1. /\ rows'[o] = Append(t, row) /\ Len(t) \in Nat
          /\ DOMAIN t = 1..Len(t) /\ DOMAIN Append(t, row) = 1..(Len(t) + 1)
          /\ \A n \in 1..Len(t) : Append(t, row)[n] = t[n]
          /\ Append(t, row)[Len(t) + 1] = row
        BY <1>1, <1>2, <1>5
    <2>2. \A n, m \in 1..Len(t) : n <= m => t[n].at <= t[m].at /\ t[m].at <= clock
        BY <2>1 DEF Clocked
    <2>3. CASE j \in 1..Len(t)
        <3>1. i \in 1..Len(t)
            BY <2>1, <2>3
        <3> QED
            BY <2>1, <2>2, <2>3, <3>1
    <2>4. CASE j = Len(t) + 1
        <3>1. rows'[o][j].at = clock
            BY <1>3, <2>1, <2>4
        <3>2. CASE i \in 1..Len(t)
            BY <1>1, <2>1, <2>2, <3>1, <3>2
        <3>3. CASE i = Len(t) + 1
            BY <1>1, <1>3, <2>1, <3>1, <3>3
        <3> QED
            BY <2>1, <3>2, <3>3
    <2> QED
        BY <2>1, <2>3, <2>4
<1> QED
    BY <1>4, <1>5

LEMMA ClockClocked ==
    ASSUME IInv, Clocked, Tick \/ SetBack \/ UNCHANGED vars
    PROVE  Clocked'
<1>1. clock \in Int /\ back \in Nat /\ rows' = rows
    BY InvoicesAssumption DEF IInv, TypeOK, Tick, SetBack, vars
<1>2. back' = 0 => back = 0 /\ clock' \in Int /\ clock <= clock'
    BY <1>1 DEF Tick, SetBack, vars
<1>3. \A tn \in Tenants : \A j \in DOMAIN rows[tn] : rows[tn][j].at \in Int
    <2>1. \A tn \in Tenants : \A j \in DOMAIN rows[tn] : rows[tn][j] \in RowSet
        BY DEF IInv, TypeOK
    <2> QED
        BY <2>1, InvoicesAssumption DEF RowSet
<1> QED
    BY <1>1, <1>2, <1>3 DEF Clocked

LEMMA ClockedInvariant == ASSUME Powers PROVE Spec => []Clocked
<1>1. Init => Clocked
    BY DEF Init, Clocked
<1>2. IInv /\ IInv' /\ Clocked /\ [Next]_vars => Clocked'
    <2> SUFFICES ASSUME IInv, IInv', Clocked, [Next]_vars PROVE Clocked'
        OBVIOUS
    <2>1. ASSUME NEW tn \in Tenants, NEW s \in Series, Issue(tn, s) PROVE Clocked'
        BY <2>1, IssueClocked
    <2>2. CASE Tick \/ SetBack \/ UNCHANGED vars
        BY <2>2, ClockClocked
    <2> QED
        BY <2>1, <2>2 DEF Next
<1> QED
    BY <1>1, <1>2, IInvariant, PTL DEF Spec

\* The numbers of a series are in the order of its rows.
LEMMA NumbersAscend ==
    ASSUME NEW table \in Seq(RowSet), NEW s, Numbered(table, Of(table, s)),
           NEW i \in Of(table, s), NEW j \in Of(table, s),
           table[i].number < table[j].number
    PROVE  i < j
<1> DEFINE T == Of(table, s)
<1>1. T \in SUBSET Nat /\ IsFiniteSet(T)
    <2>1. DOMAIN table \in SUBSET Nat
        OBVIOUS
    <2> QED
        BY <2>1, OfFinite DEF Of
<1>2. i \in Nat /\ j \in Nat
    BY <1>1
<1>3. ASSUME j <= i PROVE FALSE
    <2>1. UpTo(T, j) \subseteq UpTo(T, i) /\ UpTo(T, i) \subseteq T
        BY <1>1, <1>2, <1>3 DEF UpTo
    <2>2. IsFiniteSet(UpTo(T, i)) /\ IsFiniteSet(UpTo(T, j))
        BY <1>1, <2>1, FS_Subset
    <2>3. /\ Cardinality(UpTo(T, j)) <= Cardinality(UpTo(T, i))
          /\ Cardinality(UpTo(T, i)) \in Nat /\ Cardinality(UpTo(T, j)) \in Nat
        BY <2>1, <2>2, FS_Subset, FS_CardinalityType
    <2>4. /\ table[i].number = Cardinality(UpTo(T, i))
          /\ table[j].number = Cardinality(UpTo(T, j))
        BY DEF Numbered
    <2> QED
        BY <2>3, <2>4
<1> QED
    BY <1>2, <1>3

\* The row found last is the one with the highest number.
LEMMA LastIsHighest ==
    ASSUME Powers, IInv, Clocked, back = 0, NEW tn \in Tenants, NEW s \in Series,
           Padded(tn, s), OfSeries(tn, s) # {}
    PROVE  NextSeq(tn, s) = Cardinality(OfSeries(tn, s)) + 1
<1> DEFINE T == OfSeries(tn, s)
           t == rows[tn]
           n == Cardinality(T)
           last == CHOOSE i \in T : \A j \in T \ {i} : Newer(t[i], t[j])
<1>1. t \in Seq(RowSet) /\ Numbered(t, T) /\ T = Of(t, s)
    BY DEF IInv, TypeOK, InOrder, OfSeries, Of
<1>2. /\ \A i \in T : t[i].number \in 1..n
      /\ \A i, j \in T : t[i].number = t[j].number => i = j
      /\ \A c \in 1..n : \E i \in T : t[i].number = c
    BY <1>1 DEF Numbered
<1>3. n \in Nat
    BY <1>1, OfFinite
<1>4. last \in T /\ \A j \in T \ {last} : Newer(t[last], t[j])
    <2>1. \E i \in T : \A j \in T \ {i} : Newer(t[i], t[j])
        BY <1>1, <1>2, NewestRow
    <2> QED
        BY <2>1
<1> HIDE DEF last
<1>5. PICK high \in T : t[high].number = n
    BY <1>2, <1>3, <1>4
<1>6. high = last
    <2> SUFFICES ASSUME high # last PROVE FALSE
        OBVIOUS
    <2>1. t[last].number < n
        BY <1>2, <1>3, <1>4, <1>5
    <2>2. last < high
        BY <1>1, <1>4, <1>5, <2>1, NumbersAscend
    <2>3. /\ last \in DOMAIN t /\ high \in DOMAIN t /\ last \in Nat /\ high \in Nat
          /\ t[last].at \in Int /\ t[high].at \in Int
        <3>1. last \in DOMAIN t /\ high \in DOMAIN t
            BY <1>4, <1>5 DEF OfSeries
        <3>2. t[last] \in RowSet /\ t[high] \in RowSet /\ DOMAIN t = 1..Len(t)
            BY <1>1, <3>1
        <3> QED
            BY SMTT(30), <3>1, <3>2, InvoicesAssumption DEF RowSet
    <2>4. t[last].at <= t[high].at
        BY <2>2, <2>3 DEF Clocked
    <2>5. Newer(t[last], t[high])
        BY <1>4, <1>5
    <2>6. TextBelow(t[high].number, t[last].number)
        BY <2>3, <2>4, <2>5 DEF Newer
    <2>7. t[high].number < t[last].number
        BY <1>2, <1>4, <1>5, <2>6, PaddedBelow DEF Padded
    <2> QED
        BY <1>2, <1>3, <1>4, <1>5, <2>1, <2>7
<1> QED
    BY <1>4, <1>5, <1>6 DEF NextSeq, LastRecord, last

(***************************************************************************)
(* A series can go on: while the clock has not been set back and numbers   *)
(* fit their padding, the number the code chooses is not in use.           *)
(***************************************************************************)
THEOREM AlwaysFree == ASSUME Powers PROVE Spec => []NextIsFree
<1>1. IInv /\ Clocked => NextIsFree
    <2> SUFFICES ASSUME IInv, Clocked, back = 0, NEW tn \in Tenants, NEW s \in Series,
                        Padded(tn, s)
                 PROVE  ~NumberUsed(tn, s, NextSeq(tn, s))
        BY DEF NextIsFree
    <2> DEFINE T == OfSeries(tn, s)
    <2>1. CASE T = {}
        BY <2>1 DEF NumberUsed
    <2>2. CASE T # {}
        <3>1. NextSeq(tn, s) = Cardinality(T) + 1
            BY <2>2, LastIsHighest
        <3>2. T = Of(rows[tn], s) /\ rows[tn] \in Seq(RowSet) /\ Numbered(rows[tn], T)
            BY DEF IInv, TypeOK, InOrder, OfSeries, Of
        <3>3. Cardinality(T) \in Nat
            BY <3>2, OfFinite
        <3>4. \A i \in T : rows[tn][i].number \in 1..Cardinality(T)
            BY <3>2 DEF Numbered
        <3> QED
            BY <3>1, <3>3, <3>4 DEF NumberUsed
    <2> QED
        BY <2>1, <2>2
<1> QED
    BY <1>1, IInvariant, ClockedInvariant, PTL
-----------------------------------------------------------------------------
(***************************************************************************)
(* The audit of a year.                                                    *)
(***************************************************************************)

LEMMA YearIsVerified ==
    ASSUME Powers, IInv, NEW tn \in Tenants, NEW s \in Series, NEW y,
           OfSeries(tn, s) = DOMAIN rows[tn], OfYear(tn, y) = DOMAIN rows[tn],
           Padded(tn, s)
    PROVE  YearVerified(tn, y)
<1> DEFINE T == OfYear(tn, y)
           t == rows[tn]
           n == Cardinality(T)
<1>1. t \in Seq(RowSet) /\ InOrder(t, s) /\ T = Of(t, s) /\ OfSeries(tn, s) = T
    BY DEF IInv, TypeOK, OfSeries, Of
<1>2. /\ \A i \in T : t[i].number \in 1..n
      /\ \A i, j \in T : t[i].number = t[j].number => i = j
      /\ \A c \in 1..n : \E i \in T : t[i].number = c
    BY <1>1 DEF InOrder, Numbered
<1>3. n \in Nat
    BY <1>1, OfFinite
<1>4. \A i \in T :
          /\ t[i].number = 1 => t[i].prev = Genesis
          /\ \A j \in T : t[i].number = t[j].number + 1 => t[i].prev = t[j].hash
    BY <1>1 DEF InOrder, LinkedOf
<1>5. \A i, j \in T : TextBelow(t[i].number, t[j].number) <=> t[i].number < t[j].number
    <2>1. \A i \in T : t[i].number \in Nat \ {0} /\ t[i].number < Base^Width
        BY <1>1, <1>2, <1>3 DEF Padded
    <2> QED
        BY <2>1, PaddedBelow
<1> HIDE DEF T, t, n
<1>6. ASSUME NEW i \in T
      PROVE  LET below == {j \in T : TextBelow(t[j].number, t[i].number)}
             IN  t[i].prev = IF below = {} THEN Genesis
                     ELSE t[CHOOSE j \in below : \A k \in below \ {j} :
                              TextBelow(t[k].number, t[j].number)].hash
    <2> DEFINE below == {j \in T : TextBelow(t[j].number, t[i].number)}
               Top(j) == \A k \in below \ {j} : TextBelow(t[k].number, t[j].number)
               c == t[i].number
    <2>1. c \in 1..n /\ below = {j \in T : t[j].number < c}
        BY <1>2, <1>5
    <2>2. CASE c = 1
        <3>1. below = {}
            BY <1>2, <1>3, <2>1, <2>2
        <3> QED
            BY <1>4, <2>2, <3>1
    <2>3. CASE c # 1
        <3>1. PICK j \in T : t[j].number = c - 1
            BY <1>2, <1>3, <2>1, <2>3
        <3>2. j \in below
            BY <1>3, <2>1, <3>1
        <3>3. Top(j)
            BY <1>2, <1>3, <1>5, <2>1, <3>1
        <3>4. ASSUME NEW m \in below, Top(m) PROVE m = j
            <4> SUFFICES ASSUME m # j PROVE FALSE
                OBVIOUS
            <4>1. TextBelow(t[j].number, t[m].number)
                BY <3>2, <3>4
            <4>2. t[j].number < t[m].number /\ t[m].number < c /\ t[m].number \in 1..n
                BY <1>2, <1>5, <2>1, <3>1, <4>1
            <4> QED
                BY <1>3, <2>1, <3>1, <4>2
        <3> HIDE DEF below, Top, c
        <3>5. (CHOOSE m \in below : Top(m)) = j
            BY <3>2, <3>3, <3>4
        <3>6. t[i].prev = t[j].hash
            BY <1>3, <1>4, <2>1, <3>1 DEF c
        <3> QED
            BY <3>2, <3>5, <3>6 DEF Top, below
    <2> QED
        BY <2>2, <2>3
<1> QED
    BY <1>6 DEF YearVerified, T, t

(***************************************************************************)
(* verify_chain_integrity accepts the rows nobody has touched of a tenant  *)
(* with one series, in its first year, up to the number that fits the      *)
(* padding.                                                                *)
(***************************************************************************)
THEOREM AlwaysVerified == ASSUME Powers PROVE Spec => []OneYearVerified
<1>1. IInv => OneYearVerified
    BY YearIsVerified DEF OneYearVerified
<1> QED
    BY <1>1, IInvariant, PTL
===============================================================================

---------------------------- MODULE TablesProofs -----------------------------
(* Proofs about three parts of MCTables.  ResultPages: for tables of any       *)
(* length, any page_size and pages asked for in any order.  Documents: for     *)
(* documents of any depth and any max_depth.  MathExpressions: for formulas of *)
(* any length.                                                                 *)
EXTENDS ResultPages, Documents, MathExpressions, FiniteSetTheorems, SequenceTheorems,
        WellFoundedInduction, TLAPS

-----------------------------------------------------------------------------
(* Numbers.                                                                    *)

LEMMA Division ==
    ASSUME NEW n \in Nat, NEW s \in Nat \ {0}
    PROVE  /\ n = s * (n \div s) + (n % s)
           /\ n % s \in 0..(s - 1) /\ n \div s \in Nat
  OBVIOUS

LEMMA Multiples ==
    ASSUME NEW a \in Nat, NEW b \in Nat, NEW s \in Nat
    PROVE  /\ a * s \in Nat /\ (a + 1) * s = a * s + s
           /\ a < b => a * s + s <= b * s
           /\ a <= b => a * s <= b * s
  OBVIOUS

\* So many pages of s rows hold n rows, the last one at least one.
LEMMA RoundedUp ==
    ASSUME NEW n \in Nat, NEW s \in Nat \ {0}
    PROVE  LET k == (n + s - 1) \div s
           IN  k \in Nat /\ k * s >= n /\ k * s < n + s
<1> DEFINE m == n + s - 1
           k == m \div s
           r == m % s
           ks == s * k
<1>1. m \in Nat /\ m = n + s - 1
  OBVIOUS
<1>2. m = s * k + r /\ r \in 0..(s - 1) /\ k \in Nat
  BY <1>1, Division
<1> HIDE DEF m, k, r
<1>3. k * s = ks /\ ks \in Nat /\ ks = m - r
  BY <1>1, <1>2
<1> HIDE DEF ks
<1>4. ks >= n /\ ks < n + s
  BY <1>1, <1>2, <1>3
<1> QED BY <1>2, <1>3, <1>4 DEF k, m

-----------------------------------------------------------------------------
(* ResultPages: the orders of a table.                                         *)

Row == [id : Int, key : Int]

IsOrder(q) ==
    /\ q \in [DOMAIN stored -> DOMAIN stored]
    /\ \A i, j \in DOMAIN stored : i # j => q[i] # q[j]
    /\ \A i \in DOMAIN stored : \E j \in DOMAIN stored : q[j] = i
    /\ sorted => \A i, j \in DOMAIN stored : i < j => stored[q[i]].key <= stored[q[j]].key

LEMMA TableKnown ==
    ASSUME stored \in StoredTables
    PROVE  /\ stored \in Seq(Row) /\ Len(stored) \in Nat /\ DOMAIN stored = 1..Len(stored)
           /\ \A i, j \in DOMAIN stored : i # j => stored[i].id # stored[j].id
  BY PagesAssumption DEF Row

\* What a request sorts the table to is the table in another order.
LEMMA OrdersPermute ==
    ASSUME stored \in StoredTables, NEW o \in Orders
    PROVE  \E q : IsOrder(q) /\ o = [i \in DOMAIN stored |-> stored[q[i]]]
<1> DEFINE N == Len(stored)
<1>0. stored \in Seq(Row) /\ N \in Nat /\ DOMAIN stored = 1..N
  BY TableKnown
<1>1. CASE ~sorted
  <2> DEFINE q == [i \in DOMAIN stored |-> i]
  <2>1. o = stored
    BY <1>1 DEF Orders
  <2>2. IsOrder(q)
    BY <1>1 DEF IsOrder
  <2>3. stored = [i \in DOMAIN stored |-> stored[q[i]]]
    BY <1>0
  <2> QED BY <2>1, <2>2, <2>3
<1>2. CASE sorted
  <2>1. PICK q \in [DOMAIN stored -> DOMAIN stored] :
          /\ \A i, j \in DOMAIN stored : i # j => q[i] # q[j]
          /\ \A i, j \in DOMAIN stored : i < j => stored[q[i]].key <= stored[q[j]].key
          /\ o = [i \in DOMAIN stored |-> stored[q[i]]]
    BY <1>2 DEF Orders
  <2>2. q \in Injection(DOMAIN stored, DOMAIN stored)
    BY <2>1 DEF Injection, IsInjective
  <2>3. IsFiniteSet(DOMAIN stored)
    BY <1>0, FS_Interval
  <2>4. q \in Surjection(DOMAIN stored, DOMAIN stored)
    BY <2>2, <2>3, FS_Injection
  <2>5. IsOrder(q)
    BY <2>1, <2>4 DEF IsOrder, Surjection
  <2> QED BY <2>1, <2>5
<1> QED BY <1>1, <1>2

LEMMA OrderHasRows ==
    ASSUME stored \in StoredTables, NEW o \in Orders
    PROVE  o \in Seq(Row) /\ Len(o) = Len(stored)
<1>1. PICK q : IsOrder(q) /\ o = [i \in DOMAIN stored |-> stored[q[i]]]
  BY OrdersPermute
<1>2. \A i \in DOMAIN stored : stored[q[i]] \in Row
  BY <1>1, TableKnown DEF IsOrder
<1>3. o \in [1..Len(stored) -> Row]
  BY <1>1, <1>2, TableKnown
<1> QED BY <1>3, TableKnown

LEMMA OrderShowsAll ==
    ASSUME stored \in StoredTables, NEW o \in Orders
    PROVE  /\ {o[x].id : x \in DOMAIN stored} = Ids(stored)
           /\ \A x, y \in DOMAIN stored : x # y => o[x].id # o[y].id
<1>1. PICK q : IsOrder(q) /\ o = [i \in DOMAIN stored |-> stored[q[i]]]
  BY OrdersPermute
<1>2. \A x \in DOMAIN stored : o[x] = stored[q[x]] /\ q[x] \in DOMAIN stored
  BY <1>1 DEF IsOrder
<1>3. \A x, y \in DOMAIN stored : x # y => o[x].id # o[y].id
  BY <1>1, <1>2, TableKnown DEF IsOrder
<1>4. {o[x].id : x \in DOMAIN stored} \subseteq Ids(stored)
  BY <1>2 DEF Ids
<1>5. ASSUME NEW i \in DOMAIN stored PROVE \E x \in DOMAIN stored : o[x].id = stored[i].id
  <2>1. PICK x \in DOMAIN stored : q[x] = i
    BY <1>1 DEF IsOrder
  <2> QED BY <1>2, <2>1
<1>6. Ids(stored) \subseteq {o[x].id : x \in DOMAIN stored}
  BY <1>5 DEF Ids
<1> QED BY <1>3, <1>4, <1>6

\* Of two sorts of a table, the later one has a row further down at the place of
\* the first row they do not share: that row's key is at least as large.
LEMMA FirstDifference ==
    ASSUME stored \in StoredTables, sorted, NEW p, NEW q, IsOrder(p), IsOrder(q),
           NEW i \in DOMAIN stored, p[i] # q[i],
           \A j \in DOMAIN stored : j < i => p[j] = q[j]
    PROVE  stored[p[i]].key <= stored[q[i]].key
<1>1. PICK j \in DOMAIN stored : p[j] = q[i]
  BY DEF IsOrder
<1>2. i \in Nat /\ j \in Nat
  BY TableKnown
<1>3. ~(j < i)
  <2> SUFFICES ASSUME j < i PROVE FALSE
    OBVIOUS
  <2>1. q[j] = q[i] /\ j # i
    BY <1>1, <1>2
  <2> QED BY <2>1 DEF IsOrder
<1>4. j # i
  BY <1>1
<1>5. i < j
  BY <1>2, <1>3, <1>4
<1> QED BY <1>1, <1>5 DEF IsOrder

\* Where no keys are equal, every sort gives the same order.
LEMMA OneOrder ==
    ASSUME stored \in StoredTables, ~Ties, NEW o \in Orders, NEW u \in Orders
    PROVE  o = u
<1>1. CASE ~sorted
  BY <1>1 DEF Orders
<1>2. CASE sorted
  <2>1. PICK p : IsOrder(p) /\ o = [i \in DOMAIN stored |-> stored[p[i]]]
    BY OrdersPermute
  <2>2. PICK q : IsOrder(q) /\ u = [i \in DOMAIN stored |-> stored[q[i]]]
    BY OrdersPermute
  <2> DEFINE Differ == {i \in DOMAIN stored : p[i] # q[i]}
  <2>3. CASE Differ = {}
    <3>1. \A i \in DOMAIN stored : p[i] = q[i]
      BY <2>3
    <3> QED BY <2>1, <2>2, <3>1
  <2>4. CASE Differ # {}
    <3>1. Differ \in SUBSET Nat
      BY TableKnown
    <3>2. PICK i \in Differ : \A j \in Differ : ~(<<j, i>> \in OpToRel(<, Nat))
      BY <2>4, <3>1, NatLessThanWellFounded, WFMin
    <3>3. \A j \in DOMAIN stored : j < i => p[j] = q[j]
      BY <3>1, <3>2 DEF OpToRel
    <3>4. i \in DOMAIN stored /\ p[i] # q[i] /\ p[i] \in DOMAIN stored /\ q[i] \in DOMAIN stored
      BY <2>1, <2>2, <3>2 DEF IsOrder
    <3>5. stored[p[i]].key <= stored[q[i]].key
      BY <1>2, <2>1, <2>2, <3>3, <3>4, FirstDifference
    <3>6. stored[q[i]].key <= stored[p[i]].key
      BY <1>2, <2>1, <2>2, <3>3, <3>4, FirstDifference
    <3>7. stored[p[i]].key \in Int /\ stored[q[i]].key \in Int
      <4>1. stored[p[i]] \in Row /\ stored[q[i]] \in Row
        BY <3>4, TableKnown
      <4> QED BY <4>1 DEF Row
    <3>8. stored[p[i]].key # stored[q[i]].key
      BY <1>2, <3>4 DEF Ties
    <3> QED BY <3>5, <3>6, <3>7, <3>8
  <2> QED BY <2>3, <2>4
<1> QED BY <1>1, <1>2

-----------------------------------------------------------------------------
(* ResultPages: the rows of a page.                                            *)

PageRows(p) == {x \in DOMAIN stored : (p - 1) * size < x /\ x <= p * size}
LastRows    == {x \in DOMAIN stored : x > Len(stored) - size}

LEMMA SliceShows ==
    ASSUME NEW o \in Seq(Row), NEW f \in Nat, NEW l \in Nat, l <= Len(o)
    PROVE  Ids(SubSeq(o, f + 1, l)) = {o[x].id : x \in (f + 1)..l}
<1> DEFINE part == SubSeq(o, f + 1, l)
<1>0. Len(o) \in Nat /\ \A i \in (f + 1)..l : o[i] \in Row
  OBVIOUS
<1>1. /\ part \in Seq(Row) /\ Len(part) = IF f + 1 <= l THEN l - (f + 1) + 1 ELSE 0
      /\ \A i \in 1..(l - (f + 1) + 1) : part[i] = o[(f + 1) + i - 1]
  BY <1>0, SubSeqProperties
<1>2. DOMAIN part = 1..(l - f) /\ \A i \in 1..(l - f) : part[i] = o[f + i]
  BY <1>1
<1> HIDE DEF part
<1>3. ASSUME NEW i \in 1..(l - f) PROVE f + i \in (f + 1)..l
  OBVIOUS
<1>4. ASSUME NEW x \in (f + 1)..l PROVE x - f \in 1..(l - f) /\ part[x - f] = o[x]
  BY <1>2
<1>5. Ids(part) \subseteq {o[x].id : x \in (f + 1)..l}
  BY <1>2, <1>3 DEF Ids
<1>6. ASSUME NEW x \in (f + 1)..l PROVE o[x].id \in Ids(part)
  <2>1. x - f \in DOMAIN part /\ part[x - f].id = o[x].id
    BY <1>2, <1>4
  <2> QED BY <2>1 DEF Ids
<1> QED BY <1>5, <1>6 DEF part

LEMMA PageShows ==
    ASSUME stored \in StoredTables, size \in Nat \ {0}, NEW p \in Nat \ {0}, NEW o \in Orders
    PROVE  /\ Ids(Slice(o, Offset(p), size)) = {o[x].id : x \in PageRows(p)}
           /\ (p - 1) * size >= Len(stored) => Slice(o, Offset(p), size) = <<>>
<1> DEFINE N == Len(stored)
           f == (p - 1) * size
           l == IF f + size > N THEN N ELSE f + size
<1>1. o \in Seq(Row) /\ Len(o) = N /\ N \in Nat
  BY OrderHasRows, TableKnown
<1>2. f \in Nat /\ p * size = f + size
  <2>1. p - 1 \in Nat /\ (p - 1) + 1 = p
    OBVIOUS
  <2> QED BY <2>1, Multiples
<1>0. Offset(p) = f
  BY DEF Offset
<1> HIDE DEF f
<1>3. Slice(o, Offset(p), size) = SubSeq(o, f + 1, l)
  BY <1>0, <1>1, <1>2 DEF Slice
<1>4. l \in Nat /\ l <= N
  BY <1>1, <1>2
<1>5. PageRows(p) = (f + 1)..l
  <2>1. DOMAIN stored = 1..N
    BY TableKnown
  <2> QED BY <1>1, <1>2, <2>1 DEF PageRows, f
<1>6. f >= N => SubSeq(o, f + 1, l) = <<>>
  BY <1>1, <1>2, <1>4, SubSeqEmpty
<1>7. Ids(SubSeq(o, f + 1, l)) = {o[x].id : x \in (f + 1)..l}
  BY <1>1, <1>2, <1>4, SliceShows
<1>8. Ids(Slice(o, Offset(p), size)) = {o[x].id : x \in PageRows(p)}
  BY <1>3, <1>5, <1>7
<1>9. f >= N => Slice(o, Offset(p), size) = <<>>
  BY <1>3, <1>6
<1> HIDE DEF l
<1> QED BY <1>8, <1>9 DEF f

\* Page 0 shows the last rows: its offset counts from the end.
LEMMA PageZeroShows ==
    ASSUME stored \in StoredTables, size \in Nat \ {0}, NEW o \in Orders
    PROVE  Ids(Slice(o, Offset(0), size)) = {o[x].id : x \in LastRows}
<1> DEFINE N == Len(stored)
           f == IF N >= size THEN N - size ELSE 0
<1>1. o \in Seq(Row) /\ Len(o) = N /\ N \in Nat /\ f \in Nat
  BY OrderHasRows, TableKnown
<1>2. Offset(0) = 0 - size
  BY DEF Offset
<1>3. Slice(o, Offset(0), size) = SubSeq(o, f + 1, N)
  <2>0. size \in Nat /\ size > 0
    OBVIOUS
  <2>1. ~(0 - size >= 0) /\ f + size >= N
    BY <1>1, <2>0
  <2>2. f = IF (0 - size) + N >= 0 THEN (0 - size) + N ELSE 0
    BY <1>1, <2>0
  <2>3. N = IF f + size > N THEN N ELSE f + size
    BY <1>1, <2>0, <2>2
  <2> HIDE DEF f, N
  <2> QED BY <1>1, <1>2, <2>1, <2>2, <2>3 DEF Slice
<1>4. LastRows = (f + 1)..N
  <2>1. DOMAIN stored = 1..N
    BY TableKnown
  <2> QED BY <1>1, <2>1 DEF LastRows
<1> HIDE DEF f
<1>5. Ids(SubSeq(o, f + 1, N)) = {o[x].id : x \in (f + 1)..N}
  BY <1>1, SliceShows
<1> QED BY <1>3, <1>4, <1>5

Promised == (Len(stored) + size - 1) \div size

\* The pages 1 to Promised cut the table into pieces.
LEMMA PagesCover ==
    ASSUME stored \in StoredTables, size \in Nat \ {0}
    PROVE  /\ Promised \in Nat
           /\ \A x \in DOMAIN stored : \E p \in 1..Promised : x \in PageRows(p)
           /\ \A p, q \in Nat \ {0} : p < q => PageRows(p) \cap PageRows(q) = {}
           /\ \A p \in Nat : p > Promised => (p - 1) * size >= Len(stored)
           /\ Promised > 0 => PageRows(Promised) \subseteq LastRows
<1> DEFINE N == Len(stored)
           K == Promised
<1>1. N \in Nat /\ DOMAIN stored = 1..N
  BY TableKnown
<1>2. K \in Nat /\ K * size >= N
  BY <1>1, RoundedUp DEF Promised
<1> HIDE DEF K
<1>3. ASSUME NEW x \in DOMAIN stored PROVE \E p \in 1..K : x \in PageRows(p)
  <2> DEFINE d == (x - 1) \div size
             r == (x - 1) % size
  <2>1. x - 1 \in Nat
    BY <1>1
  <2>2. x - 1 = size * d + r /\ r \in 0..(size - 1) /\ d \in Nat
    BY <2>1, Division
  <2> HIDE DEF d, r
  <2>3. d * size \in Nat /\ (d + 1) * size = d * size + size /\ size * d = d * size
    BY <2>2, Multiples
  <2>4. d * size < x /\ x <= (d + 1) * size
    BY <1>1, <2>2, <2>3
  <2>5. d < K
    <3> SUFFICES ASSUME K <= d PROVE FALSE
      BY <1>2, <2>2
    <3>1. K * size <= d * size /\ K * size \in Nat
      BY <1>2, <2>2, Multiples
    <3> QED BY <1>1, <1>2, <2>3, <2>4, <3>1
  <2>6. d + 1 \in 1..K /\ (d + 1) - 1 = d
    BY <1>2, <2>2, <2>5
  <2>7. x \in PageRows(d + 1)
    BY <2>4, <2>6 DEF PageRows
  <2> QED BY <2>6, <2>7
<1>4. ASSUME NEW p \in Nat \ {0}, NEW q \in Nat \ {0}, p < q
      PROVE  PageRows(p) \cap PageRows(q) = {}
  <2>1. p <= q - 1 /\ q - 1 \in Nat
    BY <1>4
  <2>2. p * size <= (q - 1) * size /\ p * size \in Nat /\ (q - 1) * size \in Nat
    BY <2>1, Multiples
  <2> QED BY <1>1, <2>2 DEF PageRows
<1>5. ASSUME NEW p \in Nat, p > K PROVE (p - 1) * size >= N
  <2>1. K <= p - 1 /\ p - 1 \in Nat
    BY <1>2, <1>5
  <2>2. K * size <= (p - 1) * size /\ (p - 1) * size \in Nat /\ K * size \in Nat
    BY <1>2, <2>1, Multiples
  <2> QED BY <1>1, <1>2, <2>2
<1>6. ASSUME K > 0 PROVE PageRows(K) \subseteq LastRows
  <2>1. K - 1 \in Nat /\ (K - 1) + 1 = K
    BY <1>2, <1>6
  <2>2. (K - 1) * size \in Nat /\ K * size = (K - 1) * size + size
    BY <2>1, Multiples
  <2> QED BY <1>1, <1>2, <2>2 DEF PageRows, LastRows
<1> QED BY <1>2, <1>3, <1>4, <1>5, <1>6 DEF K

-----------------------------------------------------------------------------
(* ResultPages: the pages asked for.                                           *)

\* Every page is a page of the table that is still there.
PagesInv ==
    /\ stored \in StoredTables /\ size \in PageSizes
    /\ pages = [p \in DOMAIN pages |-> pages[p]] /\ DOMAIN pages \subseteq 0..MaxPage
    /\ ~expired => \A p \in DOMAIN pages : pages[p] \in Answers(p)

LEMMA PagesInvStep == PagesInv /\ [PagesNext]_pageVars => PagesInv'
<1> SUFFICES ASSUME PagesInv, [PagesNext]_pageVars PROVE PagesInv'
  OBVIOUS
<1> USE DEF PagesInv
<1>1. CASE UNCHANGED pageVars
  <2>1. UNCHANGED <<stored, expired, size, sorted, pages>>
    BY <1>1 DEF pageVars
  <2>2. \A p : Answers(p)' = Answers(p)
    BY <2>1 DEF Answers, Orders, Slice, Offset
  <2> QED BY <2>1, <2>2
<1>2. CASE Expire
  BY <1>2 DEF Expire
<1>3. ASSUME NEW page \in 0..MaxPage, GetPage(page) PROVE PagesInv'
  <2>1. PICK a \in Answers(page) :
          pages' = [p \in DOMAIN pages \cup {page} |-> IF p = page THEN a ELSE pages[p]]
    BY <1>3 DEF GetPage
  <2>2. UNCHANGED <<stored, expired, size, sorted>>
    BY <1>3 DEF GetPage
  <2>3. \A p : Answers(p)' = Answers(p)
    BY <2>2 DEF Answers, Orders, Slice, Offset
  <2>4. /\ DOMAIN pages' = DOMAIN pages \cup {page}
        /\ pages' = [p \in DOMAIN pages' |-> pages'[p]]
        /\ \A p \in DOMAIN pages' : pages'[p] = IF p = page THEN a ELSE pages[p]
    BY <2>1
  <2>5. ASSUME ~expired, NEW p \in DOMAIN pages' PROVE pages'[p] \in Answers(p)
    BY <2>1, <2>4, <2>5
  <2> QED BY <1>3, <2>2, <2>3, <2>4, <2>5
<1> QED BY <1>1, <1>2, <1>3 DEF PagesNext

LEMMA PageAnswer ==
    ASSUME PagesInv, ~expired, size # 0, NEW p \in DOMAIN pages
    PROVE  /\ pages[p].total_pages = Promised
           /\ \E o \in Orders : pages[p].rows = Slice(o, Offset(p), size)
  BY DEF PagesInv, Answers, Promised

LEMMA PagesArePartition == PagesInv => PagesPartition
<1> SUFFICES ASSUME PagesInv, ~expired, pages # [p \in {} |-> <<>>]
             PROVE  LET promised == pages[CHOOSE p \in DOMAIN pages : TRUE].total_pages
                        Shown(p) == Ids(pages[p].rows)
                    IN  IF size = 0 THEN promised = -1
                        ELSE /\ \A p \in DOMAIN pages : p > promised => pages[p].rows = <<>>
                             /\ {0, promised} \subseteq DOMAIN pages /\ ~Ties =>
                                    Shown(promised) \subseteq Shown(0)
                             /\ 1..promised \subseteq DOMAIN pages /\ ~Ties =>
                                    /\ UNION {Shown(p) : p \in 1..promised} = Ids(stored)
                                    /\ \A p, q \in 1..promised : p # q => Shown(p) \cap Shown(q) = {}
  BY DEF PagesPartition
<1> DEFINE promised == pages[CHOOSE p \in DOMAIN pages : TRUE].total_pages
           Shown(p) == Ids(pages[p].rows)
<1>0. /\ stored \in StoredTables /\ size \in Nat /\ DOMAIN pages \subseteq Nat
      /\ (CHOOSE p \in DOMAIN pages : TRUE) \in DOMAIN pages
  <2>1. DOMAIN pages # {}
    BY DEF PagesInv
  <2> QED BY <2>1, PagesAssumption DEF PagesInv
<1>1. CASE size = 0
  <2>1. promised = -1
    BY <1>0, <1>1 DEF PagesInv, Answers, Error500
  <2> QED BY <1>1, <2>1
<1>2. CASE size # 0
  <2>0. size \in Nat \ {0} /\ Promised \in Nat /\ Len(stored) \in Nat
    BY <1>0, <1>2, PagesCover, TableKnown
  <2>1. promised = Promised
    BY <1>0, <1>2, PageAnswer
  <2> HIDE DEF promised
  <2>2. ASSUME NEW p \in DOMAIN pages, p > promised PROVE pages[p].rows = <<>>
    <3>1. p \in Nat \ {0} /\ (p - 1) * size >= Len(stored)
      <4>1. p \in Nat /\ p > Promised
        BY <1>0, <2>1, <2>2
      <4>2. p \in Nat \ {0}
        BY <2>0, <4>1
      <4> QED BY <1>0, <2>0, <4>1, <4>2, PagesCover
    <3>2. PICK o \in Orders : pages[p].rows = Slice(o, Offset(p), size)
      BY <1>2, PageAnswer
    <3> QED BY <1>0, <2>0, <3>1, <3>2, PageShows
  <2>3. ASSUME ~Ties, NEW o \in Orders, NEW p \in DOMAIN pages, p # 0
        PROVE  Shown(p) = {o[x].id : x \in PageRows(p)}
    <3>1. PICK u \in Orders : pages[p].rows = Slice(u, Offset(p), size)
      BY <1>2, PageAnswer
    <3>2. u = o
      BY <1>0, <2>3, OneOrder
    <3>3. p \in Nat \ {0}
      BY <1>0, <2>3
    <3> QED BY <1>0, <2>0, <3>1, <3>2, <3>3, PageShows
  <2>4. ASSUME {0, promised} \subseteq DOMAIN pages, ~Ties
        PROVE  Shown(promised) \subseteq Shown(0)
    <3>1. CASE promised = 0
      BY <3>1
    <3>2. CASE promised # 0
      <4>1. PICK o \in Orders : pages[0].rows = Slice(o, Offset(0), size)
        BY <1>2, <2>4, PageAnswer
      <4>2. Shown(0) = {o[x].id : x \in LastRows}
        BY <1>0, <2>0, <4>1, PageZeroShows
      <4>3. Shown(promised) = {o[x].id : x \in PageRows(promised)}
        BY <2>3, <2>4, <3>2
      <4>4. PageRows(promised) \subseteq LastRows
        BY <1>0, <2>0, <2>1, <3>2, PagesCover
      <4> QED BY <4>2, <4>3, <4>4
    <3> QED BY <3>1, <3>2
  <2>5. ASSUME 1..promised \subseteq DOMAIN pages, ~Ties
        PROVE  /\ UNION {Shown(p) : p \in 1..promised} = Ids(stored)
               /\ \A p, q \in 1..promised : p # q => Shown(p) \cap Shown(q) = {}
    <3>1. CASE promised = 0
      <4>1. DOMAIN stored = {}
        <5>1. \A x \in DOMAIN stored : \E p \in 1..Promised : x \in PageRows(p)
          BY <1>0, <2>0, PagesCover
        <5> QED BY <2>1, <3>1, <5>1
      <4>2. 1..promised = {}
        BY <3>1
      <4> QED BY <4>1, <4>2 DEF Ids
    <3>2. CASE promised # 0
      <4>1. 1 \in DOMAIN pages
        BY <2>0, <2>1, <2>5, <3>2
      <4>2. PICK o \in Orders : pages[1].rows = Slice(o, Offset(1), size)
        BY <1>2, <4>1, PageAnswer
      <4>3. \A p \in 1..promised : Shown(p) = {o[x].id : x \in PageRows(p)}
        <5>1. ASSUME NEW p \in 1..promised PROVE p \in DOMAIN pages /\ p # 0
          BY <2>5
        <5> HIDE DEF Shown
        <5> QED BY <2>3, <2>5, <5>1
      <4>4. /\ {o[x].id : x \in DOMAIN stored} = Ids(stored)
            /\ \A x, y \in DOMAIN stored : x # y => o[x].id # o[y].id
        BY <1>0, OrderShowsAll
      <4>5. \A x \in DOMAIN stored : \E p \in 1..promised : x \in PageRows(p)
        BY <1>0, <2>0, <2>1, PagesCover
      <4>6. \A p : PageRows(p) \subseteq DOMAIN stored
        BY DEF PageRows
      <4>7. UNION {Shown(p) : p \in 1..promised} = Ids(stored)
        <5>1. ASSUME NEW id \in Ids(stored) PROVE \E p \in 1..promised : id \in Shown(p)
          <6>1. PICK x \in DOMAIN stored : o[x].id = id
            BY <4>4
          <6>2. PICK p \in 1..promised : x \in PageRows(p)
            BY <4>5
          <6> QED BY <4>3, <6>1, <6>2
        <5>2. ASSUME NEW p \in 1..promised PROVE Shown(p) \subseteq Ids(stored)
          BY <4>3, <4>4, <4>6
        <5> HIDE DEF Shown
        <5> QED BY <5>1, <5>2
      <4>8. ASSUME NEW p \in 1..promised, NEW q \in 1..promised, p # q
            PROVE  Shown(p) \cap Shown(q) = {}
        <5>1. PageRows(p) \cap PageRows(q) = {}
          <6>1. p \in Nat \ {0} /\ q \in Nat \ {0} /\ (p < q \/ q < p)
            BY <2>0, <2>1, <4>8
          <6>2. \A a, b \in Nat \ {0} : a < b => PageRows(a) \cap PageRows(b) = {}
            BY <1>0, <2>0, PagesCover
          <6>3. CASE p < q
            BY <6>1, <6>2, <6>3
          <6>4. CASE q < p
            BY <6>1, <6>2, <6>4
          <6> QED BY <6>1, <6>3, <6>4
        <5>2. \A x \in PageRows(p), y \in PageRows(q) : o[x].id # o[y].id
          BY <4>4, <4>6, <5>1
        <5>3. /\ Shown(p) = {o[x].id : x \in PageRows(p)}
              /\ Shown(q) = {o[x].id : x \in PageRows(q)}
          BY <4>3
        <5> HIDE DEF Shown
        <5> QED BY <5>2, <5>3
      <4> QED BY <4>7, <4>8
    <3> QED BY <3>1, <3>2
  <2> HIDE DEF Shown
  <2>6. /\ \A p \in DOMAIN pages : p > promised => pages[p].rows = <<>>
        /\ {0, promised} \subseteq DOMAIN pages /\ ~Ties => Shown(promised) \subseteq Shown(0)
        /\ 1..promised \subseteq DOMAIN pages /\ ~Ties =>
              /\ UNION {Shown(p) : p \in 1..promised} = Ids(stored)
              /\ \A p, q \in 1..promised : p # q => Shown(p) \cap Shown(q) = {}
    BY <2>2, <2>4, <2>5
  <2> QED BY <1>2, <2>6 DEF promised, Shown
<1> QED BY <1>1, <1>2

\* The pages of a result make up the result, for tables of any length, any
\* page_size and pages asked for in any order.
THEOREM PagesMakeUpTheTable == PagesSpec => []PagesPartition
<1>1. PagesInit => PagesInv
  BY DEF PagesInit, PagesInv
<1> QED BY <1>1, PagesInvStep, PagesArePartition, PTL DEF PagesSpec

-----------------------------------------------------------------------------
(* Recursive functions on the numbers.                                         *)

\* A set with zero that has the successor of each of its numbers has them all.
LEMMA NatsReached ==
    ASSUME NEW Good, 0 \in Good, \A n \in Nat : n \in Good => n + 1 \in Good
    PROVE  \A n \in Nat : n \in Good
<1> DEFINE Bad == {m \in Nat : m \notin Good}
<1>1. Bad = {}
  <2> SUFFICES ASSUME Bad # {} PROVE FALSE
    OBVIOUS
  <2>1. PICK m \in Bad : \A j \in Bad : ~(<<j, m>> \in OpToRel(<, Nat))
    <3>1. Bad \in SUBSET Nat
      OBVIOUS
    <3> HIDE DEF Bad
    <3> QED BY <3>1, NatLessThanWellFounded, WFMin
  <2>2. m \in Nat /\ m # 0 /\ m \notin Good
    OBVIOUS
  <2>3. m - 1 \in Nat /\ m - 1 < m /\ (m - 1) + 1 = m
    BY <2>2
  <2>4. m - 1 \in Bad
    BY <2>2, <2>3
  <2> QED BY <2>1, <2>2, <2>3, <2>4 DEF OpToRel
<1> QED BY <1>1

\* Functions on the first numbers that start with base and follow step.
Begun(R, base, step, n) ==
    {g \in [0..n -> R] : g[0] = base /\ \A m \in 1..n : g[m] = step[m][g[m - 1]]}

\* What a step computes from a base defines a function.
LEMMA RecursionExists ==
    ASSUME NEW R, NEW base \in R, NEW step \in [Nat -> [R -> R]]
    PROVE  \E f \in [Nat -> R] :
             f[0] = base /\ \A n \in Nat : n > 0 => f[n] = step[n][f[n - 1]]
<1> DEFINE B(n) == Begun(R, base, step, n)
<1>1. \A n \in Nat : B(n) # {}
  <2> DEFINE Good == {n \in Nat : B(n) # {}}
  <2>1. 0 \in Good
    <3>1. [m \in 0..0 |-> base] \in B(0)
      BY DEF Begun
    <3> QED BY <3>1
  <2>2. ASSUME NEW n \in Nat, n \in Good PROVE n + 1 \in Good
    <3>1. PICK g \in B(n) : TRUE
      BY <2>2
    <3> DEFINE h == [m \in 0..(n + 1) |-> IF m = n + 1 THEN step[n + 1][g[n]] ELSE g[m]]
    <3>2. g \in [0..n -> R] /\ g[0] = base /\ \A m \in 1..n : g[m] = step[m][g[m - 1]]
      BY <3>1 DEF Begun
    <3>3. step[n + 1][g[n]] \in R
      BY <3>2
    <3>4. h \in [0..(n + 1) -> R]
      BY <3>2, <3>3
    <3>5. h[0] = base
      BY <3>2
    <3>6. ASSUME NEW m \in 1..(n + 1) PROVE h[m] = step[m][h[m - 1]]
      <4>1. m - 1 \in 0..n /\ h[m - 1] = g[m - 1]
        OBVIOUS
      <4>2. CASE m = n + 1
        <5>1. h[m] = step[n + 1][g[n]] /\ m - 1 = n
          BY <4>2
        <5> QED BY <4>1, <4>2, <5>1
      <4>3. CASE m # n + 1
        <5>1. m \in 1..n /\ h[m] = g[m]
          BY <4>3
        <5> QED BY <3>2, <4>1, <5>1
      <4> QED BY <4>2, <4>3
    <3>7. h \in B(n + 1)
      <4> HIDE DEF h
      <4> QED BY <3>4, <3>5, <3>6 DEF Begun
    <3> QED BY <3>7
  <2> HIDE DEF Good
  <2>3. \A n \in Nat : n \in Good
    BY <2>1, <2>2, NatsReached
  <2> QED BY <2>3 DEF Good
<1>2. ASSUME NEW n \in Nat, NEW g \in B(n), NEW h \in B(n + 1)
      PROVE  h[n] = g[n]
  <2> DEFINE Good == {m \in Nat : m <= n => h[m] = g[m]}
  <2>0. /\ g \in [0..n -> R] /\ g[0] = base /\ \A m \in 1..n : g[m] = step[m][g[m - 1]]
        /\ h[0] = base /\ \A m \in 1..(n + 1) : h[m] = step[m][h[m - 1]]
    BY DEF Begun
  <2>1. 0 \in Good
    BY <2>0
  <2>2. ASSUME NEW m \in Nat, m \in Good PROVE m + 1 \in Good
    <3>1. CASE m + 1 <= n
      <4>1. /\ m + 1 \in 1..n /\ m + 1 \in 1..(n + 1) /\ (m + 1) - 1 = m
            /\ h[m] = g[m]
        BY <2>2, <3>1
      <4>2. h[m + 1] = step[m + 1][h[m]] /\ g[m + 1] = step[m + 1][g[m]]
        BY <2>0, <4>1
      <4> QED BY <4>1, <4>2
    <3> QED BY <3>1
  <2> HIDE DEF Good
  <2>3. n \in Good
    BY <2>1, <2>2, NatsReached
  <2> QED BY <2>3 DEF Good
<1> DEFINE f == [n \in Nat |-> (CHOOSE g \in B(n) : TRUE)[n]]
<1>3. \A n \in Nat : (CHOOSE g \in B(n) : TRUE) \in B(n)
  BY <1>1
<1>4. f \in [Nat -> R]
  <2>1. \A n \in Nat : \A g \in B(n) : g[n] \in R
    BY DEF Begun
  <2> HIDE DEF B
  <2> QED BY <1>3, <2>1
<1>5. f[0] = base
  <2>1. \A g \in B(0) : g[0] = base
    BY DEF Begun
  <2> HIDE DEF B
  <2> QED BY <1>3, <2>1
<1>6. ASSUME NEW n \in Nat, n > 0 PROVE f[n] = step[n][f[n - 1]]
  <2>1. n - 1 \in Nat /\ (n - 1) + 1 = n
    BY <1>6
  <2> DEFINE g == CHOOSE g \in B(n - 1) : TRUE
             h == CHOOSE h \in B(n) : TRUE
  <2>2. g \in B(n - 1) /\ h \in B(n)
    BY <1>3, <2>1
  <2>3. f[n] = h[n] /\ f[n - 1] = g[n - 1]
    BY <2>1
  <2> HIDE DEF g, h, f
  <2>4. h[n - 1] = g[n - 1]
    BY <1>2, <2>1, <2>2
  <2>5. h[n] = step[n][h[n - 1]]
    BY <1>6, <2>2 DEF Begun
  <2> QED BY <2>3, <2>4, <2>5
<1> HIDE DEF f
<1> QED BY <1>4, <1>5, <1>6

-----------------------------------------------------------------------------
(* Documents: the recursive definitions.                                       *)

Names == Seq(Keys \cup {"[]"})

NamesByValue == [FieldValues -> SUBSET Names]

InferOnce(names, levels) ==
    [v \in FieldValues |->
        CASE levels > 0 /\ IsDict(v) ->
                UNION {Below(k, names[v.fields[k]]) : k \in DOMAIN v.fields}
          [] levels > 0 /\ IsArrayOfDicts(v) ->
                LET first == v.items[1].fields
                IN  Below("[]", UNION {Below(k, names[first[k]]) : k \in DOMAIN first})
          [] OTHER -> {<<>>}]

LEMMA BelowNames ==
    ASSUME NEW key \in Keys \cup {"[]"}, NEW names \in SUBSET Names
    PROVE  Below(key, names) \in SUBSET Names
<1>1. \A name \in names : <<key>> \o name \in Names
  BY DEF Names
<1> QED BY <1>1 DEF Below

LEMMA FieldsAreValues ==
    ASSUME NEW v \in FieldValues
    PROVE  /\ IsDict(v) => \A k \in DOMAIN v.fields : k \in Keys /\ v.fields[k] \in FieldValues
           /\ IsArrayOfDicts(v) =>
                /\ v.items \in Seq(FieldValues) /\ v.items # <<>>
                /\ v.items[1] \in FieldValues /\ IsDict(v.items[1])
<1>1. CASE IsDict(v)
  BY <1>1, DocumentAssumption DEF IsDict, IsArrayOfDicts
<1>2. CASE IsArrayOfDicts(v)
  <2>1. v.items \in Seq(FieldValues) /\ v.items # <<>> /\ ~IsDict(v)
    BY <1>2, DocumentAssumption DEF IsArrayOfDicts, IsDict
  <2> QED BY <1>2, <2>1 DEF IsArrayOfDicts
<1> QED BY <1>1, <1>2

LEMMA InferOnceType ==
    ASSUME NEW names \in NamesByValue, NEW levels \in Nat
    PROVE  InferOnce(names, levels) \in NamesByValue
<1>1. ASSUME NEW v \in FieldValues, IsDict(v)
      PROVE  UNION {Below(k, names[v.fields[k]]) : k \in DOMAIN v.fields} \in SUBSET Names
  <2>1. \A k \in DOMAIN v.fields : k \in Keys /\ names[v.fields[k]] \in SUBSET Names
    BY <1>1, FieldsAreValues DEF NamesByValue
  <2>2. \A k \in DOMAIN v.fields : Below(k, names[v.fields[k]]) \in SUBSET Names
    BY <2>1, BelowNames
  <2> QED BY <2>2
<1>2. {<<>>} \in SUBSET Names
  BY DEF Names
<1>3. ASSUME NEW v \in FieldValues
      PROVE  InferOnce(names, levels)[v] \in SUBSET Names
  <2>1. CASE levels > 0 /\ IsDict(v)
    <3>1. ~IsArrayOfDicts(v)
      BY <2>1 DEF IsDict, IsArrayOfDicts
    <3>2. InferOnce(names, levels)[v] =
            UNION {Below(k, names[v.fields[k]]) : k \in DOMAIN v.fields}
      BY <2>1, <3>1 DEF InferOnce
    <3> QED BY <1>1, <2>1, <3>2
  <2>2. CASE levels > 0 /\ ~IsDict(v) /\ IsArrayOfDicts(v)
    <3> DEFINE below == UNION {Below(k, names[v.items[1].fields[k]]) :
                                 k \in DOMAIN v.items[1].fields}
    <3>1. below \in SUBSET Names
      BY <1>1, <2>2, FieldsAreValues
    <3>2. InferOnce(names, levels)[v] = Below("[]", below)
      BY <2>2 DEF InferOnce
    <3> HIDE DEF below
    <3> QED BY <3>1, <3>2, BelowNames
  <2>3. CASE ~(levels > 0 /\ IsDict(v)) /\ ~(levels > 0 /\ IsArrayOfDicts(v))
    BY <1>2, <2>3 DEF InferOnce
  <2> QED BY <2>1, <2>2, <2>3
<1> QED BY <1>3 DEF NamesByValue, InferOnce

LEMMA InferredNamesDef ==
    \A n \in Nat : InferredNames[n] = InferOnce(InferredNames[n - 1], n)
<1> DEFINE base == [v \in FieldValues |-> {<<>>}]
           step == [n \in Nat |-> [names \in NamesByValue |-> InferOnce(names, n)]]
           Is(f) == f = [n \in Nat |-> InferOnce(f[n - 1], n)]
<1>1. base \in NamesByValue
  BY DEF NamesByValue, Names
<1>2. step \in [Nat -> [NamesByValue -> NamesByValue]]
  BY InferOnceType
<1>3. PICK f \in [Nat -> NamesByValue] :
        f[0] = base /\ \A n \in Nat : n > 0 => f[n] = step[n][f[n - 1]]
  <2> HIDE DEF base, step
  <2> QED BY <1>1, <1>2, RecursionExists
<1>4. \A n \in Nat : f[n] = InferOnce(f[n - 1], n)
  <2> TAKE n \in Nat
  <2>1. CASE n = 0
    <3>1. InferOnce(f[n - 1], n) = base
      BY <2>1 DEF InferOnce
    <3> QED BY <1>3, <2>1, <3>1
  <2>2. CASE n > 0
    <3>1. n - 1 \in Nat /\ f[n - 1] \in NamesByValue
      BY <2>2
    <3> QED BY <1>3, <2>2, <3>1
  <2> QED BY <2>1, <2>2
<1>5. Is(f)
  BY <1>4
<1>6. Is(InferredNames)
  BY <1>5 DEF InferredNames, InferOnce
<1> HIDE DEF base, step
<1> QED BY <1>6

FlatOnce(names, levels) ==
    [v \in FieldValues |->
        IF levels > 0 /\ IsDict(v)
        THEN UNION {Below(k, names[v.fields[k]]) : k \in DOMAIN v.fields}
        ELSE FlatLeaf(v, levels)]

LEMMA FlatLeafType ==
    ASSUME NEW v \in FieldValues, NEW levels \in Nat
    PROVE  FlatLeaf(v, levels) \in SUBSET Names
<1>1. CASE levels > 0 /\ IsArrayOfDicts(v)
  <2>1. v.items \in Seq(FieldValues)
    BY <1>1, FieldsAreValues
  <2>2. \A d \in Dicts(v) : d \in FieldValues /\ IsDict(d)
    BY <2>1 DEF Dicts
  <2>3. \A k \in UNION {DOMAIN d.fields : d \in Dicts(v)} : <<"[]", k>> \in Names
    BY <2>2, FieldsAreValues DEF Names
  <2>4. FlatLeaf(v, levels) = {<<"[]", k>> : k \in UNION {DOMAIN d.fields : d \in Dicts(v)}}
    BY <1>1 DEF FlatLeaf
  <2> QED BY <2>3, <2>4
<1>2. CASE ~(levels > 0 /\ IsArrayOfDicts(v))
  BY <1>2 DEF FlatLeaf, Names
<1> QED BY <1>1, <1>2

LEMMA FlatOnceType ==
    ASSUME NEW names \in NamesByValue, NEW levels \in Nat
    PROVE  FlatOnce(names, levels) \in NamesByValue
<1>1. ASSUME NEW v \in FieldValues PROVE FlatOnce(names, levels)[v] \in SUBSET Names
  <2>1. CASE levels > 0 /\ IsDict(v)
    <3>1. \A k \in DOMAIN v.fields : k \in Keys /\ names[v.fields[k]] \in SUBSET Names
      BY <2>1, FieldsAreValues DEF NamesByValue
    <3>2. \A k \in DOMAIN v.fields : Below(k, names[v.fields[k]]) \in SUBSET Names
      BY <3>1, BelowNames
    <3> QED BY <2>1, <3>2 DEF FlatOnce
  <2>2. CASE ~(levels > 0 /\ IsDict(v))
    BY <2>2, FlatLeafType DEF FlatOnce
  <2> QED BY <2>1, <2>2
<1> QED BY <1>1 DEF NamesByValue, FlatOnce

LEMMA FlatNamesDef ==
    \A n \in Nat : FlatNames[n] = FlatOnce(FlatNames[n - 1], n)
<1> DEFINE base == [v \in FieldValues |-> FlatLeaf(v, 0)]
           step == [n \in Nat |-> [names \in NamesByValue |-> FlatOnce(names, n)]]
           Is(f) == f = [n \in Nat |-> FlatOnce(f[n - 1], n)]
<1>1. base \in NamesByValue
  BY FlatLeafType DEF NamesByValue
<1>2. step \in [Nat -> [NamesByValue -> NamesByValue]]
  BY FlatOnceType
<1>3. PICK f \in [Nat -> NamesByValue] :
        f[0] = base /\ \A n \in Nat : n > 0 => f[n] = step[n][f[n - 1]]
  <2> HIDE DEF base, step
  <2> QED BY <1>1, <1>2, RecursionExists
<1>4. \A n \in Nat : f[n] = FlatOnce(f[n - 1], n)
  <2> TAKE n \in Nat
  <2>1. CASE n = 0
    <3>1. FlatOnce(f[n - 1], n) = base
      BY <2>1 DEF FlatOnce
    <3> QED BY <1>3, <2>1, <3>1
  <2>2. CASE n > 0
    <3>1. n - 1 \in Nat /\ f[n - 1] \in NamesByValue
      BY <2>2
    <3> QED BY <1>3, <2>2, <3>1
  <2> QED BY <2>1, <2>2
<1>5. Is(f)
  BY <1>4
<1>6. Is(FlatNames)
  BY <1>5 DEF FlatNames, FlatOnce
<1> HIDE DEF base, step
<1> QED BY <1>6

FindOnce(arrays, levels) ==
    [v \in FieldValues |->
        CASE levels > 0 /\ IsDict(v) ->
                UNION {arrays[v.fields[k]] : k \in DOMAIN v.fields}
          [] levels > 0 /\ IsArrayOfDicts(v) -> {<<v, levels>>}
          [] OTHER -> {}]

LEMMA ArraysDef ==
    \A n \in Nat : Arrays[n] = FindOnce(Arrays[n - 1], n)
<1> DEFINE R    == [FieldValues -> SUBSET (FieldValues \X Nat)]
           base == [v \in FieldValues |-> {}]
           step == [n \in Nat |-> [arrays \in R |-> FindOnce(arrays, n)]]
           Is(f) == f = [n \in Nat |-> FindOnce(f[n - 1], n)]
<1>1. base \in R
  OBVIOUS
<1>2. step \in [Nat -> [R -> R]]
  <2>1. ASSUME NEW n \in Nat, NEW arrays \in R PROVE FindOnce(arrays, n) \in R
    <3>1. ASSUME NEW v \in FieldValues PROVE FindOnce(arrays, n)[v] \in SUBSET (FieldValues \X Nat)
      <4>1. CASE n > 0 /\ IsDict(v)
        <5>1. ~IsArrayOfDicts(v)
          BY <4>1 DEF IsDict, IsArrayOfDicts
        <5>2. \A k \in DOMAIN v.fields : arrays[v.fields[k]] \in SUBSET (FieldValues \X Nat)
          BY <4>1, FieldsAreValues
        <5>3. FindOnce(arrays, n)[v] = UNION {arrays[v.fields[k]] : k \in DOMAIN v.fields}
          BY <4>1, <5>1 DEF FindOnce
        <5> QED BY <5>2, <5>3
      <4>2. CASE n > 0 /\ ~IsDict(v) /\ IsArrayOfDicts(v)
        BY <4>2 DEF FindOnce
      <4>3. CASE ~(n > 0 /\ IsDict(v)) /\ ~(n > 0 /\ IsArrayOfDicts(v))
        BY <4>3 DEF FindOnce
      <4> QED BY <4>1, <4>2, <4>3
    <3> QED BY <3>1 DEF FindOnce
  <2> HIDE DEF R
  <2> QED BY <2>1
<1>3. PICK f \in [Nat -> R] :
        f[0] = base /\ \A n \in Nat : n > 0 => f[n] = step[n][f[n - 1]]
  <2> HIDE DEF base, step, R
  <2> QED BY <1>1, <1>2, RecursionExists
<1>4. \A n \in Nat : f[n] = FindOnce(f[n - 1], n)
  <2> TAKE n \in Nat
  <2>1. CASE n = 0
    <3>1. FindOnce(f[n - 1], n) = base
      BY <2>1 DEF FindOnce
    <3> QED BY <1>3, <2>1, <3>1
  <2>2. CASE n > 0
    <3>1. n - 1 \in Nat /\ f[n - 1] \in R
      BY <2>2
    <3> HIDE DEF R
    <3> QED BY <1>3, <2>2, <3>1
  <2> QED BY <2>1, <2>2
<1>5. Is(f)
  BY <1>4
<1>6. Is(Arrays)
  BY <1>5 DEF Arrays, FindOnce
<1> HIDE DEF base, step
<1> QED BY <1>6

-----------------------------------------------------------------------------
(* Names.                                                                      *)

\* The names of a value, however deep one looks.
LEMMA NamesOfValues ==
    \A n \in Nat : InferredNames[n] \in NamesByValue /\ FlatNames[n] \in NamesByValue
<1> DEFINE Good == {n \in Nat : InferredNames[n] \in NamesByValue
                                /\ FlatNames[n] \in NamesByValue}
<1>1. 0 \in Good
  <2>1. InferredNames[0] = [v \in FieldValues |-> {<<>>}]
    <3>1. InferredNames[0] = InferOnce(InferredNames[0 - 1], 0)
      BY InferredNamesDef
    <3> QED BY <3>1 DEF InferOnce
  <2>2. FlatNames[0] = [v \in FieldValues |-> FlatLeaf(v, 0)]
    <3>1. FlatNames[0] = FlatOnce(FlatNames[0 - 1], 0)
      BY FlatNamesDef
    <3> QED BY <3>1 DEF FlatOnce
  <2>3. {<<>>} \in SUBSET Names
    BY DEF Names
  <2> QED BY <2>1, <2>2, <2>3, FlatLeafType DEF NamesByValue
<1>2. ASSUME NEW n \in Nat, n \in Good PROVE n + 1 \in Good
  <2>1. n + 1 \in Nat /\ (n + 1) - 1 = n
    OBVIOUS
  <2>2. InferredNames[n + 1] = InferOnce(InferredNames[n], n + 1)
    BY <2>1, InferredNamesDef
  <2>3. FlatNames[n + 1] = FlatOnce(FlatNames[n], n + 1)
    BY <2>1, FlatNamesDef
  <2>4. InferredNames[n + 1] \in NamesByValue
    BY <1>2, <2>1, <2>2, InferOnceType
  <2>5. FlatNames[n + 1] \in NamesByValue
    BY <1>2, <2>1, <2>3, FlatOnceType
  <2> QED BY <2>1, <2>4, <2>5
<1> HIDE DEF Good
<1>3. \A n \in Nat : n \in Good
  BY <1>1, <1>2, NatsReached
<1> QED BY <1>3 DEF Good

\* A name tells the key it begins with from the rest.
LEMMA NameParts ==
    ASSUME NEW j, NEW k, NEW a \in Names, NEW b \in Names, <<j>> \o a = <<k>> \o b
    PROVE  j = k /\ a = b
<1> DEFINE x == <<j>> \o a
           y == <<k>> \o b
<1>1. a \in Seq(Keys \cup {"[]"}) /\ b \in Seq(Keys \cup {"[]"})
  BY DEF Names
<1>2. /\ Len(x) = Len(a) + 1 /\ x[1] = j
      /\ \A i \in 1..Len(a) : x[i + 1] = a[i]
  BY <1>1
<1>3. /\ Len(y) = Len(b) + 1 /\ y[1] = k
      /\ \A i \in 1..Len(b) : y[i + 1] = b[i]
  BY <1>1
<1>4. x = y
  OBVIOUS
<1> HIDE DEF x, y
<1>5. Len(a) = Len(b)
  BY <1>1, <1>2, <1>3, <1>4
<1>6. \A i \in 1..Len(a) : a[i] = b[i]
  BY <1>2, <1>3, <1>4, <1>5
<1>7. a = b
  BY <1>1, <1>5, <1>6
<1> QED BY <1>2, <1>3, <1>4, <1>7

LEMMA BelowApart ==
    ASSUME NEW j, NEW k, NEW A \in SUBSET Names, NEW B \in SUBSET Names,
           NEW name, name \in Below(j, A), name \in Below(k, B)
    PROVE  j = k
<1>1. PICK a \in A, b \in B : name = <<j>> \o a /\ name = <<k>> \o b
  BY DEF Below
<1> QED BY <1>1, NameParts

LEMMA BelowSame ==
    ASSUME NEW k, NEW A \in SUBSET Names, NEW B \in SUBSET Names,
           Below(k, A) = Below(k, B)
    PROVE  A = B
<1>1. ASSUME NEW X \in SUBSET Names, NEW Y \in SUBSET Names, Below(k, X) = Below(k, Y),
             NEW a \in X
      PROVE  a \in Y
  <2>1. <<k>> \o a \in Below(k, Y)
    BY <1>1 DEF Below
  <2>2. PICK b \in Y : <<k>> \o a = <<k>> \o b
    BY <2>1 DEF Below
  <2>3. a = b
    BY <2>2, NameParts
  <2> QED BY <2>3
<1> QED BY <1>1

LEMMA TwoKeys ==
    ASSUME NEW k
    PROVE  <<"[]">> \o <<k>> = <<"[]", k>>
<1> DEFINE S == {"[]", k}
           a == <<"[]">>
           b == <<k>>
           c == <<"[]", k>>
<1>1. a \in Seq(S) /\ b \in Seq(S) /\ c \in Seq(S)
  OBVIOUS
<1>2. Len(a) = 1 /\ Len(b) = 1 /\ Len(c) = 2 /\ a[1] = "[]" /\ b[1] = k /\ c[1] = "[]" /\ c[2] = k
  OBVIOUS
<1> HIDE DEF S, a, b, c
<1>3. a \o b \in Seq(S) /\ Len(a \o b) = 2 /\ (a \o b)[1] = a[1] /\ (a \o b)[2] = b[1]
  <2>1. a \o b \in Seq(S) /\ Len(a \o b) = 2
    BY <1>1, <1>2, ConcatProperties
  <2>2. 1 \in 1..2 /\ 2 \in 1..2 /\ 1 <= 1 /\ ~(2 <= 1) /\ 2 - 1 = 1
    OBVIOUS
  <2>3. \A i \in 1..2 : (a \o b)[i] = IF i <= 1 THEN a[i] ELSE b[i - 1]
    BY <1>1, <1>2, ConcatProperties
  <2> QED BY <2>1, <2>2, <2>3
<1>4. a \o b = c
  <2>1. \A i \in 1..2 : (a \o b)[i] = c[i]
    BY <1>2, <1>3
  <2> QED BY <1>1, <1>2, <1>3, <2>1
<1> QED BY <1>4 DEF a, b, c

LEMMA OneKey ==
    ASSUME NEW k
    PROVE  <<k>> \o <<>> = <<k>>
<1>1. <<k>> \in Seq({k})
  OBVIOUS
<1> QED BY <1>1, ConcatEmptySeq

-----------------------------------------------------------------------------
(* What the two give for a value.                                              *)

IsLeaf(v, levels) == levels = 0 \/ ~(IsDict(v) \/ IsArrayOfDicts(v))

\* A value has the empty name below itself exactly if it is one column.
LEMMA LeafNames ==
    ASSUME NEW n \in Nat, NEW v \in FieldValues
    PROVE  /\ IsLeaf(v, n) => InferredNames[n][v] = {<<>>}
           /\ <<>> \in InferredNames[n][v] => IsLeaf(v, n)
<1>1. InferredNames[n] = InferOnce(InferredNames[n - 1], n)
  BY InferredNamesDef
<1>2. CASE IsLeaf(v, n)
  BY <1>1, <1>2 DEF IsLeaf, InferOnce
<1>3. CASE ~IsLeaf(v, n)
  <2>1. n - 1 \in Nat /\ n > 0
    BY <1>3 DEF IsLeaf
  <2>2. InferredNames[n - 1] \in NamesByValue
    BY <2>1, NamesOfValues
  <2>3. ASSUME NEW key, NEW names \in SUBSET Names PROVE <<>> \notin Below(key, names)
    <3>1. \A name \in names : <<key>> \o name # <<>>
      BY DEF Names
    <3> QED BY <3>1 DEF Below
  <2>4. ASSUME NEW d \in FieldValues, IsDict(d)
        PROVE  /\ \A k \in DOMAIN d.fields :
                    InferredNames[n - 1][d.fields[k]] \in SUBSET Names /\ k \in Keys
               /\ UNION {Below(k, InferredNames[n - 1][d.fields[k]]) : k \in DOMAIN d.fields}
                    \in SUBSET Names
    <3>1. \A k \in DOMAIN d.fields :
            InferredNames[n - 1][d.fields[k]] \in SUBSET Names /\ k \in Keys
      BY <2>2, <2>4, FieldsAreValues DEF NamesByValue
    <3>2. \A k \in DOMAIN d.fields :
            Below(k, InferredNames[n - 1][d.fields[k]]) \in SUBSET Names
      BY <3>1, BelowNames
    <3> QED BY <3>1, <3>2
  <2>5. CASE IsDict(v)
    <3>1. ~IsArrayOfDicts(v)
      BY <2>5 DEF IsDict, IsArrayOfDicts
    <3>2. InferredNames[n][v] =
            UNION {Below(k, InferredNames[n - 1][v.fields[k]]) : k \in DOMAIN v.fields}
      BY <1>1, <2>1, <2>5, <3>1 DEF InferOnce
    <3>3. \A k \in DOMAIN v.fields : <<>> \notin Below(k, InferredNames[n - 1][v.fields[k]])
      BY <2>3, <2>4, <2>5
    <3>4. <<>> \notin InferredNames[n][v]
      BY <3>2, <3>3
    <3> QED BY <1>3, <3>4
  <2>6. CASE ~IsDict(v) /\ IsArrayOfDicts(v)
    <3> DEFINE first == v.items[1].fields
               below == UNION {Below(k, InferredNames[n - 1][first[k]]) : k \in DOMAIN first}
    <3>1. InferredNames[n][v] = Below("[]", below)
      BY <1>1, <2>1, <2>6 DEF InferOnce
    <3>2. below \in SUBSET Names
      BY <2>4, <2>6, FieldsAreValues
    <3> HIDE DEF below
    <3>3. <<>> \notin InferredNames[n][v]
      BY <2>3, <3>1, <3>2
    <3> QED BY <1>3, <3>3
  <2> QED BY <1>3, <2>5, <2>6 DEF IsLeaf
<1> QED BY <1>2, <1>3

\* A document has the same names if each of its fields has.
LEMMA DictNames ==
    ASSUME NEW n \in Nat, n > 0, NEW v \in FieldValues, IsDict(v)
    PROVE  InferredNames[n][v] = FlatNames[n][v] <=>
             \A k \in DOMAIN v.fields :
                InferredNames[n - 1][v.fields[k]] = FlatNames[n - 1][v.fields[k]]
<1> DEFINE D == DOMAIN v.fields
           I(k) == InferredNames[n - 1][v.fields[k]]
           F(k) == FlatNames[n - 1][v.fields[k]]
<1>1. n - 1 \in Nat /\ ~IsArrayOfDicts(v)
  BY DEF IsDict, IsArrayOfDicts
<1>2. \A k \in D : I(k) \in SUBSET Names /\ F(k) \in SUBSET Names
  BY <1>1, NamesOfValues, FieldsAreValues DEF NamesByValue
<1>3. InferredNames[n][v] = UNION {Below(k, I(k)) : k \in D}
  <2>1. InferredNames[n] = InferOnce(InferredNames[n - 1], n)
    BY InferredNamesDef
  <2> QED BY <1>1, <2>1 DEF InferOnce
<1>4. FlatNames[n][v] = UNION {Below(k, F(k)) : k \in D}
  <2>1. FlatNames[n] = FlatOnce(FlatNames[n - 1], n)
    BY FlatNamesDef
  <2> QED BY <2>1 DEF FlatOnce
<1> HIDE DEF D, I, F
<1>5. ASSUME UNION {Below(k, I(k)) : k \in D} = UNION {Below(k, F(k)) : k \in D}, NEW k \in D
      PROVE  I(k) = F(k)
  <2>1. ASSUME NEW name \in Below(k, I(k)) PROVE name \in Below(k, F(k))
    <3>1. PICK j \in D : name \in Below(j, F(j))
      BY <1>5
    <3>2. j = k
      BY <1>2, <3>1, BelowApart
    <3> QED BY <3>1, <3>2
  <2>2. ASSUME NEW name \in Below(k, F(k)) PROVE name \in Below(k, I(k))
    <3>1. PICK j \in D : name \in Below(j, I(j))
      BY <1>5
    <3>2. j = k
      BY <1>2, <3>1, BelowApart
    <3> QED BY <3>1, <3>2
  <2>3. Below(k, I(k)) = Below(k, F(k))
    BY <2>1, <2>2
  <2> QED BY <1>2, <2>3, BelowSame
<1>6. (\A k \in D : I(k) = F(k)) => UNION {Below(k, I(k)) : k \in D} = UNION {Below(k, F(k)) : k \in D}
  OBVIOUS
<1>7. InferredNames[n][v] = FlatNames[n][v] <=> \A k \in D : I(k) = F(k)
  BY <1>3, <1>4, <1>5, <1>6
<1> QED BY <1>7 DEF D, I, F

\* An array of documents has the same names exactly if it is regular.
LEMMA ArrayNames ==
    ASSUME NEW n \in Nat, n > 0, NEW v \in FieldValues, IsArrayOfDicts(v)
    PROVE  InferredNames[n][v] = FlatNames[n][v] <=> Regular(v, n)
<1> DEFINE first == v.items[1].fields
           D     == DOMAIN first
           I(k)  == InferredNames[n - 1][first[k]]
           below == UNION {Below(k, I(k)) : k \in D}
           All   == UNION {DOMAIN d.fields : d \in Dicts(v)}
<1>1. n - 1 \in Nat /\ ~IsDict(v)
  BY DEF IsDict, IsArrayOfDicts
<1>2. /\ v.items \in Seq(FieldValues) /\ v.items # <<>>
      /\ v.items[1] \in FieldValues /\ IsDict(v.items[1])
  BY FieldsAreValues
<1>3. \A k \in D : first[k] \in FieldValues /\ k \in Keys
  BY <1>2, FieldsAreValues
<1>4. \A k \in D : I(k) \in SUBSET Names
  BY <1>1, <1>3, NamesOfValues DEF NamesByValue
<1>5. InferredNames[n][v] = Below("[]", below)
  <2>1. InferredNames[n] = InferOnce(InferredNames[n - 1], n)
    BY InferredNamesDef
  <2> QED BY <1>1, <2>1 DEF InferOnce
<1>6. FlatNames[n][v] = {<<"[]", k>> : k \in All}
  <2>1. FlatNames[n] = FlatOnce(FlatNames[n - 1], n)
    BY FlatNamesDef
  <2> QED BY <1>1, <2>1 DEF FlatOnce, FlatLeaf
<1>7. D \subseteq All
  <2>1. 1 \in DOMAIN v.items
    BY <1>2
  <2>2. v.items[1] \in Dicts(v)
    BY <1>2, <2>1 DEF Dicts
  <2> QED BY <2>2
<1>8. \A k \in D : /\ IsLeaf(first[k], n - 1) => I(k) = {<<>>}
                   /\ <<>> \in I(k) => IsLeaf(first[k], n - 1)
  BY <1>1, <1>3, LeafNames
<1>9. Regular(v, n) <=> All \subseteq D /\ \A k \in D : IsLeaf(first[k], n - 1)
  BY <1>1 DEF Regular, IsLeaf
<1>10. \A k \in All : k \in Keys
  <2>1. \A d \in Dicts(v) : d \in FieldValues /\ IsDict(d)
    BY <1>2 DEF Dicts
  <2> QED BY <2>1, FieldsAreValues
<1> HIDE DEF D, I, All
<1>11. ASSUME All \subseteq D, \A k \in D : IsLeaf(first[k], n - 1)
       PROVE  Below("[]", below) = {<<"[]", k>> : k \in All}
  <2>1. All = D /\ \A k \in D : I(k) = {<<>>}
    BY <1>7, <1>8, <1>11
  <2>2. \A k \in D : Below(k, I(k)) = {<<k>>}
    <3> TAKE k \in D
    <3>1. I(k) = {<<>>} /\ <<k>> \o <<>> = <<k>>
      BY <2>1, OneKey
    <3> QED BY <3>1 DEF Below
  <2>3. below = {<<k>> : k \in D}
    BY <2>2
  <2>4. \A k \in D : <<"[]">> \o <<k>> = <<"[]", k>>
    BY TwoKeys
  <2> HIDE DEF below
  <2>5. Below("[]", below) = {<<"[]", k>> : k \in D}
    BY <2>3, <2>4 DEF Below
  <2> QED BY <2>1, <2>5
<1>12. ASSUME Below("[]", below) = {<<"[]", k>> : k \in All}, NEW k \in All
       PROVE  k \in D /\ IsLeaf(first[k], n - 1)
  <2>1. <<"[]", k>> \in Below("[]", below)
    BY <1>12
  <2>2. PICK name \in below : <<"[]", k>> = <<"[]">> \o name
    <3> HIDE DEF below
    <3> QED BY <2>1 DEF Below
  <2>3. PICK j \in D : name \in Below(j, I(j))
    BY <2>2
  <2>4. PICK rest \in I(j) : name = <<j>> \o rest
    BY <2>3 DEF Below
  <2>5. rest \in Names /\ <<>> \in Names /\ <<k>> \in Names /\ j \in Keys
    BY <1>3, <1>4, <1>10, <2>4 DEF Names, D
  <2>6. name \in Names
    BY <2>4, <2>5 DEF Names
  <2> DEFINE one == <<k>>
  <2>7. one \in Names /\ <<"[]">> \o one = <<"[]">> \o name /\ one = <<k>> \o <<>>
    BY <2>2, <2>5, OneKey
  <2> HIDE DEF one
  <2>8. one = name
    BY <2>6, <2>7, NameParts
  <2>9. k = j /\ <<>> = rest
    BY <2>4, <2>5, <2>7, <2>8, NameParts
  <2> QED BY <1>8, <2>4, <2>9
<1>13. Below("[]", below) = {<<"[]", k>> : k \in All} <=>
         All \subseteq D /\ \A k \in D : IsLeaf(first[k], n - 1)
  <2> HIDE DEF below, first
  <2> QED BY <1>7, <1>11, <1>12
<1> QED BY <1>5, <1>6, <1>9, <1>13

-----------------------------------------------------------------------------
(* Documents of any depth.                                                     *)

SameIffRegular(n, v) ==
    InferredNames[n][v] = FlatNames[n][v] <=> \A a \in Arrays[n][v] : Regular(a[1], a[2])

\* From the fields of a document, or the array itself.
LEMMA SameOneLevelUp ==
    ASSUME NEW n \in Nat, NEW v \in FieldValues,
           n > 0 => \A x \in FieldValues : SameIffRegular(n - 1, x)
    PROVE  SameIffRegular(n, v)
<1>1. Arrays[n] = FindOnce(Arrays[n - 1], n)
  BY ArraysDef
<1>2. CASE n > 0 /\ IsDict(v)
  <2> DEFINE D == DOMAIN v.fields
             A(k) == Arrays[n - 1][v.fields[k]]
             Same(k) == InferredNames[n - 1][v.fields[k]] = FlatNames[n - 1][v.fields[k]]
             Good(a) == Regular(a[1], a[2])
  <2>1. ~IsArrayOfDicts(v)
    BY <1>2 DEF IsDict, IsArrayOfDicts
  <2>2. Arrays[n][v] = UNION {A(k) : k \in D}
    BY <1>1, <1>2, <2>1 DEF FindOnce
  <2>3. \A k \in D : Same(k) <=> \A a \in A(k) : Good(a)
    BY <1>2, FieldsAreValues DEF SameIffRegular
  <2>4. InferredNames[n][v] = FlatNames[n][v] <=> \A k \in D : Same(k)
    BY <1>2, DictNames
  <2>5. SameIffRegular(n, v) <=>
          (InferredNames[n][v] = FlatNames[n][v] <=> \A a \in Arrays[n][v] : Good(a))
    BY DEF SameIffRegular
  <2> HIDE DEF D, A, Same, Good
  <2>6. (\A a \in Arrays[n][v] : Good(a)) <=> \A k \in D : \A a \in A(k) : Good(a)
    BY <2>2
  <2> QED BY <2>3, <2>4, <2>5, <2>6
<1>3. CASE n > 0 /\ ~IsDict(v) /\ IsArrayOfDicts(v)
  <2>1. Arrays[n][v] = {<<v, n>>}
    BY <1>1, <1>3 DEF FindOnce
  <2>2. (\A a \in Arrays[n][v] : Regular(a[1], a[2])) <=> Regular(v, n)
    BY <2>1
  <2> QED BY <1>3, <2>2, ArrayNames DEF SameIffRegular
<1>4. CASE ~(n > 0 /\ IsDict(v)) /\ ~(n > 0 /\ IsArrayOfDicts(v))
  <2>1. Arrays[n][v] = {}
    BY <1>1, <1>4 DEF FindOnce
  <2>2. InferredNames[n][v] = {<<>>}
    BY <1>4, LeafNames DEF IsLeaf
  <2>3. FlatNames[n][v] = {<<>>}
    <3>1. FlatNames[n] = FlatOnce(FlatNames[n - 1], n)
      BY FlatNamesDef
    <3> QED BY <1>4, <3>1 DEF FlatOnce, FlatLeaf
  <2> QED BY <2>1, <2>2, <2>3 DEF SameIffRegular
<1> QED BY <1>2, <1>3, <1>4

\* Whatever documents MongoDB holds, however deep, and whatever max_depth is:
\* _infer_columns and _flatten_doc name the same columns exactly if every array
\* of documents that a read flattens is regular.
THEOREM SchemaNamesMatch == \A v \in FieldValues : SameIffRegular(MaxDepth, v)
<1> DEFINE Good == {n \in Nat : \A v \in FieldValues : SameIffRegular(n, v)}
<1>1. 0 \in Good
  BY SameOneLevelUp
<1>2. ASSUME NEW n \in Nat, n \in Good PROVE n + 1 \in Good
  <2>1. n + 1 \in Nat /\ (n + 1) - 1 = n
    OBVIOUS
  <2>2. \A v \in FieldValues : SameIffRegular(n, v)
    BY <1>2
  <2>3. \A v \in FieldValues : SameIffRegular(n + 1, v)
    BY <2>1, <2>2, SameOneLevelUp
  <2> QED BY <2>1, <2>3
<1> HIDE DEF Good
<1>3. MaxDepth \in Good
  BY <1>1, <1>2, NatsReached, DocumentAssumption
<1> QED BY <1>3 DEF Good

\* The same of the value that the run of the model builds: NamesMatchUnlessNested.
THEOREM NamesMatch == DocumentSpec => []NamesMatchUnlessNested
<1> DEFINE Known == value \in FieldValues
<1>1. DocumentInit => Known
  BY DEF DocumentInit, FieldValues
<1>2. Known /\ [DocumentNext]_value => Known'
  BY DEF DocumentNext, Enclose
<1>3. Known => NamesMatchUnlessNested
  BY SchemaNamesMatch DEF SameIffRegular, NamesMatchUnlessNested
<1> HIDE DEF Known
<1> QED BY <1>1, <1>2, <1>3, PTL DEF DocumentSpec

-----------------------------------------------------------------------------
(* MathExpressions: tokens, trees and parses.                                  *)

Formula == tokens \in Seq(Tokens)

LEMMA TokensKnown ==
    ASSUME Formula, NEW pos \in Nat
    PROVE  /\ Len(tokens) \in Nat
           /\ TokenAt(pos) # "end" => pos \in 1..Len(tokens)
           /\ TokenAt(pos) \in MathOps \cup {"(", ")", "end"} => TokenAt(pos) \notin Operands
           /\ TokenAt(pos) \in Tokens \cup {"end"}
           /\ pos \in 1..Len(tokens) => TokenAt(pos) \in Tokens
           /\ pos > Len(tokens) => TokenAt(pos) = "end"
           /\ TokenAt(0) = "end"
  BY FormulaAssumption DEF Formula, TokenAt, Tokens

LEMMA CombinedTrees ==
    ASSUME NEW op \in MathOps, NEW l \in Trees, NEW r \in Trees
    PROVE  Combined(op, l, r) \in Trees /\ Combined(op, l, r) # NoTree
<1> DEFINE S == Operands \cup MathOps
           o == <<op>>
           lr == l \o r
<1>1. o \in Seq(S) /\ Len(o) = 1 /\ l \in Seq(S) /\ r \in Seq(S)
  BY DEF Trees
<1> HIDE DEF S, o
<1>2. lr \in Seq(S)
  BY <1>1, ConcatProperties
<1> HIDE DEF lr
<1>3. lr \o o \in Seq(S) /\ Len(lr \o o) = Len(lr) + 1 /\ Len(lr) \in Nat
  <2>1. Len(lr) \in Nat
    BY <1>2
  <2>2. lr \o o \in Seq(S) /\ Len(lr \o o) = Len(lr) + Len(o)
    BY <1>1, <1>2, ConcatProperties
  <2> QED BY <1>1, <2>1, <2>2
<1>4. lr \o o # <<>>
  BY <1>3
<1> QED BY <1>3, <1>4 DEF Combined, Trees, NoTree, S, o, lr

LEMMA ParsesKnown ==
    ASSUME NEW parse \in Parses
    PROVE  /\ parse.tree \in Trees /\ parse.pos \in Nat
           /\ parse = [tree |-> parse.tree, pos |-> parse.pos]
  BY DEF Parses

LEMMA RaisedParse == Raised \in Parses /\ Raised.pos = 0 /\ Raised.tree = NoTree
<1>1. NoTree \in Trees
  BY DEF NoTree, Trees
<1> QED BY <1>1 DEF Raised, Parses

LEMMA ExtendedParse ==
    ASSUME NEW left \in Parses, NEW right \in Parses, TokenAt(left.pos) \in MathOps
    PROVE  Extended(left, right) \in Parses
<1>1. Combined(TokenAt(left.pos), left.tree, right.tree) \in Trees
  BY ParsesKnown, CombinedTrees
<1> QED BY <1>1, ParsesKnown DEF Extended, Parses

-----------------------------------------------------------------------------
(* The parser unfolds.                                                         *)

Parsers == [primary : [Nat -> Parses], factors : [Parses -> Parses], terms : [Parses -> Parses]]

ParserAtEnd ==
    [primary |-> [pos \in Nat |-> Raised],
     factors |-> [left \in Parses |-> left],
     terms   |-> [left \in Parses |-> left]]

ParserAbove(below) ==
    [primary |-> [pos \in Nat |-> _parse_primary(below, pos)],
     factors |-> [left \in Parses |-> Factors(below, left)],
     terms   |-> [left \in Parses |-> Terms(below, left)]]

LEMMA CallsType ==
    ASSUME NEW below \in Parsers, NEW pos \in Nat
    PROVE  /\ below.primary[pos] \in Parses
           /\ _parse_multiplicative(below, pos) \in Parses
           /\ _parse_additive(below, pos) \in Parses
           /\ \A left \in Parses : below.factors[left] \in Parses /\ below.terms[left] \in Parses
  BY DEF Parsers, _parse_multiplicative, _parse_additive

LEMMA PrimaryType ==
    ASSUME Formula, NEW below \in Parsers, NEW pos \in Nat
    PROVE  _parse_primary(below, pos) \in Parses
<1>1. CASE TokenAt(pos) \in Operands
  <2>1. <<TokenAt(pos)>> \in Trees
    BY <1>1 DEF Trees
  <2>2. TokenAt(pos) # "("
    BY <1>1, TokensKnown
  <2> QED BY <1>1, <2>1, <2>2 DEF _parse_primary, Parses
<1>2. CASE TokenAt(pos) = "("
  <2> DEFINE inner == _parse_additive(below, pos + 1)
  <2>1. inner \in Parses
    BY CallsType
  <2>2. TokenAt(pos) \notin Operands
    BY <1>2, TokensKnown
  <2>3. _parse_primary(below, pos) =
            IF TokenAt(inner.pos) = ")" THEN [inner EXCEPT !.pos = @ + 1] ELSE Raised
    BY <1>2, <2>2 DEF _parse_primary
  <2> HIDE DEF inner
  <2>4. [inner EXCEPT !.pos = @ + 1] \in Parses
    BY <2>1 DEF Parses
  <2> QED BY <2>3, <2>4, RaisedParse
<1>3. CASE TokenAt(pos) \notin Operands /\ TokenAt(pos) # "("
  BY <1>3, RaisedParse DEF _parse_primary
<1> QED BY <1>1, <1>2, <1>3

LEMMA FactorsType ==
    ASSUME Formula, NEW below \in Parsers, NEW left \in Parses
    PROVE  Factors(below, left) \in Parses
<1>1. CASE TokenAt(left.pos) \notin {"*", "/"}
  BY <1>1 DEF Factors
<1>2. CASE TokenAt(left.pos) \in {"*", "/"}
  <2> DEFINE right == below.primary[left.pos + 1]
  <2>1. right \in Parses
    BY CallsType, ParsesKnown
  <2>2. Factors(below, left) =
            IF right = Raised THEN Raised ELSE below.factors[Extended(left, right)]
    BY <1>2 DEF Factors
  <2> HIDE DEF right
  <2>3. Extended(left, right) \in Parses
    BY <1>2, <2>1, ExtendedParse DEF MathOps
  <2> QED BY <2>2, <2>3, RaisedParse, CallsType
<1> QED BY <1>1, <1>2

LEMMA TermsType ==
    ASSUME Formula, NEW below \in Parsers, NEW left \in Parses
    PROVE  Terms(below, left) \in Parses
<1>1. CASE TokenAt(left.pos) \notin {"+", "-"}
  BY <1>1 DEF Terms
<1>2. CASE TokenAt(left.pos) \in {"+", "-"}
  <2> DEFINE right == _parse_multiplicative(below, left.pos + 1)
  <2>1. right \in Parses
    BY CallsType, ParsesKnown
  <2>2. Terms(below, left) =
            IF right = Raised THEN Raised ELSE below.terms[Extended(left, right)]
    BY <1>2 DEF Terms
  <2> HIDE DEF right
  <2>3. Extended(left, right) \in Parses
    BY <1>2, <2>1, ExtendedParse DEF MathOps
  <2> QED BY <2>2, <2>3, RaisedParse, CallsType
<1> QED BY <1>1, <1>2

LEMMA ParserAboveType ==
    ASSUME Formula, NEW below \in Parsers
    PROVE  ParserAbove(below) \in Parsers
  BY PrimaryType, FactorsType, TermsType DEF ParserAbove, Parsers

LEMMA ParserUnfolds ==
    ASSUME Formula
    PROVE  /\ Parser[0] = ParserAtEnd
           /\ \A n \in Nat : n > 0 => Parser[n] = ParserAbove(Parser[n - 1])
           /\ \A n \in Nat : Parser[n] \in Parsers
<1> DEFINE step == [n \in Nat |-> [below \in Parsers |-> ParserAbove(below)]]
           Is(f) == f = [n \in Nat |-> IF n = 0 THEN ParserAtEnd ELSE ParserAbove(f[n - 1])]
<1>1. ParserAtEnd \in Parsers
  BY RaisedParse DEF ParserAtEnd, Parsers
<1>2. step \in [Nat -> [Parsers -> Parsers]]
  BY ParserAboveType
<1>3. PICK f \in [Nat -> Parsers] :
        f[0] = ParserAtEnd /\ \A n \in Nat : n > 0 => f[n] = step[n][f[n - 1]]
  <2> HIDE DEF step
  <2> QED BY <1>1, <1>2, RecursionExists
<1>4. ASSUME NEW n \in Nat PROVE f[n] = IF n = 0 THEN ParserAtEnd ELSE ParserAbove(f[n - 1])
  <2>1. CASE n = 0
    BY <1>3, <2>1
  <2>2. CASE n > 0
    <3>1. n - 1 \in Nat /\ f[n - 1] \in Parsers
      BY <2>2
    <3> QED BY <1>3, <2>2, <3>1
  <2> QED BY <2>1, <2>2
<1>5. Is(f)
  BY <1>4
<1>6. Is(Parser)
  BY <1>5 DEF Parser, ParserAtEnd, ParserAbove
<1> HIDE DEF step
<1>7. \A n \in Nat : Parser[n] = IF n = 0 THEN ParserAtEnd ELSE ParserAbove(Parser[n - 1])
  BY <1>6
<1>8. /\ Parser[0] = ParserAtEnd
      /\ \A n \in Nat : n > 0 => Parser[n] = ParserAbove(Parser[n - 1])
  BY <1>7
<1>9. \A n \in Nat : Parser[n] \in Parsers
  <2> DEFINE Good == {n \in Nat : Parser[n] \in Parsers}
  <2>1. 0 \in Good
    BY <1>1, <1>8
  <2>2. ASSUME NEW n \in Nat, n \in Good PROVE n + 1 \in Good
    <3>1. n + 1 \in Nat /\ n + 1 > 0 /\ (n + 1) - 1 = n
      OBVIOUS
    <3>2. Parser[n + 1] = ParserAbove(Parser[n])
      BY <1>8, <3>1
    <3> QED BY <2>2, <3>1, <3>2, ParserAboveType
  <2> HIDE DEF Good
  <2>3. \A n \in Nat : n \in Good
    BY <2>1, <2>2, NatsReached
  <2> QED BY <2>3 DEF Good
<1> QED BY <1>8, <1>9

-----------------------------------------------------------------------------
(* The grammar unfolds.                                                        *)

Charts == [primary : [Spans -> SUBSET Trees], multiplicative : [Spans -> SUBSET Trees],
           additive : [Spans -> SUBSET Trees]]

NoChart == [primary |-> NoTrees, multiplicative |-> NoTrees, additive |-> NoTrees]

ChartAbove(shorter) ==
    [primary        |-> [s \in Spans |-> PrimaryTrees(shorter, s[1], s[2])],
     multiplicative |-> [s \in Spans |-> MultiplicativeTrees(shorter, s[1], s[2])],
     additive       |-> [s \in Spans |-> AdditiveTrees(shorter, s[1], s[2])]]

HasParts(t, ops, left, right, i, j) ==
    \E k \in i..j : \E l \in left[<<i, k - 1>>], r \in right[<<k + 1, j>>] :
        /\ TokenAt(k) \in ops /\ k > 0 /\ k - 1 \in Nat /\ l \in Trees /\ r \in Trees
        /\ t = Combined(TokenAt(k), l, r)

\* What is split at an operator is the trees on its two sides.
LEMMA SplitParts ==
    ASSUME Formula, NEW ops \in SUBSET MathOps, NEW i \in Nat, NEW j \in Nat,
           NEW left \in [Spans -> SUBSET Trees], NEW right \in [Spans -> SUBSET Trees],
           NEW t \in Split(ops, left, right, i, j)
    PROVE  HasParts(t, ops, left, right, i, j)
<1>1. PICK k \in i..j : TokenAt(k) \in ops
                       /\ t \in Both(TokenAt(k), left[<<i, k - 1>>], right[<<k + 1, j>>])
  BY DEF Split
<1>2. PICK l \in left[<<i, k - 1>>], r \in right[<<k + 1, j>>] : t = Combined(TokenAt(k), l, r)
  BY <1>1 DEF Both
<1>3. k \in Nat /\ k # 0
  BY <1>1, TokensKnown DEF MathOps
<1>4. k > 0 /\ k - 1 \in Nat /\ k + 1 \in Nat
  BY <1>3
<1>5. <<i, k - 1>> \in Spans /\ <<k + 1, j>> \in Spans
  BY <1>4 DEF Spans
<1>6. l \in Trees /\ r \in Trees
  BY <1>5
<1> QED BY <1>1, <1>2, <1>4, <1>6 DEF HasParts

LEMMA SplitTrees ==
    ASSUME Formula, NEW ops \in SUBSET MathOps, NEW i \in Nat, NEW j \in Nat,
           NEW left \in [Spans -> SUBSET Trees], NEW right \in [Spans -> SUBSET Trees]
    PROVE  /\ Split(ops, left, right, i, j) \in SUBSET Trees
           /\ \A k \in i..j : \A l \in left[<<i, k - 1>>], r \in right[<<k + 1, j>>] :
                TokenAt(k) \in ops => Combined(TokenAt(k), l, r) \in Split(ops, left, right, i, j)
<1>1. ASSUME NEW t \in Split(ops, left, right, i, j) PROVE t \in Trees
  <2>0. HasParts(t, ops, left, right, i, j)
    BY SplitParts
  <2>1. PICK k \in i..j, l \in Trees, r \in Trees :
            TokenAt(k) \in ops /\ t = Combined(TokenAt(k), l, r)
    BY <2>0 DEF HasParts
  <2> QED BY <2>1, CombinedTrees
<1>2. ASSUME NEW k \in i..j, NEW l \in left[<<i, k - 1>>], NEW r \in right[<<k + 1, j>>],
             TokenAt(k) \in ops
      PROVE  Combined(TokenAt(k), l, r) \in Split(ops, left, right, i, j)
  <2>1. Combined(TokenAt(k), l, r) \in Both(TokenAt(k), left[<<i, k - 1>>], right[<<k + 1, j>>])
    BY DEF Both
  <2> QED BY <1>2, <2>1 DEF Split
<1> QED BY <1>1, <1>2

LEMMA SpansKnown ==
    ASSUME NEW shorter \in Charts, NEW i \in Nat, NEW j \in Nat
    PROVE  /\ <<i, j>> \in Spans /\ shorter.primary[<<i, j>>] \in SUBSET Trees
           /\ shorter.multiplicative[<<i, j>>] \in SUBSET Trees
           /\ shorter.additive[<<i, j>>] \in SUBSET Trees
           /\ shorter.primary \in [Spans -> SUBSET Trees]
           /\ shorter.multiplicative \in [Spans -> SUBSET Trees]
           /\ shorter.additive \in [Spans -> SUBSET Trees]
  BY DEF Charts, Spans

LEMMA RuleTypes ==
    ASSUME Formula, NEW shorter \in Charts, NEW i \in Nat, NEW j \in Nat
    PROVE  /\ PrimaryTrees(shorter, i, j) \in SUBSET Trees
           /\ MultiplicativeTrees(shorter, i, j) \in SUBSET Trees
           /\ AdditiveTrees(shorter, i, j) \in SUBSET Trees
<1>1. PrimaryTrees(shorter, i, j) \in SUBSET Trees
  <2>1. TokenAt(i) \in Operands => <<TokenAt(i)>> \in Trees
    BY DEF Trees
  <2>2. i < j => shorter.additive[<<i + 1, j - 1>>] \in SUBSET Trees
    <3>1. i < j => i + 1 \in Nat /\ j - 1 \in Nat
      OBVIOUS
    <3> QED BY <3>1, SpansKnown
  <2> QED BY <2>1, <2>2 DEF PrimaryTrees
<1>2. MultiplicativeTrees(shorter, i, j) \in SUBSET Trees
  <2>1. Split({"*", "/"}, shorter.multiplicative, shorter.primary, i, j) \in SUBSET Trees
    BY SplitTrees, SpansKnown DEF MathOps
  <2> QED BY <1>1, <2>1 DEF MultiplicativeTrees
<1>3. AdditiveTrees(shorter, i, j) \in SUBSET Trees
  <2>1. Split({"+", "-"}, shorter.additive, shorter.multiplicative, i, j) \in SUBSET Trees
    BY SplitTrees, SpansKnown DEF MathOps
  <2> QED BY <1>2, <2>1 DEF AdditiveTrees
<1> QED BY <1>1, <1>2, <1>3

LEMMA ChartAboveType ==
    ASSUME Formula, NEW shorter \in Charts
    PROVE  ChartAbove(shorter) \in Charts
<1>1. \A s \in Spans : s[1] \in Nat /\ s[2] \in Nat
  BY DEF Spans
<1>2. \A s \in Spans : /\ PrimaryTrees(shorter, s[1], s[2]) \in SUBSET Trees
                       /\ MultiplicativeTrees(shorter, s[1], s[2]) \in SUBSET Trees
                       /\ AdditiveTrees(shorter, s[1], s[2]) \in SUBSET Trees
  BY <1>1, RuleTypes
<1> QED BY <1>2 DEF ChartAbove, Charts

LEMMA DerivationsUnfold ==
    ASSUME Formula
    PROVE  /\ Derivations[0] = NoChart
           /\ \A n \in Nat : n > 0 => Derivations[n] = ChartAbove(Derivations[n - 1])
           /\ \A n \in Nat : Derivations[n] \in Charts
<1> DEFINE step == [n \in Nat |-> [shorter \in Charts |-> ChartAbove(shorter)]]
           Is(f) == f = [n \in Nat |-> IF n = 0 THEN NoChart ELSE ChartAbove(f[n - 1])]
<1>1. NoChart \in Charts
  BY DEF NoChart, NoTrees, Charts
<1>2. step \in [Nat -> [Charts -> Charts]]
  BY ChartAboveType
<1>3. PICK f \in [Nat -> Charts] :
        f[0] = NoChart /\ \A n \in Nat : n > 0 => f[n] = step[n][f[n - 1]]
  <2> HIDE DEF step
  <2> QED BY <1>1, <1>2, RecursionExists
<1>4. ASSUME NEW n \in Nat PROVE f[n] = IF n = 0 THEN NoChart ELSE ChartAbove(f[n - 1])
  <2>1. CASE n = 0
    BY <1>3, <2>1
  <2>2. CASE n > 0
    <3>1. n - 1 \in Nat /\ f[n - 1] \in Charts
      BY <2>2
    <3> QED BY <1>3, <2>2, <3>1
  <2> QED BY <2>1, <2>2
<1>5. Is(f)
  BY <1>4
<1>6. Is(Derivations)
  BY <1>5 DEF Derivations, NoChart, ChartAbove
<1> HIDE DEF step
<1>7. \A n \in Nat : Derivations[n] = IF n = 0 THEN NoChart ELSE ChartAbove(Derivations[n - 1])
  BY <1>6
<1>8. /\ Derivations[0] = NoChart
      /\ \A n \in Nat : n > 0 => Derivations[n] = ChartAbove(Derivations[n - 1])
  BY <1>7
<1>9. \A n \in Nat : Derivations[n] \in Charts
  <2> DEFINE Good == {n \in Nat : Derivations[n] \in Charts}
  <2>1. 0 \in Good
    BY <1>1, <1>8
  <2>2. ASSUME NEW n \in Nat, n \in Good PROVE n + 1 \in Good
    <3>1. n + 1 \in Nat /\ n + 1 > 0 /\ (n + 1) - 1 = n
      OBVIOUS
    <3>2. Derivations[n + 1] = ChartAbove(Derivations[n])
      BY <1>8, <3>1
    <3> QED BY <2>2, <3>1, <3>2, ChartAboveType
  <2> HIDE DEF Good
  <2>3. \A n \in Nat : n \in Good
    BY <2>1, <2>2, NatsReached
  <2> QED BY <2>3 DEF Good
<1> QED BY <1>8, <1>9

\* What a rule derives from tokens, for each number that is enough.
LEMMA DerivationSteps ==
    ASSUME Formula, NEW m \in Nat, m > 0, NEW i \in Nat, NEW j \in Nat
    PROVE  /\ m - 1 \in Nat /\ Derivations[m - 1] \in Charts
           /\ Derivations[m].primary[<<i, j>>] = PrimaryTrees(Derivations[m - 1], i, j)
           /\ Derivations[m].multiplicative[<<i, j>>] = MultiplicativeTrees(Derivations[m - 1], i, j)
           /\ Derivations[m].additive[<<i, j>>] = AdditiveTrees(Derivations[m - 1], i, j)
<1>1. m - 1 \in Nat /\ Derivations[m] = ChartAbove(Derivations[m - 1])
  BY DerivationsUnfold
<1>2. <<i, j>> \in Spans /\ <<i, j>>[1] = i /\ <<i, j>>[2] = j
  BY DEF Spans
<1> QED BY <1>1, <1>2, DerivationsUnfold DEF ChartAbove

-----------------------------------------------------------------------------
(* What is parsed is derived: a parse from i on is one of a rule if the rule   *)
(* derives its tree from the tokens up to its position.                        *)

IsPrimary(i, parse) ==
    /\ parse.pos > i
    /\ \A m \in Nat : m >= parse.pos - i =>
            parse.tree \in Derivations[m].primary[<<i, parse.pos - 1>>]

IsMultiplicative(i, parse) ==
    /\ parse.pos > i
    /\ \A m \in Nat : m >= parse.pos - i =>
            parse.tree \in Derivations[m].multiplicative[<<i, parse.pos - 1>>]

IsAdditive(i, parse) ==
    /\ parse.pos > i
    /\ \A m \in Nat : m >= parse.pos - i =>
            parse.tree \in Derivations[m].additive[<<i, parse.pos - 1>>]

LEMMA RulesInclude ==
    ASSUME Formula, NEW i \in Nat, NEW parse \in Parses
    PROVE  /\ IsPrimary(i, parse) => IsMultiplicative(i, parse)
           /\ IsMultiplicative(i, parse) => IsAdditive(i, parse)
<1>1. ASSUME parse.pos > i, NEW m \in Nat, m >= parse.pos - i
      PROVE  LET s == <<i, parse.pos - 1>>
             IN  /\ Derivations[m].primary[s] \subseteq Derivations[m].multiplicative[s]
                 /\ Derivations[m].multiplicative[s] \subseteq Derivations[m].additive[s]
  <2>1. m > 0 /\ parse.pos - 1 \in Nat
    BY <1>1, ParsesKnown
  <2> QED BY <2>1, DerivationSteps DEF MultiplicativeTrees, AdditiveTrees
<1> QED BY <1>1 DEF IsPrimary, IsMultiplicative, IsAdditive

Sound(p) ==
    /\ p \in Parsers
    /\ p.factors[Raised] = Raised /\ p.terms[Raised] = Raised
    /\ \A i \in Nat : p.primary[i] # Raised => IsPrimary(i, p.primary[i])
    /\ \A i \in Nat, left \in Parses : IsMultiplicative(i, left) =>
            p.factors[left] = Raised \/ IsMultiplicative(i, p.factors[left])
    /\ \A i \in Nat, left \in Parses : IsAdditive(i, left) =>
            p.terms[left] = Raised \/ IsAdditive(i, p.terms[left])

LEMMA SoundCalls ==
    ASSUME Formula, NEW p, Sound(p), NEW i \in Nat
    PROVE  /\ \/ _parse_multiplicative(p, i) = Raised
              \/ IsMultiplicative(i, _parse_multiplicative(p, i))
           /\ \/ _parse_additive(p, i) = Raised
              \/ IsAdditive(i, _parse_additive(p, i))
<1> DEFINE first  == p.primary[i]
           factor == _parse_multiplicative(p, i)
<1>1. /\ p \in Parsers /\ first \in Parses /\ factor \in Parses
      /\ factor = p.factors[first] /\ _parse_additive(p, i) = p.terms[factor]
  BY CallsType DEF Sound, _parse_multiplicative, _parse_additive
<1>2. first = Raised \/ IsMultiplicative(i, first)
  BY <1>1, RulesInclude DEF Sound
<1> HIDE DEF first, factor
<1>3. factor = Raised \/ IsMultiplicative(i, factor)
  BY <1>1, <1>2 DEF Sound
<1>4. _parse_additive(p, i) = Raised \/ IsAdditive(i, _parse_additive(p, i))
  BY <1>1, <1>3, RulesInclude DEF Sound
<1> QED BY <1>3, <1>4 DEF factor

LEMMA SoundPrimary ==
    ASSUME Formula, NEW p, Sound(p), NEW i \in Nat, _parse_primary(p, i) # Raised
    PROVE  IsPrimary(i, _parse_primary(p, i))
<1> DEFINE parse == _parse_primary(p, i)
<1>1. CASE TokenAt(i) \in Operands
  <2>1. parse = [tree |-> <<TokenAt(i)>>, pos |-> i + 1]
    BY <1>1, TokensKnown DEF _parse_primary
  <2>2. ASSUME NEW m \in Nat, m >= 1
        PROVE  <<TokenAt(i)>> \in Derivations[m].primary[<<i, i>>]
    <3>1. Derivations[m].primary[<<i, i>>] = PrimaryTrees(Derivations[m - 1], i, i)
      BY <2>2, DerivationSteps
    <3>2. <<TokenAt(i)>> \in PrimaryTrees(Derivations[m - 1], i, i)
      BY <1>1 DEF PrimaryTrees
    <3> QED BY <3>1, <3>2
  <2>3. parse.tree = <<TokenAt(i)>> /\ parse.pos = i + 1 /\ parse.pos - 1 = i
    BY <2>1
  <2> HIDE DEF parse
  <2>4. IsPrimary(i, parse)
    BY <2>2, <2>3 DEF IsPrimary
  <2> QED BY <2>4 DEF parse
<1>2. CASE TokenAt(i) = "("
  <2> DEFINE inner == _parse_additive(p, i + 1)
  <2>1. TokenAt(i) \notin Operands
    BY <1>2, TokensKnown
  <2>2. parse = IF TokenAt(inner.pos) = ")" THEN [inner EXCEPT !.pos = @ + 1] ELSE Raised
    BY <1>2, <2>1 DEF _parse_primary
  <2>3. inner \in Parses
    BY CallsType DEF Sound
  <2>4. inner = Raised \/ IsAdditive(i + 1, inner)
    BY SoundCalls
  <2> HIDE DEF inner
  <2>5. TokenAt(inner.pos) = ")" /\ parse = [inner EXCEPT !.pos = @ + 1]
    BY <2>2
  <2>6. inner # Raised
    BY <2>5, TokensKnown, RaisedParse
  <2>7. parse.tree = inner.tree /\ parse.pos = inner.pos + 1 /\ inner.pos \in Nat
    BY <2>3, <2>5 DEF Parses
  <2>8. inner.pos > i + 1 /\ \A m \in Nat : m >= inner.pos - (i + 1) =>
            inner.tree \in Derivations[m].additive[<<i + 1, inner.pos - 1>>]
    BY <2>4, <2>6 DEF IsAdditive
  <2>9. ASSUME NEW m \in Nat, m >= inner.pos + 1 - i
        PROVE  inner.tree \in Derivations[m].primary[<<i, inner.pos>>]
    <3>1. m > 0 /\ m - 1 \in Nat /\ m - 1 >= inner.pos - (i + 1) /\ i < inner.pos
      BY <2>7, <2>8, <2>9
    <3>2. inner.tree \in Derivations[m - 1].additive[<<i + 1, inner.pos - 1>>]
      BY <2>8, <3>1
    <3>3. inner.tree \in PrimaryTrees(Derivations[m - 1], i, inner.pos)
      BY <1>2, <2>5, <3>1, <3>2 DEF PrimaryTrees
    <3> QED BY <2>7, <3>1, <3>3, DerivationSteps
  <2> HIDE DEF parse
  <2>10. parse.pos - 1 = inner.pos /\ parse.pos > i
    BY <2>7, <2>8
  <2>11. IsPrimary(i, parse)
    BY <2>7, <2>9, <2>10 DEF IsPrimary
  <2> QED BY <2>11 DEF parse
<1>3. CASE TokenAt(i) \notin Operands /\ TokenAt(i) # "("
  BY <1>3 DEF _parse_primary
<1> QED BY <1>1, <1>2, <1>3

\* What follows an operator of multiplication extends the factors before it.
LEMMA FactorsExtend ==
    ASSUME Formula, NEW i \in Nat, NEW left \in Parses, NEW right \in Parses,
           TokenAt(left.pos) \in {"*", "/"},
           IsMultiplicative(i, left), IsPrimary(left.pos + 1, right)
    PROVE  IsMultiplicative(i, Extended(left, right))
<1> DEFINE k == left.pos
           j == right.pos - 1
<1>1. k \in Nat /\ right.pos \in Nat /\ k > i /\ right.pos > k + 1 /\ j \in Nat /\ k \in i..j
  BY ParsesKnown DEF IsMultiplicative, IsPrimary
<1>2. Extended(left, right).pos = right.pos
  BY DEF Extended
<1>3. Extended(left, right).tree = Combined(TokenAt(k), left.tree, right.tree)
  BY DEF Extended
<1>4. ASSUME NEW m \in Nat, m >= right.pos - i
      PROVE  Combined(TokenAt(k), left.tree, right.tree) \in Derivations[m].multiplicative[<<i, j>>]
  <2>1. m > 0 /\ m - 1 \in Nat /\ m - 1 >= k - i /\ m - 1 >= right.pos - (k + 1)
    BY <1>1, <1>4
  <2>2. left.tree \in Derivations[m - 1].multiplicative[<<i, k - 1>>]
    BY <2>1 DEF IsMultiplicative
  <2>3. right.tree \in Derivations[m - 1].primary[<<k + 1, j>>]
    BY <2>1 DEF IsPrimary
  <2>4. Derivations[m - 1] \in Charts
    BY <2>1, DerivationsUnfold
  <2> DEFINE D == Derivations[m - 1]
  <2> HIDE DEF k, j
  <2>5. Combined(TokenAt(k), left.tree, right.tree)
            \in Split({"*", "/"}, D.multiplicative, D.primary, i, j)
    <3>1. TokenAt(k) \in {"*", "/"} /\ {"*", "/"} \in SUBSET MathOps
      BY DEF k, MathOps
    <3>2. /\ D.multiplicative \in [Spans -> SUBSET Trees] /\ D.primary \in [Spans -> SUBSET Trees]
      BY <2>4 DEF Charts
    <3> QED BY <1>1, <2>2, <2>3, <3>1, <3>2, SplitTrees
  <2> QED BY <1>1, <2>1, <2>5, DerivationSteps DEF MultiplicativeTrees
<1> HIDE DEF k
<1>5. right.pos > i
  BY <1>1
<1> QED BY <1>2, <1>3, <1>4, <1>5 DEF IsMultiplicative

LEMMA TermsExtend ==
    ASSUME Formula, NEW i \in Nat, NEW left \in Parses, NEW right \in Parses,
           TokenAt(left.pos) \in {"+", "-"},
           IsAdditive(i, left), IsMultiplicative(left.pos + 1, right)
    PROVE  IsAdditive(i, Extended(left, right))
<1> DEFINE k == left.pos
           j == right.pos - 1
<1>1. k \in Nat /\ right.pos \in Nat /\ k > i /\ right.pos > k + 1 /\ j \in Nat /\ k \in i..j
  BY ParsesKnown DEF IsMultiplicative, IsAdditive
<1>2. Extended(left, right).pos = right.pos
  BY DEF Extended
<1>3. Extended(left, right).tree = Combined(TokenAt(k), left.tree, right.tree)
  BY DEF Extended
<1>4. ASSUME NEW m \in Nat, m >= right.pos - i
      PROVE  Combined(TokenAt(k), left.tree, right.tree) \in Derivations[m].additive[<<i, j>>]
  <2>1. m > 0 /\ m - 1 \in Nat /\ m - 1 >= k - i /\ m - 1 >= right.pos - (k + 1)
    BY <1>1, <1>4
  <2>2. left.tree \in Derivations[m - 1].additive[<<i, k - 1>>]
    BY <2>1 DEF IsAdditive
  <2>3. right.tree \in Derivations[m - 1].multiplicative[<<k + 1, j>>]
    BY <2>1 DEF IsMultiplicative
  <2>4. Derivations[m - 1] \in Charts
    BY <2>1, DerivationsUnfold
  <2> DEFINE D == Derivations[m - 1]
  <2> HIDE DEF k, j
  <2>5. Combined(TokenAt(k), left.tree, right.tree)
            \in Split({"+", "-"}, D.additive, D.multiplicative, i, j)
    <3>1. TokenAt(k) \in {"+", "-"} /\ {"+", "-"} \in SUBSET MathOps
      BY DEF k, MathOps
    <3>2. /\ D.additive \in [Spans -> SUBSET Trees] /\ D.multiplicative \in [Spans -> SUBSET Trees]
      BY <2>4 DEF Charts
    <3> QED BY <1>1, <2>2, <2>3, <3>1, <3>2, SplitTrees
  <2> QED BY <1>1, <2>1, <2>5, DerivationSteps DEF AdditiveTrees
<1> HIDE DEF k
<1>5. right.pos > i
  BY <1>1
<1> QED BY <1>2, <1>3, <1>4, <1>5 DEF IsAdditive

LEMMA SoundAbove ==
    ASSUME Formula, NEW p, Sound(p)
    PROVE  Sound(ParserAbove(p))
<1> DEFINE q == ParserAbove(p)
<1>1. p \in Parsers /\ q \in Parsers
  BY ParserAboveType DEF Sound
<1>2. /\ \A i \in Nat : q.primary[i] = _parse_primary(p, i)
      /\ \A left \in Parses : q.factors[left] = Factors(p, left) /\ q.terms[left] = Terms(p, left)
  BY DEF ParserAbove
<1> HIDE DEF q
<1>3. q.factors[Raised] = Raised /\ q.terms[Raised] = Raised
  <2>1. TokenAt(Raised.pos) = "end"
    BY TokensKnown, RaisedParse
  <2> QED BY <1>2, <2>1, RaisedParse DEF Factors, Terms
<1>4. ASSUME NEW i \in Nat, q.primary[i] # Raised PROVE IsPrimary(i, q.primary[i])
  BY <1>2, <1>4, SoundPrimary
<1>5. ASSUME NEW i \in Nat, NEW left \in Parses, IsMultiplicative(i, left)
      PROVE  q.factors[left] = Raised \/ IsMultiplicative(i, q.factors[left])
  <2>1. CASE TokenAt(left.pos) \notin {"*", "/"}
    BY <1>2, <1>5, <2>1 DEF Factors
  <2>2. CASE TokenAt(left.pos) \in {"*", "/"}
    <3> DEFINE right == p.primary[left.pos + 1]
    <3>1. left.pos + 1 \in Nat /\ right \in Parses
      <4>1. left.pos + 1 \in Nat
        BY ParsesKnown
      <4> QED BY <1>1, <4>1, CallsType
    <3>2. right = Raised \/ IsPrimary(left.pos + 1, right)
      BY <3>1 DEF Sound
    <3>3. q.factors[left] = IF right = Raised THEN Raised ELSE p.factors[Extended(left, right)]
      BY <1>2, <2>2 DEF Factors
    <3> HIDE DEF right
    <3>4. CASE right = Raised
      BY <3>3, <3>4
    <3>5. CASE right # Raised
      <4>1. Extended(left, right) \in Parses
        BY <2>2, <3>1, ExtendedParse DEF MathOps
      <4>2. IsMultiplicative(i, Extended(left, right))
        BY <1>5, <2>2, <3>1, <3>2, <3>5, FactorsExtend
      <4> QED BY <3>3, <3>5, <4>1, <4>2 DEF Sound
    <3> QED BY <3>4, <3>5
  <2> QED BY <2>1, <2>2
<1>6. ASSUME NEW i \in Nat, NEW left \in Parses, IsAdditive(i, left)
      PROVE  q.terms[left] = Raised \/ IsAdditive(i, q.terms[left])
  <2>1. CASE TokenAt(left.pos) \notin {"+", "-"}
    BY <1>2, <1>6, <2>1 DEF Terms
  <2>2. CASE TokenAt(left.pos) \in {"+", "-"}
    <3> DEFINE right == _parse_multiplicative(p, left.pos + 1)
    <3>1. left.pos + 1 \in Nat /\ right \in Parses
      <4>1. left.pos + 1 \in Nat
        BY ParsesKnown
      <4> QED BY <1>1, <4>1, CallsType
    <3>2. right = Raised \/ IsMultiplicative(left.pos + 1, right)
      BY <3>1, SoundCalls
    <3>3. q.terms[left] = IF right = Raised THEN Raised ELSE p.terms[Extended(left, right)]
      BY <1>2, <2>2 DEF Terms
    <3> HIDE DEF right
    <3>4. CASE right = Raised
      BY <3>3, <3>4
    <3>5. CASE right # Raised
      <4>1. Extended(left, right) \in Parses
        BY <2>2, <3>1, ExtendedParse DEF MathOps
      <4>2. IsAdditive(i, Extended(left, right))
        BY <1>6, <2>2, <3>1, <3>2, <3>5, TermsExtend
      <4> QED BY <3>3, <3>5, <4>1, <4>2 DEF Sound
    <3> QED BY <3>4, <3>5
  <2> QED BY <2>1, <2>2
<1>7. Sound(q)
  BY <1>1, <1>3, <1>4, <1>5, <1>6 DEF Sound
<1> QED BY <1>7 DEF q

LEMMA ParserSound ==
    ASSUME Formula
    PROVE  \A n \in Nat : Sound(Parser[n])
<1> DEFINE Good == {n \in Nat : Sound(Parser[n])}
<1>1. 0 \in Good
  <2>1. Parser[0] = ParserAtEnd /\ Parser[0] \in Parsers
    BY ParserUnfolds
  <2>2. /\ \A i \in Nat : Parser[0].primary[i] = Raised
        /\ \A left \in Parses : Parser[0].factors[left] = left /\ Parser[0].terms[left] = left
    BY <2>1 DEF ParserAtEnd
  <2>3. Sound(Parser[0])
    BY <2>1, <2>2, RaisedParse DEF Sound
  <2> QED BY <2>3
<1>2. ASSUME NEW n \in Nat, n \in Good PROVE n + 1 \in Good
  <2>1. n + 1 \in Nat /\ n + 1 > 0 /\ (n + 1) - 1 = n
    OBVIOUS
  <2>2. Parser[n + 1] = ParserAbove(Parser[n])
    BY <2>1, ParserUnfolds
  <2> QED BY <1>2, <2>1, <2>2, SoundAbove
<1> HIDE DEF Good
<1>3. \A n \in Nat : n \in Good
  BY <1>1, <1>2, NatsReached
<1> QED BY <1>3 DEF Good

-----------------------------------------------------------------------------
(* What is derived is parsed.                                                  *)

At(t, j) == [tree |-> t, pos |-> j + 1]

\* The loops end where no operator of theirs follows.
LEMMA LoopsEnd ==
    ASSUME Formula, NEW n \in Nat, NEW left \in Parses
    PROVE  /\ TokenAt(left.pos) \notin {"*", "/"} => Parser[n].factors[left] = left
           /\ TokenAt(left.pos) \notin {"+", "-"} => Parser[n].terms[left] = left
<1>1. CASE n = 0
  BY <1>1, ParserUnfolds DEF ParserAtEnd
<1>2. CASE n > 0
  <2>1. Parser[n] = ParserAbove(Parser[n - 1])
    BY <1>2, ParserUnfolds
  <2> QED BY <2>1 DEF ParserAbove, Factors, Terms
<1> QED BY <1>1, <1>2

\* Where an operator follows, they go on with one token less.
LEMMA LoopsGoOn ==
    ASSUME Formula, NEW n \in Nat, n > 0, NEW left \in Parses, NEW right \in Parses, right # Raised
    PROVE  /\ TokenAt(left.pos) \in {"*", "/"} /\ right = Parser[n - 1].primary[left.pos + 1]
                => Parser[n].factors[left] = Parser[n - 1].factors[Extended(left, right)]
           /\ TokenAt(left.pos) \in {"+", "-"}
                /\ right = _parse_multiplicative(Parser[n - 1], left.pos + 1)
                => Parser[n].terms[left] = Parser[n - 1].terms[Extended(left, right)]
<1>1. Parser[n] = ParserAbove(Parser[n - 1])
  BY ParserUnfolds
<1> QED BY <1>1 DEF ParserAbove, Factors, Terms

\* A derivation of a rule from the tokens from i to j is what the function of
\* that rule parses first; its loop goes on behind it.
PrimaryParsed(t, i, j) ==
    \A n \in Nat : n >= Len(tokens) + 1 - i => Parser[n].primary[i] = At(t, j)

MultiplicativeParsed(t, i, j) ==
    \A n \in Nat : n >= Len(tokens) + 1 - i =>
        \E left \in Nat : /\ left >= Len(tokens) - j
                         /\ _parse_multiplicative(Parser[n], i) = Parser[left].factors[At(t, j)]

AdditiveParsed(t, i, j) ==
    TokenAt(j + 1) \notin {"*", "/"} =>
        \A n \in Nat : n >= Len(tokens) + 1 - i =>
            \E left \in Nat : /\ left >= Len(tokens) - j
                             /\ _parse_additive(Parser[n], i) = Parser[left].terms[At(t, j)]

IsTree(t, i, j) == t \in Trees /\ t # NoTree /\ i <= j

Complete(chart) ==
    \A i \in Nat, j \in Nat :
        /\ \A t \in chart.primary[<<i, j>>] : IsTree(t, i, j) /\ PrimaryParsed(t, i, j)
        /\ \A t \in chart.multiplicative[<<i, j>>] : IsTree(t, i, j) /\ MultiplicativeParsed(t, i, j)
        /\ \A t \in chart.additive[<<i, j>>] : IsTree(t, i, j) /\ AdditiveParsed(t, i, j)

LEMMA AtParse ==
    ASSUME NEW t \in Trees, NEW j \in Nat
    PROVE  /\ At(t, j) \in Parses /\ At(t, j).pos = j + 1 /\ At(t, j).tree = t
           /\ At(t, j) # Raised
  BY RaisedParse DEF At, Parses

LEMMA CompletePrimary ==
    ASSUME Formula, NEW chart \in Charts, Complete(chart), NEW i \in Nat, NEW j \in Nat,
           NEW t \in PrimaryTrees(chart, i, j)
    PROVE  IsTree(t, i, j) /\ PrimaryParsed(t, i, j)
<1>1. ASSUME NEW n \in Nat, n >= Len(tokens) + 1 - i, TokenAt(i) # "end"
      PROVE  n > 0 /\ n - 1 \in Nat /\ Parser[n].primary[i] = _parse_primary(Parser[n - 1], i)
  <2>1. n > 0 /\ n - 1 \in Nat
    BY <1>1, TokensKnown
  <2>2. Parser[n] = ParserAbove(Parser[n - 1])
    BY <2>1, ParserUnfolds
  <2> QED BY <2>1, <2>2 DEF ParserAbove
<1>2. CASE i = j /\ TokenAt(i) \in Operands /\ t = <<TokenAt(i)>>
  <2>1. IsTree(t, i, j)
    BY <1>2 DEF IsTree, Trees, NoTree
  <2>2. TokenAt(i) # "end" /\ TokenAt(i) # "("
    BY <1>2, TokensKnown
  <2>3. ASSUME NEW n \in Nat, n >= Len(tokens) + 1 - i PROVE Parser[n].primary[i] = At(t, j)
    BY <1>1, <1>2, <2>2, <2>3 DEF _parse_primary, At
  <2> QED BY <2>1, <2>3 DEF PrimaryParsed
<1>3. CASE i < j /\ TokenAt(i) = "(" /\ TokenAt(j) = ")" /\ t \in chart.additive[<<i + 1, j - 1>>]
  <2>1. i + 1 \in Nat /\ j - 1 \in Nat
    BY <1>3
  <2>2. IsTree(t, i + 1, j - 1) /\ AdditiveParsed(t, i + 1, j - 1)
    BY <1>3, <2>1 DEF Complete
  <2>3. (j - 1) + 1 = j /\ TokenAt(j) \notin {"*", "/"} /\ TokenAt(j) \notin {"+", "-"}
    BY <1>3
  <2>4. TokenAt(i) # "end" /\ TokenAt(i) \notin Operands
    BY <1>3, TokensKnown
  <2>5. t \in Trees /\ t # NoTree
    BY <2>2 DEF IsTree
  <2>6. ASSUME NEW n \in Nat, n >= Len(tokens) + 1 - i PROVE Parser[n].primary[i] = At(t, j)
    <3>1. n > 0 /\ n - 1 \in Nat /\ Parser[n].primary[i] = _parse_primary(Parser[n - 1], i)
      BY <1>1, <2>4, <2>6
    <3> DEFINE inner == _parse_additive(Parser[n - 1], i + 1)
    <3>2. n - 1 >= Len(tokens) + 1 - (i + 1)
      BY <2>6, TokensKnown
    <3>3. PICK left \in Nat : inner = Parser[left].terms[At(t, j - 1)]
      BY <2>2, <2>3, <3>1, <3>2 DEF AdditiveParsed
    <3>4. _parse_primary(Parser[n - 1], i) =
            IF TokenAt(inner.pos) = ")" THEN [inner EXCEPT !.pos = @ + 1] ELSE Raised
      BY <1>3, <2>4 DEF _parse_primary
    <3> HIDE DEF inner
    <3>5. At(t, j - 1) \in Parses /\ At(t, j - 1).pos = j
      BY <2>1, <2>3, <2>5, AtParse
    <3>6. inner = At(t, j - 1)
      BY <2>3, <3>3, <3>5, LoopsEnd
    <3>7. [inner EXCEPT !.pos = @ + 1] = At(t, j)
      BY <2>1, <3>6 DEF At
    <3> QED BY <1>3, <3>1, <3>4, <3>5, <3>6, <3>7
  <2> QED BY <1>3, <2>5, <2>6 DEF IsTree, PrimaryParsed
<1> QED BY <1>2, <1>3 DEF PrimaryTrees

LEMMA CompleteMultiplicative ==
    ASSUME Formula, NEW chart \in Charts, Complete(chart), NEW i \in Nat, NEW j \in Nat,
           NEW t \in MultiplicativeTrees(chart, i, j)
    PROVE  IsTree(t, i, j) /\ MultiplicativeParsed(t, i, j)
<1>0. Len(tokens) \in Nat
  BY TokensKnown
<1>1. CASE t \in PrimaryTrees(chart, i, j)
  <2>1. IsTree(t, i, j) /\ PrimaryParsed(t, i, j)
    BY <1>1, CompletePrimary
  <2>2. ASSUME NEW n \in Nat, n >= Len(tokens) + 1 - i
        PROVE  /\ n >= Len(tokens) - j
               /\ _parse_multiplicative(Parser[n], i) = Parser[n].factors[At(t, j)]
    <3>1. Parser[n].primary[i] = At(t, j)
      BY <2>1, <2>2 DEF PrimaryParsed
    <3>2. n >= Len(tokens) - j
      BY <1>0, <2>1, <2>2 DEF IsTree
    <3> QED BY <3>1, <3>2 DEF _parse_multiplicative
  <2> QED BY <2>1, <2>2 DEF MultiplicativeParsed
<1>2. CASE t \in Split({"*", "/"}, chart.multiplicative, chart.primary, i, j)
  <2>0. /\ chart.multiplicative \in [Spans -> SUBSET Trees]
        /\ chart.primary \in [Spans -> SUBSET Trees]
        /\ {"*", "/"} \in SUBSET MathOps
    BY DEF Charts, MathOps
  <2>1. PICK k \in i..j : \E l \in chart.multiplicative[<<i, k - 1>>], r \in chart.primary[<<k + 1, j>>] :
            /\ TokenAt(k) \in {"*", "/"} /\ k > 0 /\ k - 1 \in Nat /\ l \in Trees /\ r \in Trees
            /\ t = Combined(TokenAt(k), l, r)
    <3>1. HasParts(t, {"*", "/"}, chart.multiplicative, chart.primary, i, j)
      BY <1>2, <2>0, SplitParts
    <3> QED BY <3>1 DEF HasParts
  <2>2. PICK l \in chart.multiplicative[<<i, k - 1>>], r \in chart.primary[<<k + 1, j>>] :
            /\ TokenAt(k) \in {"*", "/"} /\ k > 0 /\ k - 1 \in Nat /\ l \in Trees /\ r \in Trees
            /\ t = Combined(TokenAt(k), l, r)
    BY <2>1
  <2>3. k \in Nat /\ k + 1 \in Nat /\ k - 1 \in Nat /\ (k - 1) + 1 = k /\ i <= j /\ k <= j
    BY <2>2
  <2>4. IsTree(l, i, k - 1) /\ MultiplicativeParsed(l, i, k - 1)
    BY <2>2, <2>3 DEF Complete
  <2>5. IsTree(r, k + 1, j) /\ PrimaryParsed(r, k + 1, j)
    BY <2>2, <2>3 DEF Complete
  <2>6. t \in Trees /\ t # NoTree
    BY <2>0, <2>2, CombinedTrees
  <2>7. k <= Len(tokens)
    BY <2>2, <2>3, TokensKnown
  <2> DEFINE before == At(l, k - 1)
             behind == At(r, j)
  <2>8. /\ before \in Parses /\ before.pos = k /\ before.tree = l
        /\ behind \in Parses /\ behind.pos = j + 1 /\ behind.tree = r /\ behind # Raised
    BY <2>2, <2>3, AtParse
  <2> HIDE DEF before, behind
  <2>9. Extended(before, behind) = At(t, j)
    BY <2>2, <2>8 DEF Extended, At
  <2>10. ASSUME NEW n \in Nat, n >= Len(tokens) + 1 - i
         PROVE  \E left \in Nat : /\ left >= Len(tokens) - j
                    /\ _parse_multiplicative(Parser[n], i) = Parser[left].factors[At(t, j)]
    <3>1. PICK left \in Nat : /\ left >= Len(tokens) - (k - 1)
                /\ _parse_multiplicative(Parser[n], i) = Parser[left].factors[before]
      BY <2>4, <2>10 DEF MultiplicativeParsed, before
    <3>2. /\ left > 0 /\ left - 1 \in Nat
          /\ left - 1 >= Len(tokens) + 1 - (k + 1) /\ left - 1 >= Len(tokens) - j
      BY <1>0, <2>3, <2>7, <3>1
    <3>3. behind = Parser[left - 1].primary[k + 1]
      BY <2>5, <3>2 DEF PrimaryParsed, behind
    <3>4. Parser[left].factors[before] = Parser[left - 1].factors[Extended(before, behind)]
      BY <2>2, <2>8, <3>2, <3>3, LoopsGoOn
    <3> QED BY <2>9, <3>1, <3>2, <3>4
  <2> QED BY <2>3, <2>6, <2>10 DEF IsTree, MultiplicativeParsed
<1> QED BY <1>1, <1>2 DEF MultiplicativeTrees

LEMMA CompleteAdditive ==
    ASSUME Formula, NEW chart \in Charts, Complete(chart), NEW i \in Nat, NEW j \in Nat,
           NEW t \in AdditiveTrees(chart, i, j)
    PROVE  IsTree(t, i, j) /\ AdditiveParsed(t, i, j)
<1>0. Len(tokens) \in Nat
  BY TokensKnown
<1>1. CASE t \in MultiplicativeTrees(chart, i, j)
  <2>1. IsTree(t, i, j) /\ MultiplicativeParsed(t, i, j)
    BY <1>1, CompleteMultiplicative
  <2>2. At(t, j) \in Parses /\ At(t, j).pos = j + 1
    BY <2>1, AtParse DEF IsTree
  <2>3. ASSUME TokenAt(j + 1) \notin {"*", "/"}, NEW n \in Nat, n >= Len(tokens) + 1 - i
        PROVE  /\ n >= Len(tokens) - j
               /\ _parse_additive(Parser[n], i) = Parser[n].terms[At(t, j)]
    <3>1. PICK left \in Nat : _parse_multiplicative(Parser[n], i) = Parser[left].factors[At(t, j)]
      BY <2>1, <2>3 DEF MultiplicativeParsed
    <3>2. Parser[left].factors[At(t, j)] = At(t, j)
      BY <2>2, <2>3, LoopsEnd
    <3>3. n >= Len(tokens) - j
      BY <1>0, <2>1, <2>3 DEF IsTree
    <3> QED BY <3>1, <3>2, <3>3 DEF _parse_additive
  <2> QED BY <2>1, <2>3 DEF AdditiveParsed
<1>2. CASE t \in Split({"+", "-"}, chart.additive, chart.multiplicative, i, j)
  <2>0. /\ chart.additive \in [Spans -> SUBSET Trees]
        /\ chart.multiplicative \in [Spans -> SUBSET Trees]
        /\ {"+", "-"} \in SUBSET MathOps
    BY DEF Charts, MathOps
  <2>1. PICK k \in i..j : \E l \in chart.additive[<<i, k - 1>>], r \in chart.multiplicative[<<k + 1, j>>] :
            /\ TokenAt(k) \in {"+", "-"} /\ k > 0 /\ k - 1 \in Nat /\ l \in Trees /\ r \in Trees
            /\ t = Combined(TokenAt(k), l, r)
    <3>1. HasParts(t, {"+", "-"}, chart.additive, chart.multiplicative, i, j)
      BY <1>2, <2>0, SplitParts
    <3> QED BY <3>1 DEF HasParts
  <2>2. PICK l \in chart.additive[<<i, k - 1>>], r \in chart.multiplicative[<<k + 1, j>>] :
            /\ TokenAt(k) \in {"+", "-"} /\ k > 0 /\ k - 1 \in Nat /\ l \in Trees /\ r \in Trees
            /\ t = Combined(TokenAt(k), l, r)
    BY <2>1
  <2>3. k \in Nat /\ k + 1 \in Nat /\ k - 1 \in Nat /\ (k - 1) + 1 = k /\ i <= j /\ k <= j
    BY <2>2
  <2>4. IsTree(l, i, k - 1) /\ AdditiveParsed(l, i, k - 1) /\ TokenAt(k) \notin {"*", "/"}
    BY <2>2, <2>3 DEF Complete
  <2>5. IsTree(r, k + 1, j) /\ MultiplicativeParsed(r, k + 1, j)
    BY <2>2, <2>3 DEF Complete
  <2>6. t \in Trees /\ t # NoTree
    BY <2>0, <2>2, CombinedTrees
  <2>7. k <= Len(tokens)
    BY <2>2, <2>3, TokensKnown
  <2> DEFINE before == At(l, k - 1)
             behind == At(r, j)
  <2>8. /\ before \in Parses /\ before.pos = k /\ before.tree = l
        /\ behind \in Parses /\ behind.pos = j + 1 /\ behind.tree = r /\ behind # Raised
    BY <2>2, <2>3, AtParse
  <2> HIDE DEF before, behind
  <2>9. Extended(before, behind) = At(t, j)
    BY <2>2, <2>8 DEF Extended, At
  <2>10. ASSUME TokenAt(j + 1) \notin {"*", "/"}, NEW n \in Nat, n >= Len(tokens) + 1 - i
         PROVE  \E left \in Nat : /\ left >= Len(tokens) - j
                    /\ _parse_additive(Parser[n], i) = Parser[left].terms[At(t, j)]
    <3>1. PICK left \in Nat : /\ left >= Len(tokens) - (k - 1)
                /\ _parse_additive(Parser[n], i) = Parser[left].terms[before]
      BY <2>3, <2>4, <2>10 DEF AdditiveParsed, before
    <3>2. /\ left > 0 /\ left - 1 \in Nat
          /\ left - 1 >= Len(tokens) + 1 - (k + 1) /\ left - 1 >= Len(tokens) - j
      BY <1>0, <2>3, <2>7, <3>1
    <3>3. PICK more \in Nat :
            _parse_multiplicative(Parser[left - 1], k + 1) = Parser[more].factors[behind]
      BY <2>5, <3>2 DEF MultiplicativeParsed, behind
    <3>4. Parser[more].factors[behind] = behind
      BY <2>8, <2>10, LoopsEnd
    <3>5. Parser[left].terms[before] = Parser[left - 1].terms[Extended(before, behind)]
      BY <2>2, <2>8, <3>2, <3>3, <3>4, LoopsGoOn
    <3> QED BY <2>9, <3>1, <3>2, <3>5
  <2> QED BY <2>3, <2>6, <2>10 DEF IsTree, AdditiveParsed
<1> QED BY <1>1, <1>2 DEF AdditiveTrees

LEMMA ParserComplete ==
    ASSUME Formula
    PROVE  \A m \in Nat : Complete(Derivations[m])
<1> DEFINE Good == {m \in Nat : Complete(Derivations[m])}
<1>1. 0 \in Good
  <2>1. Derivations[0] = NoChart
    BY DerivationsUnfold
  <2>2. \A i \in Nat, j \in Nat : <<i, j>> \in Spans
    BY DEF Spans
  <2>3. Complete(NoChart)
    BY <2>2 DEF Complete, NoChart, NoTrees
  <2> QED BY <2>1, <2>3
<1>2. ASSUME NEW m \in Nat, m \in Good PROVE m + 1 \in Good
  <2>1. m + 1 \in Nat /\ m + 1 > 0 /\ (m + 1) - 1 = m
    OBVIOUS
  <2>2. Derivations[m] \in Charts /\ Complete(Derivations[m])
    BY <1>2, DerivationsUnfold
  <2>3. ASSUME NEW i \in Nat, NEW j \in Nat
        PROVE  /\ Derivations[m + 1].primary[<<i, j>>] = PrimaryTrees(Derivations[m], i, j)
               /\ Derivations[m + 1].multiplicative[<<i, j>>] = MultiplicativeTrees(Derivations[m], i, j)
               /\ Derivations[m + 1].additive[<<i, j>>] = AdditiveTrees(Derivations[m], i, j)
    BY <2>1, DerivationSteps
  <2>4. Complete(Derivations[m + 1])
    BY <2>2, <2>3, CompletePrimary, CompleteMultiplicative, CompleteAdditive DEF Complete
  <2> QED BY <2>1, <2>4
<1> HIDE DEF Good
<1>3. \A n \in Nat : n \in Good
  BY <1>1, <1>2, NatsReached
<1> QED BY <1>3 DEF Good

-----------------------------------------------------------------------------
\* _parse_math_expr takes a formula, of whatever length, exactly if the grammar
\* derives it, and reads it as the grammar does; so the grammar derives no
\* formula in two ways.
THEOREM ParserMatchesGrammar == Formula => ParserFollowsGrammar
<1> SUFFICES ASSUME Formula PROVE ParserFollowsGrammar
  OBVIOUS
<1> DEFINE L == Len(tokens)
           parse == _parse_additive(Parser[L], 1)
<1>1. L \in Nat /\ Parser[L] \in Parsers /\ Sound(Parser[L]) /\ Complete(Derivations[L])
  BY TokensKnown, ParserUnfolds, ParserSound, ParserComplete
<1>2. parse \in Parses /\ (parse = Raised \/ IsAdditive(1, parse))
  BY <1>1, CallsType, SoundCalls
<1>3. _parse_math_expr = IF parse.pos = L + 1 THEN parse.tree ELSE NoTree
  BY DEF _parse_math_expr
<1> HIDE DEF L, parse
<1>4. ASSUME _parse_math_expr # NoTree
      PROVE  _parse_math_expr \in Derivations[L].additive[<<1, L>>]
  <2>1. parse.pos = L + 1 /\ _parse_math_expr = parse.tree /\ parse # Raised
    BY <1>1, <1>3, <1>4, RaisedParse
  <2>2. L >= parse.pos - 1 /\ parse.pos - 1 = L
    BY <1>1, <2>1
  <2> QED BY <1>1, <1>2, <2>1, <2>2 DEF IsAdditive
<1>5. ASSUME NEW t \in Derivations[L].additive[<<1, L>>]
      PROVE  t # NoTree /\ t = _parse_math_expr
  <2>1. IsTree(t, 1, L) /\ AdditiveParsed(t, 1, L)
    BY <1>1 DEF Complete
  <2>2. TokenAt(L + 1) = "end"
    BY <1>1, TokensKnown DEF L
  <2>3. L \in Nat /\ L >= Len(tokens) + 1 - 1
    BY <1>1 DEF L
  <2>4. PICK left \in Nat : parse = Parser[left].terms[At(t, L)]
    BY <2>1, <2>2, <2>3 DEF AdditiveParsed, parse
  <2>5. At(t, L) \in Parses /\ At(t, L).pos = L + 1 /\ At(t, L).tree = t
    BY <1>1, <2>1, AtParse DEF IsTree
  <2>6. parse = At(t, L)
    BY <2>2, <2>4, <2>5, LoopsEnd
  <2> QED BY <1>3, <2>1, <2>5, <2>6 DEF IsTree
<1> QED BY <1>4, <1>5 DEF ParserFollowsGrammar, L

THEOREM FormulasParsed == FormulaSpec => []ParserFollowsGrammar
<1>1. FormulaInit => Formula
  BY DEF FormulaInit, Formula
<1>2. Formula /\ [FormulaNext]_tokens => Formula'
  <2>1. ASSUME Formula, NEW t \in UNION {a.symbols : a \in Alphabets}, AddToken(t) PROVE Formula'
    <3>1. t \in Tokens
      BY FormulaAssumption
    <3> QED BY <2>1, <3>1 DEF Formula, AddToken
  <2>2. Formula /\ UNCHANGED tokens => Formula'
    BY DEF Formula
  <2> QED BY <2>1, <2>2 DEF FormulaNext
<1>3. Formula => ParserFollowsGrammar
  BY ParserMatchesGrammar
<1> QED BY <1>1, <1>2, <1>3, PTL DEF FormulaSpec
=============================================================================

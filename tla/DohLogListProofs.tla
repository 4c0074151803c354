---------------------------- MODULE DohLogListProofs ----------------------------
(***************************************************************************)
(* Lemmas about DohLogList and DohXml, for the proofs about the audit and  *)
(* the alert table: what Chain computes, what each step of the list does   *)
(* to the sequence of its cells and to the heap, and what messages are     *)
(* made of.                                                                *)
(***************************************************************************)
EXTENDS DohLogList, DohXml, FiniteSetTheorems, SequenceTheorems,
        WellFoundedInduction, TLAPS

-----------------------------------------------------------------------------
(* Induction over the naturals as statements about sets and functions, for *)
(* the recursive functions that model the loops of the code: what such a   *)
(* function computes is proved from the equations RecursionExists gives    *)
(* it.                                                                     *)

\* A set of naturals that is not empty has a least one.
LEMMA LeastNatural ==
    ASSUME NEW T \in SUBSET Nat, T # {}
    PROVE  \E n \in T : \A m \in T : n <= m
  <1>. DEFINE R == OpToRel(<, Nat)
  <1>1. IsWellFoundedOn(R, Nat)
    BY NatLessThanWellFounded
  <1>2. \A x, y \in Nat : x < y => <<x, y>> \in R
    BY DEF OpToRel
  <1>. HIDE DEF R
  <1>3. \E x \in T : \A y \in T : ~(<<y, x>> \in R)
    BY <1>1, WFMin
  <1>4. PICK n \in T : \A y \in T : ~(<<y, n>> \in R)
    BY <1>3
  <1>5. ASSUME NEW m \in T PROVE n <= m
    <2>1. n \in Nat /\ m \in Nat
      OBVIOUS
    <2>2. ~(m < n)
      BY <1>2, <1>4, <2>1, Zenon
    <2>. QED
      BY <2>1, <2>2
  <1>. QED
    BY <1>4, <1>5

\* A set that has 0, and with a number its successor, has every natural.
LEMMA SetInduction ==
    ASSUME NEW S, 0 \in S, \A n \in Nat : n \in S => n + 1 \in S
    PROVE  Nat \subseteq S
  <1>. SUFFICES ASSUME Nat \ S # {} PROVE FALSE
    OBVIOUS
  <1>1. PICK n \in Nat \ S : \A m \in Nat \ S : n <= m
    BY LeastNatural
  <1>2. n # 0 /\ n - 1 \in Nat /\ n - 1 \in S
    BY <1>1
  <1>. QED
    BY <1>1, <1>2

\* The same up to a bound.
LEMMA BoundedInduction ==
    ASSUME NEW N \in Nat, NEW S, 0 \in S,
           \A n \in 0..(N - 1) : n \in S => n + 1 \in S
    PROVE  0..N \subseteq S
  <1>. DEFINE T == {n \in Nat : n \in 0..N => n \in S}
  <1>1. 0 \in T
    OBVIOUS
  <1>2. \A n \in Nat : n \in T => n + 1 \in T
    OBVIOUS
  <1>. HIDE DEF T
  <1>3. Nat \subseteq T
    BY <1>1, <1>2, SetInduction
  <1>. QED
    BY <1>3 DEF T

\* f starts with v at 0 and goes on to N by step, in V.
Recursion(f, V, v, N, step) ==
    /\ f \in [0..N -> V]
    /\ f[0] = v
    /\ \A k \in 1..N : f[k] = step[<<f[k - 1], k>>]

\* A first value and a step define a function on an interval from 0.
LEMMA RecursionExists ==
    ASSUME NEW V, NEW v, NEW N, NEW step,
           v \in V, N \in Nat, step \in [V \X (1..N) -> V]
    PROVE  \E f : Recursion(f, V, v, N, step)
  <1>. DEFINE Upto(n, f) == f[0] = v /\ \A k \in 1..n : f[k] = step[<<f[k - 1], k>>]
              S == {n \in 0..N : \E f \in [0..N -> V] : Upto(n, f)}
  <1>1. 0 \in S
    <2>1. PICK g : g = [k \in 0..N |-> v]
      OBVIOUS
    <2>2. g \in [0..N -> V] /\ Upto(0, g)
      BY <2>1
    <2>. QED
      BY <2>2
  <1>2. ASSUME NEW n \in 0..(N - 1), n \in S PROVE n + 1 \in S
    <2>1. PICK f \in [0..N -> V] : Upto(n, f)
      BY <1>2
    <2>2. PICK u : u = step[<<f[n], n + 1>>]
      OBVIOUS
    <2>3. u \in V
      <3>1. f[n] \in V /\ n + 1 \in 1..N
        OBVIOUS
      <3>. QED
        BY <2>2, <3>1
    <2>. DEFINE g == [k \in 0..N |-> IF k = n + 1 THEN u ELSE f[k]]
    <2>4. g \in [0..N -> V]
      BY <2>3
    <2>5. Upto(n + 1, g)
      <3>1. g[0] = v
        BY <2>1
      <3>2. ASSUME NEW k \in 1..(n + 1) PROVE g[k] = step[<<g[k - 1], k>>]
        <4>1. k \in 0..N /\ k - 1 \in 0..N /\ g[k - 1] = f[k - 1]
          OBVIOUS
        <4>2. CASE k = n + 1
          <5>1. k - 1 = n /\ g[k] = u
            BY <4>1, <4>2
          <5>. QED
            BY <2>2, <4>1, <4>2, <5>1
        <4>3. CASE k # n + 1
          <5>1. k \in 1..n /\ g[k] = f[k]
            BY <4>1, <4>3
          <5>2. f[k] = step[<<f[k - 1], k>>]
            BY <2>1, <5>1
          <5>. QED
            BY <4>1, <5>1, <5>2
        <4>. QED
          BY <4>2, <4>3
      <3>. QED
        BY <3>1, <3>2
    <2>. HIDE DEF g
    <2>. QED
      BY <2>4, <2>5
  <1>. HIDE DEF S
  <1>3. N \in S
    BY <1>1, <1>2, BoundedInduction
  <1>. QED
    BY <1>3 DEF S, Recursion

Pointers == Cells \cup {NULL}

\* Chain, of the links nx.
ChainOf(nx) ==
    LET chain[n \in 0..MaxCells] ==
            [c \in Cells \cup {NULL} |->
                IF n = 0 \/ c = NULL THEN <<>> ELSE <<c>> \o chain[n - 1][nx[c]]]
    IN  chain

\* cs are the cells of the list that starts at t, by the links nx: each once.
IsList(cs, nx, t) ==
    /\ cs \in Seq(Cells)
    /\ \A i, j \in DOMAIN cs : cs[i] = cs[j] => i = j
    /\ t = IF cs = <<>> THEN NULL ELSE cs[1]
    /\ \A i \in DOMAIN cs : nx[cs[i]] = IF i = Len(cs) THEN NULL ELSE cs[i + 1]

CellsOf(cs) == {cs[k] : k \in DOMAIN cs}

-----------------------------------------------------------------------------
(* What Chain computes.                                                    *)

\* The recursive function in ChainOf satisfies its equations.
LEMMA ChainEquations ==
    ASSUME NEW nx \in [Cells -> Pointers]
    PROVE  \A n \in 0..MaxCells, c \in Pointers :
              ChainOf(nx)[n][c] = IF n = 0 \/ c = NULL THEN <<>>
                                  ELSE <<c>> \o ChainOf(nx)[n - 1][nx[c]]
  <1>. DEFINE N == MaxCells
              V == [Pointers -> Seq(Cells)]
              One(h, c) == IF c = NULL THEN <<>> ELSE <<c>> \o h[nx[c]]
              step == [x \in V \X (1..N) |-> [c \in Pointers |-> One(x[1], c)]]
              v == [c \in Pointers |-> <<>>]
              Row(F, n) == [c \in Pointers |-> IF n = 0 \/ c = NULL THEN <<>>
                                               ELSE <<c>> \o F[n - 1][nx[c]]]
              g == CHOOSE F : F = [n \in 0..N |-> Row(F, n)]
  <1>1. N \in Nat /\ v \in V
    BY CellAssumption
  <1>2. ASSUME NEW h \in V PROVE [c \in Pointers |-> One(h, c)] \in V
    <2>1. ASSUME NEW c \in Pointers PROVE One(h, c) \in Seq(Cells)
      <3>1. CASE c = NULL
        BY <3>1
      <3>2. CASE c # NULL
        <4>1. c \in Cells /\ nx[c] \in Pointers
          BY <3>2 DEF Pointers
        <4>2. h[nx[c]] \in Seq(Cells) /\ <<c>> \in Seq(Cells)
          BY <4>1
        <4>. QED
          BY <3>2, <4>2
      <3>. QED
        BY <3>1, <3>2
    <2>. HIDE DEF One
    <2>. QED
      BY <2>1
  <1>3. step \in [V \X (1..N) -> V]
    <2>. HIDE DEF V, One
    <2>. QED
      BY <1>2
  <1>4. \A h \in V, k \in 1..N : step[<<h, k>>] = [c \in Pointers |-> One(h, c)]
    <2>. HIDE DEF V, One
    <2>. QED
      OBVIOUS
  <1>5. PICK f : /\ f \in [0..N -> V]
                 /\ f[0] = v
                 /\ \A k \in 1..N : f[k] = step[<<f[k - 1], k>>]
    <2>1. \E f : Recursion(f, V, v, N, step)
      <3>. HIDE DEF V, N, v, step
      <3>. QED
        BY <1>1, <1>3, RecursionExists
    <2>. HIDE DEF V, v, step
    <2>. QED
      BY <2>1 DEF Recursion
  <1>6. f = [n \in 0..N |-> Row(f, n)]
    <2>1. ASSUME NEW n \in 0..N PROVE f[n] = Row(f, n)
      <3>1. CASE n = 0
        <4>1. f[n] = [c \in Pointers |-> <<>>]
          BY <1>5, <3>1
        <4>2. Row(f, n) = [c \in Pointers |-> <<>>]
          BY <3>1
        <4>. QED
          BY <4>1, <4>2
      <3>2. CASE n # 0
        <4>1. n \in 1..N /\ f[n - 1] \in V
          BY <1>1, <1>5, <3>2
        <4>2. f[n] = [c \in Pointers |-> One(f[n - 1], c)]
          <5>. HIDE DEF V, One, step
          <5>. QED
            BY <1>4, <1>5, <4>1
        <4>3. Row(f, n) = [c \in Pointers |-> One(f[n - 1], c)]
          BY <3>2
        <4>. QED
          BY <4>2, <4>3
      <3>. QED
        BY <3>1, <3>2
    <2>. HIDE DEF Row, V
    <2>. QED
      BY <1>5, <2>1
  <1>7. g = [n \in 0..N |-> Row(g, n)]
    <2>. HIDE DEF Row
    <2>. QED
      BY <1>6
  <1>8. ChainOf(nx) = g
    BY DEF ChainOf, Pointers
  <1>. HIDE DEF g
  <1>9. ASSUME NEW n \in 0..N, NEW c \in Pointers
        PROVE  g[n][c] = IF n = 0 \/ c = NULL THEN <<>> ELSE <<c>> \o g[n - 1][nx[c]]
    <2>1. g[n] = Row(g, n)
      <3>. HIDE DEF Row
      <3>. QED
        BY <1>7
    <2>. QED
      BY <2>1
  <1>. QED
    BY <1>8, <1>9

\* A list has as many cells as there are at most.
LEMMA ListIsShort ==
    ASSUME NEW cs, NEW nx, NEW t, IsList(cs, nx, t)
    PROVE  /\ Len(cs) \in 0..MaxCells
           /\ Cardinality(CellsOf(cs)) = Len(cs)
           /\ CellsOf(cs) \subseteq Cells
  <1>1. PICK l \in Nat : l = Len(cs)
    BY DEF IsList
  <1>2. cs \in [1..l -> Cells] /\ DOMAIN cs = 1..l
    BY <1>1 DEF IsList
  <1>3. cs \in Injection(1..l, Cells)
    BY <1>2 DEF IsList, Injection, IsInjective
  <1>4. IsFiniteSet(Cells) /\ Cardinality(Cells) = MaxCells
    BY CellAssumption, FS_Interval DEF Cells
  <1>5. IsFiniteSet(1..l) /\ Cardinality(1..l) = l
    <2>1. IsFiniteSet(1..l) /\ Cardinality(1..l) = IF 1 > l THEN 0 ELSE l - 1 + 1
      BY FS_Interval
    <2>. QED
      BY <1>1, <2>1
  <1>6. l <= MaxCells
    BY <1>3, <1>4, <1>5, FS_Injection
  <1>7. CellsOf(cs) \subseteq Cells
    BY <1>2 DEF CellsOf
  <1>8. cs \in Bijection(1..l, CellsOf(cs))
    BY <1>2, <1>3 DEF CellsOf, Bijection, Injection, Surjection, IsInjective
  <1>9. Cardinality(CellsOf(cs)) = l
    BY <1>5, <1>8, FS_Bijection DEF ExistsBijection
  <1>. QED
    BY <1>1, <1>6, <1>7, <1>9, CellAssumption

\* Chain lists the cells of a list.
LEMMA ChainIs ==
    ASSUME NEW nx \in [Cells -> Pointers], NEW cs, NEW t, IsList(cs, nx, t)
    PROVE  ChainOf(nx)[MaxCells][t] = cs
  <1>1. PICK l \in 0..MaxCells : l = Len(cs)
    BY ListIsShort
  <1>2. cs \in Seq(Cells) /\ DOMAIN cs = 1..l /\ l \in Nat /\ MaxCells \in Nat
    BY <1>1, CellAssumption DEF IsList
  <1>. DEFINE C(n, c) == ChainOf(nx)[n][c]
              At(k) == IF k = l + 1 THEN NULL ELSE cs[k]
              S == {d \in 0..l : \A n \in d..MaxCells :
                       C(n, At((l + 1) - d)) = SubSeq(cs, (l + 1) - d, l)}
  <1>3. \A n \in 0..MaxCells, c \in Pointers :
           C(n, c) = IF n = 0 \/ c = NULL THEN <<>> ELSE <<c>> \o C(n - 1, nx[c])
    BY ChainEquations
  <1>4. \A k \in 1..(l + 1) : At(k) \in Pointers
    BY <1>2 DEF Pointers
  <1>5. \A k \in 1..l : At(k) = cs[k] /\ cs[k] \in Cells /\ cs[k] # NULL /\ nx[cs[k]] = At(k + 1)
    <2>. TAKE k \in 1..l
    <2>1. cs[k] \in Cells
      BY <1>2
    <2>2. nx[cs[k]] = IF k = l THEN NULL ELSE cs[k + 1]
      BY <1>1, <1>2 DEF IsList
    <2>. QED
      BY <1>2, <2>1, <2>2 DEF Cells, NULL
  <1>. HIDE DEF C
  <1>6. 0 \in S
    <2>1. SubSeq(cs, l + 1, l) = <<>>
      BY <1>2, SubSeqEmpty
    <2>2. ASSUME NEW n \in 0..MaxCells PROVE C(n, NULL) = <<>>
      BY <1>3, <2>2 DEF Pointers
    <2>3. At(l + 1) = NULL /\ (l + 1) - 0 = l + 1 /\ 0 \in 0..l
      BY <1>2
    <2>. HIDE DEF At
    <2>. QED
      BY <2>1, <2>2, <2>3
  <1>7. ASSUME NEW d \in 0..(l - 1), d \in S PROVE d + 1 \in S
    <2>1. PICK k \in 1..l : k = l - d
      BY <1>2
    <2>2. /\ (l + 1) - (d + 1) = k /\ (l + 1) - d = k + 1 /\ d + 1 \in 0..l
      BY <1>2, <2>1
    <2>3. ASSUME NEW n \in (d + 1)..MaxCells PROVE C(n, At(k)) = SubSeq(cs, k, l)
      <3>1. n \in 0..MaxCells /\ n # 0 /\ n - 1 \in d..MaxCells
        BY <1>2, <2>3
      <3>2. C(n, cs[k]) = <<cs[k]>> \o C(n - 1, At(k + 1))
        <4>1. cs[k] \in Pointers
          BY <1>5 DEF Pointers
        <4>. HIDE DEF At
        <4>. QED
          BY <1>3, <1>5, <3>1, <4>1
      <3>3. C(n - 1, At(k + 1)) = SubSeq(cs, k + 1, l)
        <4>. HIDE DEF At
        <4>. QED
          BY <1>7, <2>2, <3>1
      <3>4. SubSeq(cs, k, l) = <<cs[k]>> \o SubSeq(cs, k + 1, l)
        BY <1>1, <1>2, SubSeqRecursiveFirst
      <3>5. At(k) = cs[k]
        BY <1>5
      <3>. HIDE DEF At
      <3>. QED
        BY <3>2, <3>3, <3>4, <3>5
    <2>. HIDE DEF At
    <2>. QED
      BY <2>2, <2>3
  <1>8. l \in S
    <2>1. 0..l \subseteq S
      <3>. HIDE DEF S
      <3>. QED
        BY <1>2, <1>6, <1>7, BoundedInduction
    <2>. QED
      BY <1>2, <2>1
  <1>9. C(MaxCells, At(1)) = SubSeq(cs, 1, l)
    <2>1. (l + 1) - l = 1 /\ MaxCells \in l..MaxCells
      BY <1>1, <1>2
    <2>. HIDE DEF At
    <2>. QED
      BY <1>8, <2>1
  <1>10. At(1) = t
    <2>1. cs = <<>> <=> l = 0
      BY <1>1, <1>2
    <2>. QED
      BY <1>2, <2>1 DEF IsList
  <1>11. SubSeq(cs, 1, l) = cs
    BY <1>1, <1>2, SubSeqFull
  <1>. QED
    BY <1>9, <1>10, <1>11 DEF C

-----------------------------------------------------------------------------
(* The cells of a list after a step.                                       *)

\* The records in the cells cs.
RecordsOf(cs, rc) == [k \in DOMAIN cs |-> rc[cs[k]]]

\* s with x after its first n.
Inserted(s, n, x) == SubSeq(s, 1, n) \o <<x>> \o SubSeq(s, n + 1, Len(s))

\* r is s with x after its first n, place by place, in Seq(S).
IsInserted(r, S, s, n, x) ==
    /\ r \in Seq(S)
    /\ Len(r) = Len(s) + 1
    /\ \A i \in 1..(Len(s) + 1) : r[i] = IF i <= n THEN s[i]
                                        ELSE IF i = n + 1 THEN x ELSE s[i - 1]

\* The walk through cs looks at the k-th cell: l is that cell, p the one before
\* it, and e goes after all before it.
Place(cs, k, l, p, rc, e) ==
    /\ k \in 1..(Len(cs) + 1)
    /\ l = IF k = Len(cs) + 1 THEN NULL ELSE cs[k]
    /\ p = IF k = 1 THEN NULL ELSE cs[k - 1]
    /\ \A m \in 1..(k - 1) : Key(rc[cs[m]]) <= Key(rc[e])

\* What Listing and Listed are, of a list whose cells are known, ...
LEMMA ListingIs ==
    ASSUME ListTypeOK, NEW cs, IsList(cs, next, table)
    PROVE  Listing = cs /\ ListedCells = CellsOf(cs) /\ Listed = RecordsOf(cs, rec)
  <1>1. Listing = ChainOf(next)[MaxCells][table]
    BY DEF Listing, Chain, ChainOf
  <1>2. next \in [Cells -> Pointers]
    BY DEF ListTypeOK, Pointers
  <1>3. Listing = cs
    BY <1>1, <1>2, ChainIs
  <1>. QED
    BY <1>3 DEF ListedCells, Listed, CellsOf, RecordsOf

\* ... before a step and after it.
LEMMA ListingIsNext ==
    ASSUME ListTypeOK', NEW cs, IsList(cs, next', table')
    PROVE  Listing' = cs /\ ListedCells' = CellsOf(cs) /\ Listed' = RecordsOf(cs, rec')
  <1>1. Listing' = ChainOf(next')[MaxCells][table']
    BY DEF Listing, Chain, ChainOf
  <1>2. next' \in [Cells -> Pointers]
    BY DEF ListTypeOK, Pointers
  <1>3. Listing' = cs
    BY <1>1, <1>2, ChainIs
  <1>. QED
    BY <1>3 DEF ListedCells, Listed, CellsOf, RecordsOf

\* A list whose cells are known is sound, if they are allocated.
LEMMA SoundList ==
    ASSUME ListTypeOK, NEW cs, IsList(cs, next, table), CellsOf(cs) \subseteq used,
           pc = "link" => entry \in used \ CellsOf(cs)
    PROVE  ListIsSound
  <1>1. Listing = cs /\ ListedCells = CellsOf(cs)
    BY ListingIs
  <1>2. Cardinality(CellsOf(cs)) = Len(cs)
    BY ListIsShort
  <1>3. cs # <<>> => next[cs[Len(cs)]] = NULL
    <2>. SUFFICES ASSUME cs # <<>> PROVE next[cs[Len(cs)]] = NULL
      OBVIOUS
    <2>1. cs \in Seq(Cells)
      BY DEF IsList
    <2>2. Len(cs) \in DOMAIN cs
      BY <2>1
    <2>. QED
      BY <2>2 DEF IsList
  <1>. QED
    BY <1>1, <1>2, <1>3 DEF ListIsSound

\* What the records of an empty list and of a changed heap are.
LEMMA EmptyList == ASSUME NEW nx PROVE IsList(<<>>, nx, NULL) /\ CellsOf(<<>>) = {}
  BY DEF IsList, CellsOf

\* A list is empty when its first pointer is NULL.
LEMMA EmptyIsNull ==
    ASSUME NEW cs, NEW nx, NEW t, IsList(cs, nx, t)
    PROVE  cs = <<>> <=> t = NULL
  <1>1. cs \in Seq(Cells)
    BY DEF IsList
  <1>2. cs # <<>> => cs[1] \in Cells
    BY <1>1
  <1>. QED
    BY <1>2 DEF IsList, Cells, NULL

\* A cell that is not on the list may change.
LEMMA OtherCells ==
    ASSUME NEW cs, NEW nx, NEW ny, NEW t, IsList(cs, nx, t),
           \A c \in CellsOf(cs) : ny[c] = nx[c]
    PROVE  IsList(cs, ny, t)
  <1>1. ASSUME NEW i \in DOMAIN cs PROVE ny[cs[i]] = nx[cs[i]]
    BY <1>1 DEF CellsOf
  <1>. QED
    BY <1>1 DEF IsList

\* Without its first cell a list is what that cell leads to.
LEMMA TailIsList ==
    ASSUME NEW cs, NEW nx, NEW t, IsList(cs, nx, t), t # NULL
    PROVE  /\ cs # <<>>
           /\ IsList(Tail(cs), nx, nx[t])
           /\ CellsOf(Tail(cs)) = CellsOf(cs) \ {t}
           /\ t \in CellsOf(cs)
  <1>1. cs \in Seq(Cells) /\ cs # <<>> /\ t = cs[1]
    BY DEF IsList
  <1>2. PICK l \in Nat \ {0} : l = Len(cs)
    BY <1>1
  <1>3. PICK d : d = Tail(cs)
    OBVIOUS
  <1>4. /\ d \in Seq(Cells) /\ Len(d) = l - 1
        /\ DOMAIN cs = 1..l /\ DOMAIN d = 1..(l - 1)
        /\ \A k \in 1..(l - 1) : d[k] = cs[k + 1]
    BY <1>1, <1>2, <1>3
  <1>5. \A i, j \in 1..l : cs[i] = cs[j] => i = j
    BY <1>4 DEF IsList
  <1>6. \A i, j \in 1..(l - 1) : d[i] = d[j] => i = j
    BY <1>4, <1>5
  <1>7. \A i \in 1..l : nx[cs[i]] = IF i = l THEN NULL ELSE cs[i + 1]
    BY <1>2, <1>4 DEF IsList
  <1>8. \A i \in 1..(l - 1) : nx[d[i]] = IF i = l - 1 THEN NULL ELSE d[i + 1]
    BY <1>4, <1>7
  <1>9. nx[t] = IF d = <<>> THEN NULL ELSE d[1]
    <2>1. nx[t] = IF 1 = l THEN NULL ELSE cs[2]
      BY <1>1, <1>7
    <2>2. CASE l = 1
      <3>1. d = <<>>
        BY <1>4, <2>2
      <3>. QED
        BY <2>1, <2>2, <3>1
    <2>3. CASE l # 1
      <3>1. 1 \in 1..(l - 1) /\ d[1] = cs[2] /\ d # <<>>
        BY <1>4, <2>3
      <3>. QED
        BY <2>1, <2>3, <3>1
    <2>. QED
      BY <2>2, <2>3
  <1>10. CellsOf(d) = CellsOf(cs) \ {t}
    <2>1. ASSUME NEW k \in 1..(l - 1) PROVE d[k] \in CellsOf(cs) \ {t}
      <3>1. k + 1 \in 1..l /\ k + 1 # 1 /\ d[k] = cs[k + 1]
        BY <1>4
      <3>2. 1 \in 1..l
        BY <1>2
      <3>3. cs[k + 1] # cs[1]
        BY <1>5, <3>1, <3>2
      <3>4. cs[k + 1] \in CellsOf(cs)
        BY <1>4, <3>1 DEF CellsOf
      <3>. QED
        BY <1>1, <3>1, <3>3, <3>4
    <2>2. ASSUME NEW k \in 1..l, cs[k] # t PROVE cs[k] \in CellsOf(d)
      <3>1. k - 1 \in 1..(l - 1) /\ d[k - 1] = cs[k]
        BY <1>1, <1>4, <2>2
      <3>. QED
        BY <1>4, <3>1 DEF CellsOf
    <2>. QED
      BY <1>4, <2>1, <2>2 DEF CellsOf
  <1>11. t \in CellsOf(cs)
    BY <1>1, <1>2, <1>4 DEF CellsOf
  <1>. QED
    BY <1>1, <1>3, <1>4, <1>6, <1>8, <1>9, <1>10, <1>11 DEF IsList

\* A sequence with an element inserted, place by place.
LEMMA InsertedPlaces ==
    ASSUME NEW S, NEW s, NEW n, NEW x, s \in Seq(S), n \in 0..Len(s), x \in S
    PROVE  IsInserted(Inserted(s, n, x), S, s, n, x)
  <1>1. PICK l \in Nat : l = Len(s)
    OBVIOUS
  <1>2. PICK a : a = SubSeq(s, 1, n)
    OBVIOUS
  <1>3. PICK b : b = SubSeq(s, n + 1, l)
    OBVIOUS
  <1>4. n \in 0..l /\ DOMAIN s = 1..l /\ \A i \in 1..l : s[i] \in S
    BY <1>1
  <1>5. /\ a \in Seq(S) /\ Len(a) = n
        /\ \A i \in 1..n : a[i] = s[i]
    <2>1. \A i \in 1..n : s[i] \in S
      BY <1>4
    <2>2. /\ a \in Seq(S) /\ Len(a) = IF 1 <= n THEN n - 1 + 1 ELSE 0
          /\ \A i \in 1..(n - 1 + 1) : a[i] = s[1 + i - 1]
      BY <1>2, <1>4, <2>1, SubSeqProperties
    <2>. QED
      BY <1>4, <2>2
  <1>6. /\ b \in Seq(S) /\ Len(b) = l - n
        /\ \A i \in 1..(l - n) : b[i] = s[n + i]
    <2>1. \A i \in (n + 1)..l : s[i] \in S
      BY <1>4
    <2>2. /\ b \in Seq(S) /\ Len(b) = IF n + 1 <= l THEN l - (n + 1) + 1 ELSE 0
          /\ \A i \in 1..(l - (n + 1) + 1) : b[i] = s[(n + 1) + i - 1]
      BY <1>3, <1>4, <2>1, SubSeqProperties
    <2>. QED
      BY <1>4, <2>2
  <1>7. PICK c : c = a \o <<x>>
    OBVIOUS
  <1>8. /\ c \in Seq(S) /\ Len(c) = n + 1
        /\ \A i \in 1..(n + 1) : c[i] = IF i <= n THEN s[i] ELSE x
    <2>1. <<x>> \in Seq(S) /\ Len(<<x>>) = 1 /\ <<x>>[1] = x
      OBVIOUS
    <2>2. /\ c \in Seq(S) /\ Len(c) = Len(a) + Len(<<x>>)
          /\ \A i \in 1..(Len(a) + Len(<<x>>)) :
                c[i] = IF i <= Len(a) THEN a[i] ELSE <<x>>[i - Len(a)]
      BY <1>5, <1>7, <2>1, ConcatProperties
    <2>3. Len(c) = n + 1
      BY <1>5, <2>1, <2>2
    <2>4. ASSUME NEW i \in 1..(n + 1) PROVE c[i] = IF i <= n THEN s[i] ELSE x
      <3>1. c[i] = IF i <= n THEN a[i] ELSE <<x>>[i - n]
        BY <1>5, <2>1, <2>2
      <3>2. CASE i <= n
        BY <1>4, <1>5, <3>1, <3>2
      <3>3. CASE ~(i <= n)
        <4>1. i - n = 1
          BY <1>4, <3>3
        <4>. QED
          BY <2>1, <3>1, <3>3, <4>1
      <3>. QED
        BY <3>2, <3>3
    <2>. QED
      BY <2>2, <2>3, <2>4
  <1>9. PICK r : r = c \o b
    OBVIOUS
  <1>10. /\ r \in Seq(S) /\ Len(r) = l + 1
         /\ \A i \in 1..(l + 1) : r[i] = IF i <= n THEN s[i]
                                        ELSE IF i = n + 1 THEN x ELSE s[i - 1]
    <2>1. /\ r \in Seq(S) /\ Len(r) = Len(c) + Len(b)
          /\ \A i \in 1..(Len(c) + Len(b)) :
                r[i] = IF i <= Len(c) THEN c[i] ELSE b[i - Len(c)]
      BY <1>6, <1>8, <1>9, ConcatProperties
    <2>2. Len(c) + Len(b) = l + 1
      BY <1>1, <1>4, <1>6, <1>8
    <2>3. ASSUME NEW i \in 1..(l + 1)
          PROVE  r[i] = IF i <= n THEN s[i] ELSE IF i = n + 1 THEN x ELSE s[i - 1]
      <3>1. r[i] = IF i <= n + 1 THEN c[i] ELSE b[i - (n + 1)]
        BY <1>8, <2>1, <2>2
      <3>2. CASE i <= n + 1
        <4>1. i \in 1..(n + 1)
          BY <1>4, <3>2
        <4>2. c[i] = IF i <= n THEN s[i] ELSE x
          BY <1>8, <4>1
        <4>3. ~(i <= n) => i = n + 1
          BY <1>4, <3>2
        <4>. QED
          BY <3>1, <3>2, <4>2, <4>3
      <3>3. CASE ~(i <= n + 1)
        <4>1. i - (n + 1) \in 1..(l - n) /\ n + (i - (n + 1)) = i - 1
          BY <1>1, <1>4, <3>3
        <4>2. b[i - (n + 1)] = s[i - 1]
          BY <1>6, <4>1
        <4>3. ~(i <= n) /\ i # n + 1
          BY <1>4, <3>3
        <4>. QED
          BY <3>1, <3>3, <4>2, <4>3
      <3>. QED
        BY <3>2, <3>3
    <2>. QED
      BY <2>1, <2>2, <2>3
  <1>11. r = Inserted(s, n, x)
    BY <1>1, <1>2, <1>3, <1>7, <1>9 DEF Inserted
  <1>. QED
    BY <1>1, <1>10, <1>11 DEF IsInserted

\* A cell linked in before the k-th, or at the end, is on the list at that place.
LEMMA InsertedList ==
    ASSUME NEW cs, NEW nx, NEW ny, NEW t, IsList(cs, nx, t),
           NEW e \in Cells, e \notin CellsOf(cs), NEW k \in 1..(Len(cs) + 1),
           ny[e] = IF k = Len(cs) + 1 THEN NULL ELSE cs[k],
           k # 1 => ny[cs[k - 1]] = e,
           \A i \in DOMAIN cs : i # k - 1 => ny[cs[i]] = nx[cs[i]]
    PROVE  /\ IsList(Inserted(cs, k - 1, e), ny, IF k = 1 THEN e ELSE t)
           /\ CellsOf(Inserted(cs, k - 1, e)) = CellsOf(cs) \cup {e}
  <1>1. cs \in Seq(Cells)
    BY DEF IsList
  <1>2. PICK l \in Nat : l = Len(cs)
    BY <1>1
  <1>3. PICK n : n = k - 1
    OBVIOUS
  <1>4. PICK d : d = Inserted(cs, n, e)
    OBVIOUS
  <1>5. k = n + 1 /\ n \in 0..l /\ DOMAIN cs = 1..l /\ k \in 1..(l + 1)
    BY <1>1, <1>2, <1>3
  <1>6. /\ d \in Seq(Cells) /\ Len(d) = l + 1 /\ DOMAIN d = 1..(l + 1)
        /\ \A i \in 1..(l + 1) : d[i] = IF i <= n THEN cs[i]
                                        ELSE IF i = n + 1 THEN e ELSE cs[i - 1]
    <2>1. n \in 0..Len(cs)
      BY <1>2, <1>5
    <2>2. /\ d \in Seq(Cells) /\ Len(d) = Len(cs) + 1
          /\ \A i \in 1..(Len(cs) + 1) : d[i] = IF i <= n THEN cs[i]
                                               ELSE IF i = n + 1 THEN e ELSE cs[i - 1]
      <3>1. IsInserted(d, Cells, cs, n, e)
        BY <1>1, <1>4, <2>1, InsertedPlaces
      <3>. QED
        BY <3>1 DEF IsInserted
    <2>. QED
      BY <1>2, <2>2
  <1>7. /\ \A i \in 1..n : d[i] = cs[i] /\ i \in 1..l
        /\ d[n + 1] = e
        /\ \A i \in (n + 2)..(l + 1) : d[i] = cs[i - 1] /\ i - 1 \in 1..l
    <2>1. ASSUME NEW i \in 1..n PROVE d[i] = cs[i] /\ i \in 1..l
      <3>1. i \in 1..l /\ i \in 1..(l + 1) /\ i <= n
        BY <1>5
      <3>. QED
        BY <1>6, <3>1
    <2>2. d[n + 1] = e
      <3>1. n + 1 \in 1..(l + 1) /\ ~(n + 1 <= n)
        BY <1>5
      <3>. QED
        BY <1>6, <3>1
    <2>3. ASSUME NEW i \in (n + 2)..(l + 1) PROVE d[i] = cs[i - 1] /\ i - 1 \in 1..l
      <3>1. i - 1 \in 1..l /\ i \in 1..(l + 1) /\ ~(i <= n) /\ i # n + 1
        BY <1>5
      <3>. QED
        BY <1>6, <3>1
    <2>. QED
      BY <2>1, <2>2, <2>3
  <1>8. ASSUME NEW i \in 1..(l + 1), ~(i \in 1..n), i # n + 1
        PROVE  i \in (n + 2)..(l + 1)
    BY <1>5, <1>8
  <1>9. \A i, j \in 1..l : cs[i] = cs[j] => i = j
    BY <1>5 DEF IsList
  <1>10. \A i \in 1..l : cs[i] # e /\ cs[i] \in Cells
    BY <1>1, <1>5 DEF CellsOf
  <1>11. ASSUME NEW i \in 1..(l + 1), NEW j \in 1..(l + 1), d[i] = d[j], i < j
         PROVE  FALSE
    <2>1. CASE i \in 1..n /\ j \in 1..n
      BY <1>7, <1>9, <1>11, <2>1
    <2>2. CASE i = n + 1
      <3>1. j \in (n + 2)..(l + 1)
        BY <1>5, <1>11, <2>2
      <3>. QED
        BY <1>7, <1>10, <1>11, <2>2, <3>1
    <2>3. CASE j = n + 1
      <3>1. i \in 1..n
        BY <1>5, <1>11, <2>3
      <3>. QED
        BY <1>7, <1>10, <1>11, <2>3, <3>1
    <2>4. CASE i \in 1..n /\ j \in (n + 2)..(l + 1)
      <3>1. d[i] = cs[i] /\ d[j] = cs[j - 1] /\ i \in 1..l /\ j - 1 \in 1..l
        BY <1>7, <2>4
      <3>2. i = j - 1
        BY <1>9, <1>11, <3>1
      <3>. QED
        BY <1>5, <2>4, <3>2
    <2>5. CASE i \in (n + 2)..(l + 1) /\ j \in (n + 2)..(l + 1)
      <3>1. d[i] = cs[i - 1] /\ d[j] = cs[j - 1] /\ i - 1 \in 1..l /\ j - 1 \in 1..l
        BY <1>7, <2>5
      <3>2. i - 1 = j - 1
        BY <1>9, <1>11, <3>1
      <3>. QED
        BY <1>11, <3>2
    <2>. QED
      BY <1>5, <1>8, <1>11, <2>1, <2>2, <2>3, <2>4, <2>5
  <1>12. \A i, j \in DOMAIN d : d[i] = d[j] => i = j
    <2>. SUFFICES ASSUME NEW i \in 1..(l + 1), NEW j \in 1..(l + 1), d[i] = d[j]
                  PROVE  i = j
      BY <1>6
    <2>1. ~(i < j) /\ ~(j < i)
      BY <1>11
    <2>. QED
      BY <2>1
  <1>13. (IF k = 1 THEN e ELSE t) = IF d = <<>> THEN NULL ELSE d[1]
    <2>1. d # <<>> /\ 1 \in 1..(l + 1)
      BY <1>2, <1>6
    <2>2. CASE k = 1
      BY <1>5, <1>7, <2>1, <2>2
    <2>3. CASE k # 1
      <3>1. 1 \in 1..n /\ cs # <<>>
        BY <1>2, <1>5, <2>3
      <3>2. d[1] = cs[1]
        BY <1>7, <3>1
      <3>3. t = cs[1]
        BY <3>1 DEF IsList
      <3>. QED
        BY <2>1, <2>3, <3>2, <3>3
    <2>. QED
      BY <2>2, <2>3
  <1>14. \A i \in 1..l : nx[cs[i]] = IF i = l THEN NULL ELSE cs[i + 1]
    BY <1>2, <1>5 DEF IsList
  <1>15. ASSUME NEW i \in 1..(l + 1)
         PROVE  ny[d[i]] = IF i = l + 1 THEN NULL ELSE d[i + 1]
    <2>1. CASE i \in 1..n /\ i # n
      <3>1. d[i] = cs[i] /\ i \in 1..l /\ i + 1 \in 1..n /\ i # l /\ i # l + 1 /\ i # k - 1
        BY <1>5, <1>7, <2>1
      <3>2. ny[cs[i]] = nx[cs[i]]
        BY <1>5, <3>1
      <3>3. nx[cs[i]] = cs[i + 1] /\ d[i + 1] = cs[i + 1]
        BY <1>7, <1>14, <3>1
      <3>. QED
        BY <3>1, <3>2, <3>3
    <2>2. CASE i = n
      <3>1. n \in 1..n /\ d[n] = cs[n] /\ k # 1 /\ n # l + 1 /\ k - 1 = n
        BY <1>5, <1>7, <2>2
      <3>2. ny[cs[n]] = e
        BY <3>1
      <3>. QED
        BY <1>7, <2>2, <3>1, <3>2
    <2>3. CASE i = n + 1 /\ n = l
      <3>1. ny[e] = NULL
        BY <1>2, <1>5, <2>3
      <3>. QED
        BY <1>7, <2>3, <3>1
    <2>4. CASE i = n + 1 /\ n # l
      <3>1. /\ k # Len(cs) + 1 /\ n + 2 \in (n + 2)..(l + 1) /\ (n + 2) - 1 = k
            /\ (n + 1) + 1 = n + 2 /\ n + 1 # l + 1
        BY <1>2, <1>5, <2>4
      <3>2. ny[e] = cs[k]
        BY <3>1
      <3>3. d[n + 2] = cs[(n + 2) - 1]
        BY <1>7, <3>1
      <3>. QED
        BY <1>7, <2>4, <3>1, <3>2, <3>3
    <2>5. CASE i \in (n + 2)..(l + 1)
      <3>1. d[i] = cs[i - 1] /\ i - 1 \in 1..l /\ i - 1 # k - 1
        BY <1>5, <1>7, <2>5
      <3>2. ny[cs[i - 1]] = nx[cs[i - 1]]
        BY <1>5, <3>1
      <3>3. nx[cs[i - 1]] = IF i - 1 = l THEN NULL ELSE cs[(i - 1) + 1]
        BY <1>14, <3>1
      <3>4. CASE i = l + 1
        BY <3>1, <3>2, <3>3, <3>4
      <3>5. CASE i # l + 1
        <4>1. i + 1 \in (n + 2)..(l + 1) /\ (i + 1) - 1 = i /\ (i - 1) + 1 = i /\ i - 1 # l
          BY <1>5, <2>5, <3>5
        <4>2. d[i + 1] = cs[i]
          BY <1>7, <4>1
        <4>. QED
          BY <3>1, <3>2, <3>3, <3>5, <4>1, <4>2
      <3>. QED
        BY <3>4, <3>5
    <2>. QED
      BY <1>5, <1>8, <2>1, <2>2, <2>3, <2>4, <2>5
  <1>16. IsList(d, ny, IF k = 1 THEN e ELSE t)
    BY <1>6, <1>12, <1>13, <1>15 DEF IsList
  <1>17. CellsOf(d) = CellsOf(cs) \cup {e}
    <2>1. ASSUME NEW i \in 1..(l + 1) PROVE d[i] \in CellsOf(cs) \cup {e}
      <3>1. CASE i \in 1..n
        BY <1>5, <1>7, <3>1 DEF CellsOf
      <3>2. CASE i = n + 1
        BY <1>7, <3>2
      <3>3. CASE i \in (n + 2)..(l + 1)
        BY <1>5, <1>7, <3>3 DEF CellsOf
      <3>. QED
        BY <1>8, <3>1, <3>2, <3>3
    <2>2. ASSUME NEW i \in 1..l PROVE cs[i] \in CellsOf(d)
      <3>1. CASE i \in 1..n
        <4>1. d[i] = cs[i] /\ i \in DOMAIN d
          BY <1>5, <1>6, <1>7, <3>1
        <4>. QED
          BY <4>1 DEF CellsOf
      <3>2. CASE ~(i \in 1..n)
        <4>1. i + 1 \in (n + 2)..(l + 1) /\ (i + 1) - 1 = i /\ i + 1 \in DOMAIN d
          BY <1>5, <1>6, <3>2
        <4>2. d[i + 1] = cs[i]
          BY <1>7, <4>1
        <4>. QED
          BY <4>1, <4>2 DEF CellsOf
      <3>. QED
        BY <3>1, <3>2
    <2>3. e \in CellsOf(d)
      <3>1. n + 1 \in DOMAIN d
        BY <1>5, <1>6
      <3>. QED
        BY <1>7, <3>1 DEF CellsOf
    <2>4. CellsOf(d) \subseteq CellsOf(cs) \cup {e}
      BY <1>6, <2>1 DEF CellsOf
    <2>5. CellsOf(cs) \subseteq CellsOf(d)
      BY <1>5, <2>2 DEF CellsOf
    <2>. QED
      BY <2>3, <2>4, <2>5
  <1>. QED
    BY <1>3, <1>4, <1>16, <1>17

\* The records of a list with a cell inserted.
LEMMA InsertedRecords ==
    ASSUME NEW E, NEW rc \in [Cells -> E], NEW cs \in Seq(Cells), NEW n \in 0..Len(cs),
           NEW e \in Cells
    PROVE  RecordsOf(Inserted(cs, n, e), rc) = Inserted(RecordsOf(cs, rc), n, rc[e])
  <1>1. PICK l \in Nat : l = Len(cs)
    OBVIOUS
  <1>2. PICK d : d = Inserted(cs, n, e)
    OBVIOUS
  <1>3. n \in 0..l /\ DOMAIN cs = 1..l /\ \A i \in 1..l : cs[i] \in Cells
    BY <1>1
  <1>4. /\ d \in Seq(Cells) /\ Len(d) = l + 1 /\ DOMAIN d = 1..(l + 1)
        /\ \A i \in 1..(l + 1) : d[i] = IF i <= n THEN cs[i]
                                        ELSE IF i = n + 1 THEN e ELSE cs[i - 1]
    <2>1. /\ d \in Seq(Cells) /\ Len(d) = Len(cs) + 1
          /\ \A i \in 1..(Len(cs) + 1) : d[i] = IF i <= n THEN cs[i]
                                               ELSE IF i = n + 1 THEN e ELSE cs[i - 1]
      <3>1. IsInserted(d, Cells, cs, n, e)
        BY <1>2, InsertedPlaces
      <3>. QED
        BY <3>1 DEF IsInserted
    <2>. QED
      BY <1>1, <2>1, SMTT(30)
  <1>5. PICK s : s = RecordsOf(cs, rc)
    OBVIOUS
  <1>6. /\ s \in Seq(E) /\ Len(s) = l
        /\ \A i \in 1..l : s[i] = rc[cs[i]]
    <2>1. s = [i \in 1..l |-> rc[cs[i]]]
      BY <1>3, <1>5 DEF RecordsOf
    <2>2. \A i \in 1..l : rc[cs[i]] \in E
      BY <1>3
    <2>. QED
      BY <1>1, <2>1, <2>2
  <1>7. PICK u : u = Inserted(s, n, rc[e])
    OBVIOUS
  <1>8. /\ u \in Seq(E) /\ Len(u) = l + 1
        /\ \A i \in 1..(l + 1) : u[i] = IF i <= n THEN s[i]
                                        ELSE IF i = n + 1 THEN rc[e] ELSE s[i - 1]
    <2>1. rc[e] \in E /\ n \in 0..Len(s)
      BY <1>3, <1>6
    <2>2. /\ u \in Seq(E) /\ Len(u) = Len(s) + 1
          /\ \A i \in 1..(Len(s) + 1) : u[i] = IF i <= n THEN s[i]
                                              ELSE IF i = n + 1 THEN rc[e] ELSE s[i - 1]
      <3>1. IsInserted(u, E, s, n, rc[e])
        BY <1>6, <1>7, <2>1, InsertedPlaces
      <3>. QED
        BY <3>1 DEF IsInserted
    <2>. QED
      BY <1>6, <2>2
  <1>9. ASSUME NEW i \in 1..(l + 1) PROVE rc[d[i]] = u[i]
    <2>1. CASE i <= n
      <3>1. i \in 1..l
        BY <1>3, <2>1
      <3>. QED
        BY <1>4, <1>6, <1>8, <2>1, <3>1
    <2>2. CASE i = n + 1
      <3>1. ~(i <= n)
        BY <1>3, <2>2
      <3>. QED
        BY <1>4, <1>8, <2>2, <3>1
    <2>3. CASE ~(i <= n) /\ i # n + 1
      <3>1. i - 1 \in 1..l
        BY <1>3, <2>3
      <3>. QED
        BY <1>4, <1>6, <1>8, <2>3, <3>1
    <2>. QED
      BY <2>1, <2>2, <2>3
  <1>10. RecordsOf(d, rc) = [i \in 1..(l + 1) |-> u[i]]
    BY <1>4, <1>9 DEF RecordsOf
  <1>11. u = [i \in 1..(l + 1) |-> u[i]]
    BY <1>8
  <1>. QED
    BY <1>2, <1>5, <1>7, <1>10, <1>11

-----------------------------------------------------------------------------
(* The steps of the walk and the link.                                     *)

\* The walk goes on to the next cell.
LEMMA WalkStep ==
    ASSUME ListTypeOK, NEW cs, IsList(cs, next, table), entry \in Cells,
           NEW k, Place(cs, k, loop, prev, rec, entry), Walk
    PROVE  Place(cs, k + 1, loop', prev', rec, entry)
  <1>1. cs \in Seq(Cells)
    BY DEF IsList
  <1>2. PICK l \in Nat : l = Len(cs)
    BY <1>1
  <1>3. /\ loop # NULL /\ prev' = loop /\ loop' = next[loop]
        /\ ~(Key(rec[loop]) > Key(rec[entry]))
    BY DEF Walk, Before
  <1>4. k \in 1..l /\ loop = cs[k] /\ k \in DOMAIN cs
    BY <1>1, <1>2, <1>3 DEF Place
  <1>5. next[loop] = IF k = l THEN NULL ELSE cs[k + 1]
    BY <1>2, <1>4 DEF IsList
  <1>6. k + 1 \in 1..(l + 1) /\ k + 1 # 1 /\ (k + 1) - 1 = k /\ (k + 1 = l + 1 <=> k = l)
    BY <1>2, <1>4
  <1>7. ASSUME NEW m \in 1..k PROVE Key(rec[cs[m]]) <= Key(rec[entry])
    <2>1. CASE m = k
      <3>1. cs[k] \in Cells /\ Key(rec[cs[k]]) \in Nat
        BY <1>1, <1>4, CellAssumption DEF ListTypeOK, Entries, Key
      <3>2. PICK a \in Nat : a = Key(rec[cs[k]])
        BY <3>1
      <3>3. Key(rec[entry]) \in Nat
        BY CellAssumption DEF ListTypeOK, Entries, Key
      <3>. QED
        BY <1>3, <1>4, <2>1, <3>2, <3>3
    <2>2. CASE m # k
      <3>1. m \in 1..(k - 1)
        BY <1>4, <2>2
      <3>. QED
        BY <3>1 DEF Place
    <2>. QED
      BY <2>1, <2>2
  <1>. QED
    BY <1>2, <1>3, <1>4, <1>5, <1>6, <1>7 DEF Place

\* The entry is linked in where the walk ended: its key is less than those of the
\* cells after it and not less than those before.
LEMMA LinkStep ==
    ASSUME ListTypeOK, NEW cs, IsList(cs, next, table),
           entry \in Cells, entry \notin CellsOf(cs), next[entry] = NULL,
           NEW k, Place(cs, k, loop, prev, rec, entry), Link
    PROVE  /\ k - 1 \in 0..Len(cs)
           /\ IsList(Inserted(cs, k - 1, entry), next', table')
           /\ CellsOf(Inserted(cs, k - 1, entry)) = CellsOf(cs) \cup {entry}
           /\ \A m \in 1..(k - 1) : Key(rec[cs[m]]) <= Key(rec[entry])
           /\ k - 1 < Len(cs) => Key(rec[cs[(k - 1) + 1]]) > Key(rec[entry])
  <1>1. cs \in Seq(Cells) /\ next \in [Cells -> Pointers]
    BY DEF IsList, ListTypeOK, Pointers
  <1>2. PICK l \in Nat : l = Len(cs)
    BY <1>1
  <1>3. PICK e : e = entry
    OBVIOUS
  <1>4. PICK nx : nx = next
    OBVIOUS
  <1>5. PICK ny : ny = next'
    OBVIOUS
  <1>6. /\ k \in 1..(l + 1) /\ k - 1 \in 0..l /\ (k - 1) + 1 = k
        /\ loop = IF k = l + 1 THEN NULL ELSE cs[k]
        /\ prev = IF k = 1 THEN NULL ELSE cs[k - 1]
        /\ \A m \in 1..(k - 1) : Key(rec[cs[m]]) <= Key(rec[e])
    BY <1>2, <1>3 DEF Place
  <1>7. DOMAIN cs = 1..l /\ \A i \in 1..l : cs[i] \in Cells /\ cs[i] # NULL /\ cs[i] # e
    <2>1. DOMAIN cs = 1..l
      BY <1>1, <1>2
    <2>2. ASSUME NEW i \in 1..l PROVE cs[i] \in Cells /\ cs[i] \in CellsOf(cs)
      BY <1>1, <2>1 DEF CellsOf
    <2>. QED
      BY <1>3, <2>1, <2>2 DEF Cells, NULL
  <1>8. /\ table' = IF k = 1 THEN e ELSE table
        /\ ny[e] = IF k = l + 1 THEN NULL ELSE cs[k]
        /\ k # 1 => ny[cs[k - 1]] = e
        /\ \A i \in 1..l : i # k - 1 => ny[cs[i]] = nx[cs[i]]
        /\ k - 1 < l => Key(rec[cs[k]]) > Key(rec[e])
    <2>1. CASE LinkFirst
      <3>1. table = NULL /\ table' = e /\ ny = nx
        BY <1>3, <1>4, <1>5, <2>1 DEF LinkFirst, heapVars
      <3>2. cs = <<>>
        BY <3>1, EmptyIsNull
      <3>3. l = 0 /\ k = 1
        BY <1>2, <1>6, <3>2
      <3>. QED
        BY <1>3, <1>4, <3>1, <3>3
    <2>2. CASE LinkBefore
      <3>1. loop # NULL /\ Key(rec[loop]) > Key(rec[e])
        BY <1>3, <2>2 DEF LinkBefore, Before
      <3>2. k \in 1..l /\ loop = cs[k]
        BY <1>6, <3>1
      <3>3. CASE k = 1
        <4>1. prev = NULL
          BY <1>6, <3>3
        <4>2. table' = e /\ ny = [nx EXCEPT ![e] = cs[1]]
          BY <1>3, <1>4, <1>5, <2>2, <3>2, <3>3, <4>1 DEF LinkBefore
        <4>3. ny[e] = cs[1] /\ \A i \in 1..l : ny[cs[i]] = nx[cs[i]]
          BY <1>1, <1>3, <1>4, <1>7, <4>2
        <4>. QED
          BY <1>6, <3>1, <3>2, <3>3, <4>2, <4>3
      <3>4. CASE k # 1
        <4>1. prev = cs[k - 1] /\ k - 1 \in 1..l
          BY <1>6, <3>2, <3>4
        <4>2. prev # NULL
          BY <1>7, <4>1
        <4>3. table' = table /\ ny = [nx EXCEPT ![e] = cs[k], ![cs[k - 1]] = e]
          BY <1>3, <1>4, <1>5, <2>2, <3>2, <4>1, <4>2 DEF LinkBefore
        <4>4. \A i, j \in 1..l : cs[i] = cs[j] => i = j
          BY <1>7 DEF IsList
        <4>5. cs[k - 1] \in Cells /\ cs[k - 1] # e /\ e \in Cells
          BY <1>3, <1>7, <4>1
        <4>6. ny[e] = cs[k] /\ ny[cs[k - 1]] = e
          BY <1>1, <1>4, <4>3, <4>5
        <4>7. ASSUME NEW i \in 1..l, i # k - 1 PROVE ny[cs[i]] = nx[cs[i]]
          <5>1. cs[i] # cs[k - 1] /\ cs[i] # e /\ cs[i] \in Cells
            BY <1>7, <4>1, <4>4, <4>7
          <5>. QED
            BY <1>1, <1>4, <4>3, <5>1
        <4>. QED
          BY <1>6, <3>1, <3>2, <3>4, <4>3, <4>6, <4>7
      <3>. QED
        BY <3>3, <3>4
    <2>3. CASE LinkLast
      <3>1. table # NULL /\ loop = NULL /\ ny = [nx EXCEPT ![prev] = e] /\ table' = table
        BY <1>3, <1>4, <1>5, <2>3 DEF LinkLast
      <3>2. cs # <<>>
        BY <3>1, EmptyIsNull
      <3>3. l # 0
        BY <1>1, <1>2, <3>2
      <3>4. k = l + 1
        <4>1. CASE k \in 1..l
          BY <1>6, <1>7, <3>1, <4>1
        <4>. QED
          BY <1>6, <4>1
      <3>5. prev = cs[l] /\ k - 1 = l /\ k # 1 /\ l \in 1..l
        BY <1>6, <3>3, <3>4
      <3>6. \A i, j \in 1..l : cs[i] = cs[j] => i = j
        BY <1>7 DEF IsList
      <3>7. cs[l] \in Cells /\ cs[l] # e
        BY <1>7, <3>5
      <3>8. ny[cs[l]] = e /\ ny[e] = NULL
        BY <1>1, <1>3, <1>4, <3>1, <3>5, <3>7
      <3>9. ASSUME NEW i \in 1..l, i # l PROVE ny[cs[i]] = nx[cs[i]]
        <4>1. cs[i] # cs[l] /\ cs[i] \in Cells
          BY <1>7, <3>5, <3>6, <3>9
        <4>. QED
          BY <1>1, <1>4, <3>1, <3>5, <4>1
      <3>. QED
        BY <3>1, <3>4, <3>5, <3>8, <3>9
    <2>. QED
      BY <2>1, <2>2, <2>3 DEF Link
  <1>9. /\ IsList(Inserted(cs, k - 1, e), ny, IF k = 1 THEN e ELSE table)
        /\ CellsOf(Inserted(cs, k - 1, e)) = CellsOf(cs) \cup {e}
    <2>1. IsList(cs, nx, table) /\ e \in Cells /\ e \notin CellsOf(cs) /\ k \in 1..(Len(cs) + 1)
      BY <1>2, <1>3, <1>4, <1>6
    <2>2. ny[e] = IF k = Len(cs) + 1 THEN NULL ELSE cs[k]
      BY <1>2, <1>8
    <2>3. \A i \in DOMAIN cs : i # k - 1 => ny[cs[i]] = nx[cs[i]]
      BY <1>7, <1>8
    <2>. QED
      BY <1>8, <2>1, <2>2, <2>3, InsertedList
  <1>. QED
    BY <1>2, <1>3, <1>5, <1>6, <1>8, <1>9


-----------------------------------------------------------------------------
(* The heap: what each step of the list does to it.                        *)

\* The cells us that are allocated are those of the list cs, those in u, which
\* are in the making, and those in lk, which are lost.
Heap(cs, nx, t, us, u, lk) ==
    /\ IsList(cs, nx, t)
    /\ us = CellsOf(cs) \cup u \cup lk
    /\ u \subseteq Cells /\ lk \subseteq Cells
    /\ u \cap CellsOf(cs) = {}
    /\ lk \cap (CellsOf(cs) \cup u) = {}
    /\ \A c \in u : nx[c] = NULL

\* The records of a list without its first cell.
LEMMA TailRecords ==
    ASSUME NEW E, NEW rc \in [Cells -> E], NEW cs \in Seq(Cells), cs # <<>>
    PROVE  RecordsOf(cs, rc) # <<>> /\ RecordsOf(Tail(cs), rc) = Tail(RecordsOf(cs, rc))
  <1>1. PICK l \in Nat \ {0} : l = Len(cs)
    OBVIOUS
  <1>2. PICK d : d = Tail(cs)
    OBVIOUS
  <1>3. PICK s : s = RecordsOf(cs, rc)
    OBVIOUS
  <1>4. DOMAIN cs = 1..l /\ \A i \in 1..l : cs[i] \in Cells
    BY <1>1
  <1>5. DOMAIN d = 1..(l - 1) /\ \A i \in 1..(l - 1) : d[i] = cs[i + 1]
    BY <1>1, <1>2
  <1>6. s = [i \in 1..l |-> rc[cs[i]]]
    BY <1>3, <1>4 DEF RecordsOf
  <1>7. s \in Seq(E) /\ Len(s) = l /\ \A i \in 1..l : s[i] = rc[cs[i]]
    <2>1. \A i \in 1..l : rc[cs[i]] \in E
      BY <1>4
    <2>. QED
      BY <1>6, <2>1
  <1>8. PICK u : u = Tail(s)
    OBVIOUS
  <1>9. s # <<>> /\ Len(u) = l - 1 /\ u \in Seq(E) /\ \A i \in 1..(l - 1) : u[i] = s[i + 1]
    BY <1>7, <1>8
  <1>10. RecordsOf(d, rc) = [i \in 1..(l - 1) |-> u[i]]
    <2>1. ASSUME NEW i \in 1..(l - 1) PROVE rc[d[i]] = u[i]
      <3>1. i + 1 \in 1..l
        OBVIOUS
      <3>. QED
        BY <1>5, <1>7, <1>9, <3>1
    <2>. QED
      BY <1>5, <2>1 DEF RecordsOf
  <1>11. u = [i \in 1..(l - 1) |-> u[i]]
    BY <1>9
  <1>. QED
    BY <1>2, <1>3, <1>8, <1>9, <1>10, <1>11

\* The records of a list whose cells keep theirs.
LEMMA SameRecords ==
    ASSUME NEW cs, NEW rc, NEW rd, \A c \in CellsOf(cs) : rd[c] = rc[c]
    PROVE  RecordsOf(cs, rd) = RecordsOf(cs, rc)
  <1>1. ASSUME NEW i \in DOMAIN cs PROVE rd[cs[i]] = rc[cs[i]]
    BY <1>1 DEF CellsOf
  <1>. QED
    BY <1>1 DEF RecordsOf

\* The head of the list is freed.
LEMMA FreeHeadStep ==
    ASSUME ListTypeOK, NEW cs, NEW lk, Heap(cs, next, table, used, {}, lk), FreeHead
    PROVE  /\ ListTypeOK'
           /\ cs # <<>>
           /\ Heap(Tail(cs), next', table', used', {}, lk)
           /\ UNCHANGED rec
  <1>1. /\ table # NULL /\ table' = next[table] /\ used' = used \ {table} /\ entry' = table
        /\ UNCHANGED <<pc, next, rec, loop, prev>>
    BY DEF FreeHead, linkVars
  <1>2. IsList(cs, next, table)
    BY DEF Heap
  <1>3. /\ cs # <<>>
        /\ IsList(Tail(cs), next, next[table])
        /\ CellsOf(Tail(cs)) = CellsOf(cs) \ {table}
        /\ table \in CellsOf(cs)
    BY <1>1, <1>2, TailIsList
  <1>4. used = CellsOf(cs) \cup lk /\ lk \subseteq Cells /\ lk \cap CellsOf(cs) = {}
    BY DEF Heap
  <1>5. Heap(Tail(cs), next, next[table], used \ {table}, {}, lk)
    BY <1>3, <1>4 DEF Heap
  <1>6. ListTypeOK'
    <2>1. table \in Cells /\ next[table] \in Cells \cup {NULL}
      BY <1>1 DEF ListTypeOK
    <2>. QED
      BY <1>1, <2>1 DEF ListTypeOK
  <1>. QED
    BY <1>1, <1>3, <1>5, <1>6

\* An entry is allocated: it is not on the list.
LEMMA NewEntryStep ==
    ASSUME ListTypeOK, NEW cs, NEW lk, Heap(cs, next, table, used, {}, lk),
           NEW r, r \in Entries, NewEntry(r), UNCHANGED <<pc, table, linkVars>>
    PROVE  /\ ListTypeOK'
           /\ entry' \in Cells
           /\ Heap(cs, next', table', used', {entry'}, lk)
           /\ \A c \in CellsOf(cs) : rec'[c] = rec[c]
  <1>1. PICK e \in Cells \ used :
            /\ entry' = e
            /\ used' = used \cup {e}
            /\ next' = [next EXCEPT ![e] = NULL]
            /\ rec' = [rec EXCEPT ![e] = r]
    BY DEF NewEntry
  <1>2. /\ IsList(cs, next, table)
        /\ used = CellsOf(cs) \cup lk /\ lk \subseteq Cells /\ lk \cap CellsOf(cs) = {}
    BY DEF Heap
  <1>3. CellsOf(cs) \subseteq Cells /\ e \notin CellsOf(cs) /\ e \notin lk /\ e \in Cells
    BY <1>1, <1>2, ListIsShort
  <1>4. next'[e] = NULL /\ \A c \in CellsOf(cs) : next'[c] = next[c] /\ rec'[c] = rec[c]
    BY <1>1, <1>3 DEF ListTypeOK
  <1>5. IsList(cs, next', table)
    BY <1>2, <1>4, OtherCells
  <1>6. Heap(cs, next', table, used', {e}, lk)
    BY <1>1, <1>2, <1>3, <1>4, <1>5 DEF Heap
  <1>7. ListTypeOK'
    <2>1. /\ next' \in [Cells -> Cells \cup {NULL}]
          /\ rec' \in [Cells -> Entries]
          /\ used' \subseteq Cells
      BY <1>1, <1>3 DEF ListTypeOK
    <2>. QED
      BY <1>1, <1>3, <2>1 DEF ListTypeOK, linkVars
  <1>. QED
    BY <1>1, <1>3, <1>4, <1>6, <1>7

\* The entry in the making is freed.
LEMMA FreeEntryStep ==
    ASSUME ListTypeOK, NEW cs, NEW lk, Heap(cs, next, table, used, {entry}, lk),
           FreeEntry, UNCHANGED <<pc, table, next, rec, linkVars>>
    PROVE  ListTypeOK' /\ Heap(cs, next', table', used', {}, lk)
  <1>1. used' = used \ {entry} /\ entry' = NULL
    BY DEF FreeEntry
  <1>2. /\ IsList(cs, next, table)
        /\ used = CellsOf(cs) \cup {entry} \cup lk /\ lk \subseteq Cells
        /\ entry \notin CellsOf(cs)
        /\ lk \cap CellsOf(cs) = {} /\ entry \notin lk
    BY DEF Heap
  <1>3. Heap(cs, next, table, used \ {entry}, {}, lk)
    BY <1>2 DEF Heap
  <1>. QED
    BY <1>1, <1>3 DEF ListTypeOK, linkVars

\* The entry in the making is lost.
LEMMA LeakStep ==
    ASSUME NEW cs, NEW nx, NEW t, NEW us, NEW u, NEW lk, Heap(cs, nx, t, us, u, lk)
    PROVE  Heap(cs, nx, t, us, {}, lk \cup u)
  BY DEF Heap

\* The walk to the entry's place begins at the head of the list, ...
LEMMA WalkBegins ==
    ASSUME NEW cs, NEW nx, NEW t, IsList(cs, nx, t), NEW rc, NEW e
    PROVE  Place(cs, 1, t, NULL, rc, e)
  <1>1. cs \in Seq(Cells) /\ (cs = <<>> <=> Len(cs) = 0)
    BY DEF IsList
  <1>. QED
    BY <1>1 DEF IsList, Place

\* ... and wherever it is, the two loop pointers are neighbours.
LEMMA PlaceIsLinked ==
    ASSUME NEW cs, NEW nx, NEW t, IsList(cs, nx, t),
           NEW k, NEW l, NEW p, NEW rc, NEW e, Place(cs, k, l, p, rc, e)
    PROVE  /\ (p = NULL) <=> (l = t)
           /\ p # NULL => nx[p] = l
  <1>1. cs \in Seq(Cells)
    BY DEF IsList
  <1>2. PICK n \in Nat : n = Len(cs)
    BY <1>1
  <1>3. /\ DOMAIN cs = 1..n
        /\ \A i \in 1..n : cs[i] \in Cells /\ cs[i] # NULL
        /\ \A i, j \in 1..n : cs[i] = cs[j] => i = j
        /\ \A i \in 1..n : nx[cs[i]] = IF i = n THEN NULL ELSE cs[i + 1]
        /\ t = IF n = 0 THEN NULL ELSE cs[1]
    <2>1. DOMAIN cs = 1..n /\ (cs = <<>> <=> n = 0)
      BY <1>1, <1>2
    <2>2. \A i \in 1..n : cs[i] \in Cells /\ cs[i] # NULL
      <3>1. NULL \notin Cells
        BY DEF Cells, NULL
      <3>. QED
        BY <1>1, <1>2, <3>1
    <2>3. /\ \A i, j \in DOMAIN cs : cs[i] = cs[j] => i = j
          /\ t = IF cs = <<>> THEN NULL ELSE cs[1]
          /\ \A i \in DOMAIN cs : nx[cs[i]] = IF i = n THEN NULL ELSE cs[i + 1]
      BY <1>2 DEF IsList
    <2>. QED
      BY <2>1, <2>2, <2>3
  <1>4. /\ k \in 1..(n + 1)
        /\ l = IF k = n + 1 THEN NULL ELSE cs[k]
        /\ p = IF k = 1 THEN NULL ELSE cs[k - 1]
    BY <1>2 DEF Place
  <1>5. CASE k = 1
    <2>1. p = NULL
      BY <1>4, <1>5
    <2>2. l = t
      BY <1>3, <1>4, <1>5
    <2>. QED
      BY <2>1, <2>2
  <1>6. CASE k # 1
    <2>1. k - 1 \in 1..n /\ n # 0 /\ 1 \in 1..n
      BY <1>4, <1>6
    <2>2. p = cs[k - 1] /\ p # NULL /\ t = cs[1] /\ t # NULL
      BY <1>3, <1>4, <1>6, <2>1
    <2>3. nx[cs[k - 1]] = IF k - 1 = n THEN NULL ELSE cs[(k - 1) + 1]
      BY <1>3, <2>1
    <2>4. (k - 1 = n <=> k = n + 1) /\ (k - 1) + 1 = k
      BY <1>4, <2>1
    <2>5. nx[p] = l
      BY <1>4, <2>2, <2>3, <2>4
    <2>6. l # t
      <3>1. CASE k = n + 1
        BY <1>4, <2>2, <3>1
      <3>2. CASE k # n + 1
        <4>1. k \in 1..n /\ l = cs[k]
          BY <1>4, <3>2
        <4>. QED
          BY <1>3, <1>6, <2>1, <2>2, <4>1
      <3>. QED
        BY <3>1, <3>2
    <2>. QED
      BY <2>2, <2>5, <2>6
  <1>. QED
    BY <1>5, <1>6

\* The entry in the making becomes a cell of the list.
LEMMA LinkHeapStep ==
    ASSUME ListTypeOK, NEW cs, NEW lk, Heap(cs, next, table, used, {entry}, lk),
           entry \in Cells, NEW k, Place(cs, k, loop, prev, rec, entry), Link
    PROVE  /\ ListTypeOK'
           /\ k - 1 \in 0..Len(cs)
           /\ Heap(Inserted(cs, k - 1, entry), next', table', used', {}, lk)
           /\ \A m \in 1..(k - 1) : Key(rec[cs[m]]) <= Key(rec[entry])
           /\ k - 1 < Len(cs) => Key(rec[cs[(k - 1) + 1]]) > Key(rec[entry])
           /\ UNCHANGED rec
  <1>1. /\ IsList(cs, next, table)
        /\ used = CellsOf(cs) \cup {entry} \cup lk /\ lk \subseteq Cells
        /\ entry \notin CellsOf(cs) /\ next[entry] = NULL
        /\ lk \cap (CellsOf(cs) \cup {entry}) = {}
    BY DEF Heap
  <1>2. /\ k - 1 \in 0..Len(cs)
        /\ IsList(Inserted(cs, k - 1, entry), next', table')
        /\ CellsOf(Inserted(cs, k - 1, entry)) = CellsOf(cs) \cup {entry}
        /\ \A m \in 1..(k - 1) : Key(rec[cs[m]]) <= Key(rec[entry])
        /\ k - 1 < Len(cs) => Key(rec[cs[(k - 1) + 1]]) > Key(rec[entry])
    BY <1>1, LinkStep
  <1>3. UNCHANGED <<rec, used, entry, loop, prev>> /\ pc' = "read"
    BY DEF Link, LinkFirst, LinkBefore, LinkLast, heapVars, linkVars
  <1>4. Heap(Inserted(cs, k - 1, entry), next', table', used', {}, lk)
    BY <1>1, <1>2, <1>3 DEF Heap
  <1>5. ListTypeOK'
    <2>1. table' \in Cells \cup {NULL}
      BY DEF ListTypeOK, Link, LinkFirst, LinkBefore, LinkLast
    <2>2. next' \in [Cells -> Cells \cup {NULL}]
      BY DEF ListTypeOK, Link, LinkFirst, LinkBefore, LinkLast, heapVars
    <2>. QED
      BY <1>3, <2>1, <2>2 DEF ListTypeOK
  <1>. QED
    BY <1>2, <1>3, <1>4, <1>5

-----------------------------------------------------------------------------
(* The messages.                                                           *)

\* The nodes with tags of T and values of V.
NodesOf(T, V) ==
    [tag : T \cup {"#text"}, part : {"empty", "start", "end", "text"}, value : V]

\* f[k] is what the first k sequences of ss make, put together, in W.
Flattening(f, W, ss) ==
    /\ f \in [0..Len(ss) -> W]
    /\ f[0] = <<>>
    /\ \A k \in 1..Len(ss) : f[k] = f[k - 1] \o ss[k]

\* FlattenSeq computes that, for sequences in W, which is closed under \o.
LEMMA FlattenIs ==
    ASSUME NEW S, NEW W, W \subseteq Seq(S), NEW ss, ss \in Seq(W),
           <<>> \in W, \A a, b \in W : a \o b \in W
    PROVE  \E f : Flattening(f, W, ss) /\ FlattenSeq(ss) = f[Len(ss)]
  <1>1. PICK N \in Nat : N = Len(ss)
    OBVIOUS
  <1>2. DOMAIN ss = 1..N /\ \A k \in 1..N : ss[k] \in W
    BY <1>1
  <1>3. CASE N = 0
    <2>1. ss = <<>>
      BY <1>1, <1>3, EmptySeq
    <2>2. FlattenSeq(ss) = <<>>
      BY <1>1, <1>3, <2>1 DEF FlattenSeq
    <2>3. PICK f : f = [k \in 0..0 |-> <<>>]
      OBVIOUS
    <2>4. Flattening(f, W, ss)
      BY <1>1, <1>3, <2>3 DEF Flattening
    <2>. QED
      BY <1>1, <1>3, <2>2, <2>3, <2>4
  <1>4. CASE N # 0
    <2>. DEFINE step == [x \in W \X (1..N) |-> x[1] \o ss[x[2]]]
                Row(F, i) == IF i = 1 THEN ss[i] ELSE F[i - 1] \o ss[i]
                g == CHOOSE F : F = [i \in 1..N |-> Row(F, i)]
    <2>1. step \in [W \X (1..N) -> W]
      BY <1>2
    <2>2. \A a \in W, k \in 1..N : step[<<a, k>>] = a \o ss[k]
      OBVIOUS
    <2>. HIDE DEF step
    <2>3. PICK f : /\ f \in [0..N -> W]
                   /\ f[0] = <<>>
                   /\ \A k \in 1..N : f[k] = step[<<f[k - 1], k>>]
      <3>1. \E f : Recursion(f, W, <<>>, N, step)
        BY <2>1, RecursionExists
      <3>. QED
        BY <3>1 DEF Recursion
    <2>4. ASSUME NEW k \in 1..N PROVE f[k] = f[k - 1] \o ss[k] /\ f[k] \in W
      <3>1. f[k - 1] \in W /\ f[k] \in W
        BY <2>3
      <3>. QED
        BY <2>2, <2>3, <3>1
    <2>5. f[1] = ss[1]
      <3>1. 1 \in 1..N /\ 1 - 1 = 0
        BY <1>4
      <3>2. f[1] = <<>> \o ss[1]
        BY <2>3, <2>4, <3>1
      <3>3. ss[1] \in Seq(S)
        BY <1>2, <3>1
      <3>. QED
        BY <3>2, <3>3, ConcatEmptySeq
    <2>6. PICK h : h = [i \in 1..N |-> f[i]]
      OBVIOUS
    <2>7. h = [i \in 1..N |-> Row(h, i)]
      <3>1. ASSUME NEW i \in 1..N PROVE h[i] = Row(h, i)
        <4>1. CASE i = 1
          BY <2>5, <2>6, <4>1
        <4>2. CASE i # 1
          <5>1. i - 1 \in 1..N
            BY <4>2
          <5>. QED
            BY <2>4, <2>6, <4>2, <5>1
        <4>. QED
          BY <4>1, <4>2
      <3>. HIDE DEF Row
      <3>. QED
        BY <2>6, <3>1
    <2>8. g = [i \in 1..N |-> Row(g, i)]
      <3>. HIDE DEF Row
      <3>. QED
        BY <2>7
    <2>9. FlattenSeq(ss) = g[N]
      BY <1>1, <1>4 DEF FlattenSeq
    <2>. HIDE DEF g
    <2>10. ASSUME NEW i \in 1..N PROVE g[i] = IF i = 1 THEN ss[i] ELSE g[i - 1] \o ss[i]
      BY <2>8
    <2>. DEFINE G == {i \in 0..N : i # 0 => g[i] = f[i]}
    <2>11. 0 \in G
      OBVIOUS
    <2>12. ASSUME NEW i \in 0..(N - 1), i \in G PROVE i + 1 \in G
      <3>1. i + 1 \in 1..N /\ (i + 1) - 1 = i
        OBVIOUS
      <3>2. g[i + 1] = IF i + 1 = 1 THEN ss[i + 1] ELSE g[i] \o ss[i + 1]
        BY <2>10, <3>1
      <3>3. f[i + 1] = f[i] \o ss[i + 1]
        BY <2>4, <3>1
      <3>4. CASE i = 0
        BY <2>5, <3>1, <3>2, <3>4
      <3>5. CASE i # 0
        <4>1. g[i] = f[i] /\ i + 1 # 1
          BY <2>12, <3>5
        <4>2. g[i + 1] = f[i + 1]
          BY <3>2, <3>3, <4>1, Zenon
        <4>. QED
          BY <3>1, <4>2
      <3>. QED
        BY <3>4, <3>5
    <2>13. 0..N \subseteq G
      <3>. HIDE DEF G
      <3>. QED
        BY <2>11, <2>12, BoundedInduction
    <2>14. FlattenSeq(ss) = f[Len(ss)]
      BY <1>1, <1>4, <2>9, <2>13, SMTT(30)
    <2>15. Flattening(f, W, ss)
      BY <1>1, <2>3, <2>4 DEF Flattening
    <2>. QED
      BY <2>14, <2>15
  <1>. QED
    BY <1>3, <1>4

\* What is true of sequences, and of two put together, is true of a sequence of
\* sequences that is flattened.
LEMMA FlattenIn ==
    ASSUME NEW S, NEW W, W \subseteq Seq(S), NEW ss, ss \in Seq(W),
           <<>> \in W, \A a, b \in W : a \o b \in W
    PROVE  FlattenSeq(ss) \in W
  <1>1. PICK f : Flattening(f, W, ss) /\ FlattenSeq(ss) = f[Len(ss)]
    BY FlattenIs
  <1>2. Len(ss) \in 0..Len(ss)
    OBVIOUS
  <1>. QED
    BY <1>1, <1>2 DEF Flattening

\* The first k sequences of ss are flattened on the way.
LEMMA FlattenFirst ==
    ASSUME NEW S, NEW ss, ss \in Seq(Seq(S))
    PROVE  \E f : /\ Flattening(f, Seq(S), ss)
                  /\ FlattenSeq(ss) = f[Len(ss)]
                  /\ \A k \in 0..Len(ss) : FlattenSeq(SubSeq(ss, 1, k)) = f[k]
  <1>1. PICK W : W = Seq(S)
    OBVIOUS
  <1>2. <<>> \in W /\ W \subseteq Seq(S) /\ ss \in Seq(W)
    BY <1>1
  <1>3. \A a, b \in W : a \o b \in W
    BY <1>1, ConcatProperties
  <1>4. PICK f : Flattening(f, W, ss) /\ FlattenSeq(ss) = f[Len(ss)]
    BY <1>2, <1>3, FlattenIs
  <1>5. PICK N \in Nat : N = Len(ss)
    BY <1>2
  <1>6. ASSUME NEW k \in 0..N PROVE FlattenSeq(SubSeq(ss, 1, k)) = f[k]
    <2>1. PICK ts : ts = SubSeq(ss, 1, k)
      OBVIOUS
    <2>2. ts \in Seq(W) /\ Len(ts) = k /\ \A i \in 1..k : ts[i] = ss[i]
      <3>1. \A i \in 1..k : ss[i] \in W
        BY <1>2, <1>5
      <3>2. /\ ts \in Seq(W) /\ Len(ts) = IF 1 <= k THEN k - 1 + 1 ELSE 0
            /\ \A i \in 1..(k - 1 + 1) : ts[i] = ss[1 + i - 1]
        BY <2>1, <3>1, SubSeqProperties
      <3>3. Len(ts) = k
        BY <3>2
      <3>4. ASSUME NEW i \in 1..k PROVE ts[i] = ss[i]
        <4>1. i \in 1..(k - 1 + 1) /\ 1 + i - 1 = i
          OBVIOUS
        <4>2. ts[i] = ss[1 + i - 1]
          BY <3>2, <4>1
        <4>. QED
          BY <4>1, <4>2
      <3>. QED
        BY <3>2, <3>3, <3>4
    <2>3. PICK h : Flattening(h, W, ts) /\ FlattenSeq(ts) = h[Len(ts)]
      BY <1>2, <1>3, <2>2, FlattenIs
    <2>. DEFINE G == {i \in 0..k : h[i] = f[i]}
    <2>4. 0 \in G
      BY <1>4, <2>3 DEF Flattening
    <2>5. ASSUME NEW i \in 0..(k - 1), i \in G PROVE i + 1 \in G
      <3>1. i + 1 \in 1..k /\ i + 1 \in 1..N /\ (i + 1) - 1 = i
        OBVIOUS
      <3>2. h[i + 1] = h[i] \o ts[i + 1]
        BY <2>2, <2>3, <3>1 DEF Flattening
      <3>3. f[i + 1] = f[i] \o ss[i + 1]
        BY <1>4, <1>5, <3>1 DEF Flattening
      <3>4. h[i] = f[i] /\ ts[i + 1] = ss[i + 1]
        BY <2>2, <2>5, <3>1
      <3>5. h[i + 1] = f[i + 1]
        BY <3>2, <3>3, <3>4, Zenon
      <3>. QED
        BY <3>1, <3>5
    <2>6. 0..k \subseteq G
      <3>. HIDE DEF G
      <3>. QED
        BY <2>4, <2>5, BoundedInduction
    <2>. QED
      BY <2>1, <2>2, <2>3, <2>6
  <1>. QED
    BY <1>1, <1>4, <1>5, <1>6

\* Where the first k sequences of ss end, when ss is flattened.
Offset(ss, k) == Len(FlattenSeq(SubSeq(ss, 1, k)))

\* Every sequence is found where those before it end.
LEMMA FlattenPlaces ==
    ASSUME NEW S, NEW ss, ss \in Seq(Seq(S))
    PROVE  /\ FlattenSeq(ss) \in Seq(S)
           /\ Offset(ss, 0) = 0
           /\ Offset(ss, Len(ss)) = Len(FlattenSeq(ss))
           /\ \A k \in 0..Len(ss) : Offset(ss, k) \in 0..Len(FlattenSeq(ss))
           /\ \A k \in 1..Len(ss) :
                 /\ Offset(ss, k) = Offset(ss, k - 1) + Len(ss[k])
                 /\ \A j \in 1..Len(ss[k]) : FlattenSeq(ss)[Offset(ss, k - 1) + j] = ss[k][j]
  <1>1. PICK f : /\ Flattening(f, Seq(S), ss)
                 /\ FlattenSeq(ss) = f[Len(ss)]
                 /\ \A k \in 0..Len(ss) : FlattenSeq(SubSeq(ss, 1, k)) = f[k]
    BY FlattenFirst
  <1>2. PICK N \in Nat : N = Len(ss)
    OBVIOUS
  <1>3. /\ \A k \in 0..N : f[k] \in Seq(S) /\ Offset(ss, k) = Len(f[k]) /\ Len(f[k]) \in Nat
        /\ f[0] = <<>>
        /\ \A k \in 1..N : f[k] = f[k - 1] \o ss[k]
        /\ \A k \in 1..N : ss[k] \in Seq(S)
    <2>1. \A k \in 0..N : f[k] \in Seq(S)
      BY <1>1, <1>2 DEF Flattening
    <2>2. \A k \in 0..N : Offset(ss, k) = Len(f[k]) /\ Len(f[k]) \in Nat
      BY <1>1, <1>2, <2>1 DEF Offset
    <2>3. f[0] = <<>> /\ \A k \in 1..N : f[k] = f[k - 1] \o ss[k]
      BY <1>1, <1>2 DEF Flattening
    <2>4. \A k \in 1..N : ss[k] \in Seq(S)
      BY <1>2
    <2>. QED
      BY <2>1, <2>2, <2>3, <2>4
  <1>4. ASSUME NEW k \in 1..N
        PROVE  /\ Len(f[k]) = Len(f[k - 1]) + Len(ss[k])
               /\ \A j \in 1..Len(f[k - 1]) : f[k][j] = f[k - 1][j]
               /\ \A j \in 1..Len(ss[k]) : f[k][Len(f[k - 1]) + j] = ss[k][j]
    <2>1. PICK a \in Seq(S) : a = f[k - 1]
      BY <1>3
    <2>2. PICK b \in Seq(S) : b = ss[k]
      BY <1>3
    <2>3. f[k] = a \o b
      BY <1>3, <2>1, <2>2
    <2>4. Len(a) \in Nat /\ Len(b) \in Nat
      OBVIOUS
    <2>5. /\ Len(a \o b) = Len(a) + Len(b)
          /\ \A i \in 1..(Len(a) + Len(b)) : (a \o b)[i] = IF i <= Len(a) THEN a[i] ELSE b[i - Len(a)]
      BY ConcatProperties
    <2>6. \A j \in 1..Len(a) : (a \o b)[j] = a[j]
      BY <2>4, <2>5
    <2>7. ASSUME NEW j \in 1..Len(b) PROVE (a \o b)[Len(a) + j] = b[j]
      <3>1. Len(a) + j \in 1..(Len(a) + Len(b)) /\ ~(Len(a) + j <= Len(a)) /\ (Len(a) + j) - Len(a) = j
        BY <2>4
      <3>. QED
        BY <2>5, <3>1
    <2>. QED
      BY <2>1, <2>2, <2>3, <2>5, <2>6, <2>7
  <1>5. ASSUME NEW k \in 0..N
        PROVE  Len(f[k]) <= Len(f[N]) /\ \A j \in 1..Len(f[k]) : f[N][j] = f[k][j]
    <2>. DEFINE G == {d \in 0..(N - k) : /\ Len(f[k]) <= Len(f[k + d])
                                         /\ \A j \in 1..Len(f[k]) : f[k + d][j] = f[k][j]}
    <2>1. 0 \in G
      BY <1>3
    <2>2. ASSUME NEW d \in 0..((N - k) - 1), d \in G PROVE d + 1 \in G
      <3>1. PICK e \in 1..N : e = k + (d + 1) /\ e - 1 = k + d
        OBVIOUS
      <3>2. /\ Len(f[e]) = Len(f[e - 1]) + Len(ss[e])
            /\ \A j \in 1..Len(f[e - 1]) : f[e][j] = f[e - 1][j]
        BY <1>4
      <3>3. Len(f[e]) \in Nat /\ Len(f[e - 1]) \in Nat /\ Len(ss[e]) \in Nat /\ Len(f[k]) \in Nat
        BY <1>3
      <3>4. Len(f[k]) <= Len(f[e - 1]) /\ \A j \in 1..Len(f[k]) : f[e - 1][j] = f[k][j]
        BY <2>2, <3>1
      <3>5. Len(f[k]) <= Len(f[e])
        <4>1. ASSUME NEW a \in Nat, NEW b \in Nat, NEW c \in Nat, c <= a PROVE c <= a + b
          BY <4>1
        <4>. QED
          BY <3>2, <3>3, <3>4, <4>1
      <3>6. ASSUME NEW j \in 1..Len(f[k]) PROVE f[e][j] = f[k][j]
        <4>1. j \in 1..Len(f[e - 1])
          BY <3>3, <3>4
        <4>2. f[e][j] = f[e - 1][j]
          BY <3>2, <4>1, Zenon
        <4>3. f[e - 1][j] = f[k][j]
          BY <3>4, Zenon
        <4>. QED
          BY <4>2, <4>3, Zenon
      <3>7. d + 1 \in 0..(N - k) /\ k + (d + 1) = e
        BY <3>1
      <3>. QED
        BY <3>5, <3>6, <3>7
    <2>3. 0..(N - k) \subseteq G
      <3>1. N - k \in Nat
        OBVIOUS
      <3>. HIDE DEF G
      <3>. QED
        BY <2>1, <2>2, <3>1, BoundedInduction
    <2>4. N - k \in 0..(N - k) /\ k + (N - k) = N
      OBVIOUS
    <2>5. N - k \in G
      <3>. HIDE DEF G
      <3>. QED
        BY <2>3, <2>4
    <2>. QED
      BY <2>4, <2>5
  <1>6. FlattenSeq(ss) = f[N] /\ N \in 0..N /\ 0 \in 0..N
    BY <1>1, <1>2
  <1>7. ASSUME NEW k \in 1..N
        PROVE  /\ Offset(ss, k) = Offset(ss, k - 1) + Len(ss[k])
               /\ \A j \in 1..Len(ss[k]) : FlattenSeq(ss)[Offset(ss, k - 1) + j] = ss[k][j]
    <2>1. k - 1 \in 0..N /\ k \in 0..N
      OBVIOUS
    <2>2. Offset(ss, k) = Len(f[k]) /\ Offset(ss, k - 1) = Len(f[k - 1])
      BY <1>3, <2>1
    <2>3. ASSUME NEW j \in 1..Len(ss[k])
          PROVE  f[N][Len(f[k - 1]) + j] = ss[k][j]
      <3>1. Len(f[k - 1]) \in Nat /\ Len(ss[k]) \in Nat
        BY <1>3, <2>1, SMTT(30)
      <3>2. Len(f[k - 1]) + j \in 1..Len(f[k])
        <4>1. Len(f[k]) = Len(f[k - 1]) + Len(ss[k])
          BY <1>4
        <4>2. ASSUME NEW a \in Nat, NEW b \in Nat, j \in 1..b PROVE a + j \in 1..(a + b)
          BY <4>2
        <4>. QED
          BY <3>1, <4>1, <4>2
      <3>3. f[N][Len(f[k - 1]) + j] = f[k][Len(f[k - 1]) + j]
        BY <1>5, <2>1, <3>2
      <3>. QED
        BY <1>4, <3>3
    <2>. QED
      BY <1>4, <1>6, <2>2, <2>3
  <1>8. \A k \in 0..N : Offset(ss, k) \in 0..Len(f[N])
    BY <1>3, <1>5, <1>6, SMTT(30)
  <1>9. Offset(ss, 0) = 0 /\ Offset(ss, N) = Len(f[N])
    BY <1>3, <1>6
  <1>. QED
    BY <1>2, <1>3, <1>6, <1>7, <1>8, <1>9

\* A prefix is made of what its sequence is made of.
LEMMA PrefixOf ==
    ASSUME NEW S, NEW s, s \in Seq(S), NEW p, p \in Prefixes(s)
    PROVE  p \in Seq(S) /\ Len(p) \in 0..Len(s) /\ \A i \in 1..Len(p) : p[i] = s[i]
  <1>1. PICK m \in 0..Len(s) : p = SubSeq(s, 1, m)
    BY DEF Prefixes
  <1>2. \A i \in 1..m : s[i] \in S
    OBVIOUS
  <1>3. /\ p \in Seq(S) /\ Len(p) = IF 1 <= m THEN m - 1 + 1 ELSE 0
        /\ \A i \in 1..(m - 1 + 1) : p[i] = s[1 + i - 1]
    BY <1>1, <1>2, SubSeqProperties
  <1>. QED
    BY <1>1, <1>3

\* The nodes of a field and of an element.
LEMMA FieldIn ==
    ASSUME NEW T, NEW V, 0 \in V, NEW tag, tag \in T,
           NEW value, value \in V \cup {SelfClosed, Hollow}
    PROVE  Field(tag, value) \in Seq(NodesOf(T, V))
  <1>. DEFINE Nodes == NodesOf(T, V)
  <1>1. /\ Node(tag, "empty", 0) \in Nodes
        /\ Node(tag, "start", 0) \in Nodes
        /\ Node(tag, "end", 0) \in Nodes
    BY DEF Node, NodesOf
  <1>2. CASE value = SelfClosed
    <2>1. Field(tag, value) = <<Node(tag, "empty", 0)>>
      BY <1>2 DEF Field, SelfClosed, Hollow
    <2>. HIDE DEF Nodes
    <2>. QED
      BY <1>1, <2>1 DEF Nodes
  <1>3. CASE value # SelfClosed /\ value = Hollow
    <2>1. Field(tag, value) = <<Node(tag, "start", 0), Node(tag, "end", 0)>>
      BY <1>3 DEF Field, SelfClosed, Hollow
    <2>. HIDE DEF Nodes
    <2>. QED
      BY <1>1, <2>1 DEF Nodes
  <1>4. CASE value # SelfClosed /\ value # Hollow
    <2>1. Field(tag, value) =
             <<Node(tag, "start", 0), Node("#text", "text", value), Node(tag, "end", 0)>>
      BY <1>4 DEF Field
    <2>2. Node("#text", "text", value) \in Nodes
      BY <1>4 DEF Node, NodesOf
    <2>. HIDE DEF Nodes
    <2>. QED
      BY <1>1, <2>1, <2>2 DEF Nodes
  <1>. QED
    BY <1>2, <1>3, <1>4

\* (an element around parts)
LEMMA ElementIn ==
    ASSUME NEW T, NEW V, NEW tag, tag \in T, NEW id, id \in V,
           NEW parts, parts \in Seq(Seq(NodesOf(T, V)))
    PROVE  Element(tag, id, parts) \in Seq(NodesOf(T, V))
  <1>. DEFINE Nodes == NodesOf(T, V)
  <1>1. Node(tag, "start", id) \in Nodes /\ Node(tag, "end", id) \in Nodes
    BY DEF Node, NodesOf
  <1>2. PICK W : W = Seq(Nodes)
    OBVIOUS
  <1>. HIDE DEF Nodes
  <1>3. FlattenSeq(parts) \in W
    <2>1. W \subseteq Seq(Nodes) /\ parts \in Seq(W) /\ <<>> \in W
      BY <1>2 DEF Nodes
    <2>2. \A a, b \in W : a \o b \in W
      BY <1>2
    <2>. QED
      BY <2>1, <2>2, FlattenIn
  <1>4. PICK inner \in Seq(Nodes) : inner = FlattenSeq(parts)
    BY <1>2, <1>3
  <1>5. Element(tag, id, parts) = <<Node(tag, "start", id)>> \o inner \o <<Node(tag, "end", id)>>
    BY <1>4 DEF Element
  <1>. QED
    BY <1>1, <1>5 DEF Nodes

\* An element has its parts, put together, between its two ends.
LEMMA ElementIs ==
    ASSUME NEW S, NEW tag, NEW id, NEW parts, parts \in Seq(Seq(S)),
           Node(tag, "start", id) \in S, Node(tag, "end", id) \in S
    PROVE  /\ Element(tag, id, parts) \in Seq(S)
           /\ FlattenSeq(parts) \in Seq(S)
           /\ Len(Element(tag, id, parts)) = Len(FlattenSeq(parts)) + 2
           /\ Element(tag, id, parts)[1] = Node(tag, "start", id)
           /\ Element(tag, id, parts)[Len(FlattenSeq(parts)) + 2] = Node(tag, "end", id)
           /\ \A p \in 1..Len(FlattenSeq(parts)) :
                 Element(tag, id, parts)[1 + p] = FlattenSeq(parts)[p]
  <1>1. PICK inner \in Seq(S) : inner = FlattenSeq(parts)
    BY FlattenPlaces
  <1>2. PICK a \in S : a = Node(tag, "start", id)
    OBVIOUS
  <1>3. PICK b \in S : b = Node(tag, "end", id)
    OBVIOUS
  <1>4. PICK e : e = <<a>> \o inner \o <<b>>
    OBVIOUS
  <1>5. Element(tag, id, parts) = e
    BY <1>1, <1>2, <1>3, <1>4 DEF Element
  <1>6. /\ e \in Seq(S) /\ Len(e) = Len(inner) + 2
        /\ e[1] = a /\ e[Len(inner) + 2] = b
        /\ \A p \in 1..Len(inner) : e[1 + p] = inner[p]
    <2>1. <<a>> \in Seq(S) /\ <<a>> \o inner \in Seq(S)
      OBVIOUS
    <2>2. PICK front \in Seq(S) : front = <<a>> \o inner
      BY <2>1
    <2>3. Len(front) = Len(inner) + 1 /\ front[1] = a
      BY <2>2
    <2>4. \A p \in 1..Len(inner) : front[1 + p] = inner[p]
      BY <2>2
    <2>5. e = front \o <<b>>
      BY <1>4, <2>2
    <2>6. e \in Seq(S) /\ Len(e) = Len(inner) + 2 /\ e[Len(inner) + 2] = b
      BY <2>3, <2>5
    <2>7. \A i \in 1..(Len(inner) + 1) : e[i] = front[i]
      BY <2>3, <2>5
    <2>. QED
      BY <2>3, <2>4, <2>6, <2>7
  <1>. QED
    BY <1>1, <1>2, <1>3, <1>5, <1>6

\* get_tag_value leaves the reader inside the message, with a value of a node.
LEMMA GetTagValueIn ==
    ASSUME NEW T, NEW V, 0 \in V, NEW doc, doc \in Seq(NodesOf(T, V)),
           NEW k, k \in 1..Len(doc), NEW tag, NEW old
    PROVE  /\ GetTagValue(doc, k, tag, old).at \in k..Len(doc)
           /\ GetTagValue(doc, k, tag, old).at \in {k, k + 1, k + 2}
           /\ GetTagValue(doc, k, tag, old).value \in V \cup {old}
  <1>1. PICK l \in Nat : l = Len(doc)
    OBVIOUS
  <1>2. CASE k + 1 > l
    BY <1>1, <1>2 DEF GetTagValue
  <1>3. CASE k + 1 <= l
    <2>1. k + 1 \in 1..l /\ ~(k + 1 > l)
      BY <1>1, <1>3
    <2>2. doc[k + 1].value \in V
      <3>1. doc[k + 1] \in NodesOf(T, V)
        BY <1>1, <2>1
      <3>. QED
        BY <3>1 DEF NodesOf
    <2>3. CASE doc[k + 1].tag = tag
      BY <1>1, <2>1, <2>3 DEF GetTagValue
    <2>4. CASE doc[k + 1].tag # tag
      BY <1>1, <2>1, <2>2, <2>4 DEF GetTagValue
    <2>. QED
      BY <2>3, <2>4
  <1>. QED
    BY <1>1, <1>2, <1>3

-----------------------------------------------------------------------------
(* The log the reader sees.                                                *)

\* From one list of records to the next as SortedLog goes, or not at all.
LogStep(E, s, t) ==
    \/ t = s
    \/ s # <<>> /\ t = Tail(s)
    \/ \E r \in E : \E n \in 0..Len(s) :
          /\ \A m \in 1..n : Key(s[m]) <= Key(r)
          /\ n < Len(s) => Key(s[n + 1]) > Key(r)
          /\ t = Inserted(s, n, r)

\* Freeing the head is such a step, of the records or of a part of each, ...
LEMMA TailLogStep ==
    ASSUME NEW E, NEW rc \in [Cells -> E], NEW cs, cs \in Seq(Cells), cs # <<>>
    PROVE  LogStep(E, RecordsOf(cs, rc), RecordsOf(Tail(cs), rc))
  BY TailRecords DEF LogStep

\* ... and so is linking an entry in where its key belongs.
LEMMA LinkLogStep ==
    ASSUME NEW E, NEW rc, rc \in [Cells -> E], NEW cs, cs \in Seq(Cells), NEW e, e \in Cells,
           NEW n, n \in 0..Len(cs),
           \A m \in 1..n : Key(rc[cs[m]]) <= Key(rc[e]),
           n < Len(cs) => Key(rc[cs[n + 1]]) > Key(rc[e])
    PROVE  LogStep(E, RecordsOf(cs, rc), RecordsOf(Inserted(cs, n, e), rc))
  <1>1. PICK l \in Nat : l = Len(cs)
    OBVIOUS
  <1>2. PICK s : s = RecordsOf(cs, rc)
    OBVIOUS
  <1>3. Len(s) = l /\ \A i \in 1..l : s[i] = rc[cs[i]]
    <2>1. DOMAIN cs = 1..l /\ \A i \in 1..l : cs[i] \in Cells
      BY <1>1
    <2>2. s = [i \in 1..l |-> rc[cs[i]]]
      BY <1>2, <2>1 DEF RecordsOf
    <2>3. \A i \in 1..l : rc[cs[i]] \in E
      BY <2>1
    <2>. QED
      BY <1>1, <2>2, <2>3
  <1>4. RecordsOf(Inserted(cs, n, e), rc) = Inserted(s, n, rc[e])
    BY <1>2, InsertedRecords
  <1>5. rc[e] \in E
    OBVIOUS
  <1>6. ASSUME NEW m \in 1..n PROVE Key(s[m]) <= Key(rc[e])
    <2>1. m \in 1..l
      BY <1>1
    <2>. QED
      BY <1>3, <2>1
  <1>7. n < Len(s) => Key(s[n + 1]) > Key(rc[e])
    <2>1. n < l => n + 1 \in 1..l
      BY <1>1
    <2>. QED
      BY <1>1, <1>3, <2>1
  <1>8. n \in 0..Len(s)
    BY <1>1, <1>3
  <1>. QED
    BY <1>2, <1>4, <1>5, <1>6, <1>7, <1>8 DEF LogStep

\* What is made of some nodes is made of more.
LEMMA SeqMono ==
    ASSUME NEW A, NEW B, A \subseteq B, NEW s, s \in Seq(A)
    PROVE  s \in Seq(B)
  <1>1. PICK l \in Nat : l = Len(s)
    OBVIOUS
  <1>2. s = [i \in 1..l |-> s[i]] /\ \A i \in 1..l : s[i] \in B
    BY <1>1
  <1>3. [i \in 1..l |-> s[i]] \in Seq(B)
    BY <1>2
  <1>. QED
    BY <1>2, <1>3

-----------------------------------------------------------------------------
(* The list as a sorting of what was reported.                             *)

\* Nothing sorts nothing.
LEMMA SortsNothing ==
    ASSUME NEW t, DOMAIN t = {}
    PROVE  Sorts(<<>>, t)
  <1>1. PICK place : place = [m \in {} |-> 0]
    OBVIOUS
  <1>2. DOMAIN <<>> = {}
    OBVIOUS
  <1>3. place \in Bijection({}, {})
    BY <1>1 DEF Bijection, Injection, Surjection, IsInjective
  <1>. QED
    BY <1>2, <1>3 DEF Sorts

\* A list that sorts t, with an entry put after those whose key is not greater and
\* before one whose key is, sorts t followed by that entry.
LEMMA SortsInserted ==
    ASSUME NEW s, s \in Seq(Entries), NEW K \in Nat, NEW t, NEW u,
           DOMAIN t = 1..K, DOMAIN u = 1..(K + 1),
           \A m \in 1..K : t[m] \in Entries /\ u[m] = t[m],
           NEW x \in Entries, u[K + 1] = x,
           NEW p, p \in 0..Len(s),
           \A m \in 1..p : Key(s[m]) <= Key(x),
           p < Len(s) => Key(s[p + 1]) > Key(x),
           Sorts(s, t)
    PROVE  Sorts(Inserted(s, p, x), u)
  <1>1. PICK L \in Nat : L = Len(s)
    OBVIOUS
  <1>2. DOMAIN s = 1..L /\ \A a \in 1..L : s[a] \in Entries
    BY <1>1
  <1>3. PICK place \in Bijection(1..K, 1..L) :
           \A m, n \in 1..K :
               /\ s[place[m]] = t[m]
               /\ m < n => (place[m] < place[n] <=> Key(t[m]) <= Key(t[n]))
    BY <1>2 DEF Sorts
  <1>4. /\ place \in [1..K -> 1..L]
        /\ \A m, n \in 1..K : place[m] = place[n] => m = n
        /\ \A a \in 1..L : \E m \in 1..K : place[m] = a
    BY <1>3 DEF Bijection, Injection, Surjection, IsInjective
  <1>5. /\ \A a \in 1..L : Key(s[a]) \in Int
        /\ \A m \in 1..K : Key(t[m]) \in Int
        /\ Key(x) \in Int
    <2>1. \A e \in Entries : Key(e) \in Int
      BY CellAssumption DEF Entries, Key
    <2>. QED
      BY <1>2, <2>1
  <1>6. ASSUME NEW a \in 1..L, NEW b \in 1..L, a < b PROVE Key(s[a]) <= Key(s[b])
    <2>1. PICK m \in 1..K, n \in 1..K : place[m] = a /\ place[n] = b
      BY <1>4
    <2>2. Key(s[a]) = Key(t[m]) /\ Key(s[b]) = Key(t[n]) /\ m # n
      BY <1>3, <1>6, <2>1
    <2>3. CASE m < n
      BY <1>3, <1>6, <2>1, <2>2, <2>3
    <2>4. CASE n < m
      <3>1. ~(Key(t[n]) <= Key(t[m]))
        BY <1>3, <1>6, <2>1, <2>4
      <3>. QED
        BY <1>5, <2>2, <3>1
    <2>. QED
      BY <2>2, <2>3, <2>4
  <1>7. \A a \in 1..L : IF a <= p THEN Key(s[a]) <= Key(x) ELSE Key(s[a]) > Key(x)
    <2>1. ASSUME NEW a \in 1..L, a <= p PROVE Key(s[a]) <= Key(x)
      <3>1. a \in 1..p
        BY <1>1, <2>1
      <3>. QED
        BY <3>1
    <2>2. ASSUME NEW a \in 1..L, p < a PROVE Key(s[a]) > Key(x)
      <3>1. p + 1 \in 1..L /\ Key(s[p + 1]) > Key(x)
        BY <1>1, <2>2
      <3>2. CASE a = p + 1
        BY <3>1, <3>2
      <3>3. CASE p + 1 < a
        <4>1. Key(s[p + 1]) <= Key(s[a])
          BY <1>6, <3>1, <3>3
        <4>. QED
          BY <1>5, <3>1, <4>1
      <3>. QED
        BY <1>1, <2>2, <3>2, <3>3
    <2>. QED
      BY <1>1, <2>1, <2>2
  <1>. PICK r : r = Inserted(s, p, x)
    OBVIOUS
  <1>8. /\ DOMAIN r = 1..(L + 1)
        /\ \A i \in 1..(L + 1) : r[i] = IF i <= p THEN s[i] ELSE IF i = p + 1 THEN x ELSE s[i - 1]
    <2>1. IsInserted(r, Entries, s, p, x)
      BY InsertedPlaces
    <2>. QED
      BY <1>1, <2>1 DEF IsInserted
  <1>. DEFINE moved == [m \in 1..(K + 1) |-> IF m = K + 1 THEN p + 1
                                             ELSE IF place[m] <= p THEN place[m]
                                             ELSE place[m] + 1]
  <1>9. /\ moved[K + 1] = p + 1
        /\ \A m \in 1..K : moved[m] = IF place[m] <= p THEN place[m] ELSE place[m] + 1
    OBVIOUS
  <1>10. moved \in [1..(K + 1) -> 1..(L + 1)]
    BY <1>1, <1>4
  <1>. HIDE DEF moved
  <1>11. ASSUME NEW m \in 1..(K + 1), NEW n \in 1..(K + 1), moved[m] = moved[n] PROVE m = n
    <2>1. \A l \in 1..K : place[l] \in 1..L /\ (moved[l] <= p <=> place[l] <= p) /\ moved[l] # p + 1
      <3>1. \A l \in 1..K : place[l] \in 1..L
        BY <1>4
      <3>. QED
        BY <1>1, <1>9, <3>1
    <2>2. CASE m = K + 1 \/ n = K + 1
      BY <1>9, <1>11, <2>1, <2>2
    <2>3. CASE m \in 1..K /\ n \in 1..K
      <3>1. place[m] = place[n]
        BY <1>1, <1>9, <1>11, <2>1, <2>3
      <3>. QED
        BY <1>4, <2>3, <3>1
    <2>. QED
      BY <2>2, <2>3
  <1>12. ASSUME NEW a \in 1..(L + 1) PROVE \E m \in 1..(K + 1) : moved[m] = a
    <2>1. CASE a = p + 1
      BY <1>9, <2>1
    <2>2. CASE a <= p
      <3>1. a \in 1..L
        BY <1>1, <2>2
      <3>2. PICK m \in 1..K : place[m] = a
        BY <1>4, <3>1
      <3>. QED
        BY <1>9, <2>2, <3>2
    <2>3. CASE a > p + 1
      <3>1. a - 1 \in 1..L /\ ~(a - 1 <= p)
        BY <1>1, <2>3
      <3>2. PICK m \in 1..K : place[m] = a - 1
        BY <1>4, <3>1
      <3>. QED
        BY <1>9, <3>1, <3>2
    <2>. QED
      BY <1>1, <2>1, <2>2, <2>3
  <1>13. moved \in Bijection(1..(K + 1), 1..(L + 1))
    BY <1>10, <1>11, <1>12 DEF Bijection, Injection, Surjection, IsInjective
  <1>14. ASSUME NEW m \in 1..(K + 1) PROVE r[moved[m]] = u[m]
    <2>1. CASE m = K + 1
      <3>1. p + 1 \in 1..(L + 1) /\ ~(p + 1 <= p)
        BY <1>1
      <3>. QED
        BY <1>8, <1>9, <2>1, <3>1
    <2>2. CASE m \in 1..K
      <3>1. u[m] = s[place[m]] /\ place[m] \in 1..L
        BY <1>3, <1>4, <2>2
      <3>2. CASE place[m] <= p
        <4>1. moved[m] = place[m] /\ place[m] \in 1..(L + 1)
          BY <1>9, <2>2, <3>1, <3>2
        <4>. QED
          BY <1>8, <3>1, <3>2, <4>1
      <3>3. CASE ~(place[m] <= p)
        <4>1. /\ moved[m] = place[m] + 1 /\ place[m] + 1 \in 1..(L + 1)
              /\ ~(place[m] + 1 <= p) /\ place[m] + 1 # p + 1 /\ (place[m] + 1) - 1 = place[m]
          BY <1>1, <1>9, <2>2, <3>1, <3>3
        <4>. QED
          BY <1>8, <3>1, <4>1
      <3>. QED
        BY <3>2, <3>3
    <2>. QED
      BY <2>1, <2>2
  <1>15. ASSUME NEW m \in 1..(K + 1), NEW n \in 1..(K + 1), m < n
         PROVE  moved[m] < moved[n] <=> Key(u[m]) <= Key(u[n])
    <2>1. m \in 1..K /\ u[m] = t[m] /\ place[m] \in 1..L /\ s[place[m]] = t[m]
      <3>1. m \in 1..K
        BY <1>15
      <3>. QED
        BY <1>3, <1>4, <3>1
    <2>2. CASE n = K + 1
      <3>1. Key(u[n]) = Key(x) /\ moved[n] = p + 1
        BY <1>9, <2>2
      <3>2. place[m] <= p <=> Key(t[m]) <= Key(x)
        <4>1. IF place[m] <= p THEN Key(t[m]) <= Key(x) ELSE Key(t[m]) > Key(x)
          BY <1>7, <2>1
        <4>. QED
          BY <1>5, <2>1, <4>1
      <3>3. moved[m] < p + 1 <=> place[m] <= p
        BY <1>1, <1>9, <2>1
      <3>. QED
        BY <2>1, <3>1, <3>2, <3>3
    <2>3. CASE n \in 1..K
      <3>1. u[n] = t[n] /\ place[n] \in 1..L
        BY <1>4, <2>3
      <3>2. place[m] < place[n] <=> Key(t[m]) <= Key(t[n])
        BY <1>3, <1>15, <2>1, <2>3
      <3>3. moved[m] < moved[n] <=> place[m] < place[n]
        BY <1>1, <1>9, <2>1, <2>3, <3>1
      <3>. QED
        BY <2>1, <3>1, <3>2, <3>3
    <2>. QED
      BY <2>2, <2>3
  <1>. QED
    BY <1>8, <1>13, <1>14, <1>15 DEF Sorts

\* The nodes of s lie in the message m, after its first o.
Lies(m, o, s) == \A j \in 1..Len(s) : m[o + j] = s[j]

\* Where an element lies, its ends and its parts do.
LEMMA ElementLies ==
    ASSUME NEW S, NEW tag, NEW id, NEW parts, parts \in Seq(Seq(S)),
           Node(tag, "start", id) \in S, Node(tag, "end", id) \in S,
           NEW m, NEW o \in Nat, Lies(m, o, Element(tag, id, parts))
    PROVE  /\ m[o + 1] = Node(tag, "start", id)
           /\ m[o + 2 + Offset(parts, Len(parts))] = Node(tag, "end", id)
           /\ Len(Element(tag, id, parts)) = Offset(parts, Len(parts)) + 2
           /\ Offset(parts, 0) = 0
           /\ \A k \in 0..Len(parts) : Offset(parts, k) \in 0..Offset(parts, Len(parts))
           /\ \A k \in 1..Len(parts) :
                 /\ Offset(parts, k) = Offset(parts, k - 1) + Len(parts[k])
                 /\ Lies(m, o + 1 + Offset(parts, k - 1), parts[k])
  <1>1. PICK inner \in Seq(S) : inner = FlattenSeq(parts)
    BY FlattenPlaces
  <1>2. PICK L \in Nat : L = Len(inner)
    OBVIOUS
  <1>3. PICK N \in Nat : N = Len(parts)
    OBVIOUS
  <1>4. /\ Offset(parts, 0) = 0 /\ Offset(parts, N) = L
        /\ \A k \in 0..N : Offset(parts, k) \in 0..L
        /\ \A k \in 1..N :
              /\ Offset(parts, k) = Offset(parts, k - 1) + Len(parts[k])
              /\ \A j \in 1..Len(parts[k]) : inner[Offset(parts, k - 1) + j] = parts[k][j]
    <2>1. /\ Offset(parts, 0) = 0
          /\ Offset(parts, Len(parts)) = Len(FlattenSeq(parts))
          /\ \A k \in 0..Len(parts) : Offset(parts, k) \in 0..Len(FlattenSeq(parts))
          /\ \A k \in 1..Len(parts) :
                /\ Offset(parts, k) = Offset(parts, k - 1) + Len(parts[k])
                /\ \A j \in 1..Len(parts[k]) :
                      FlattenSeq(parts)[Offset(parts, k - 1) + j] = parts[k][j]
      <3>1. parts \in Seq(Seq(S))
        OBVIOUS
      <3>. QED
        BY ONLY <3>1, FlattenPlaces
    <2>. QED
      BY <1>1, <1>2, <1>3, <2>1
  <1>5. PICK e : e = Element(tag, id, parts)
    OBVIOUS
  <1>6. /\ Len(e) = L + 2 /\ e[1] = Node(tag, "start", id) /\ e[L + 2] = Node(tag, "end", id)
        /\ \A p \in 1..L : e[1 + p] = inner[p]
    BY <1>1, <1>2, <1>5, ElementIs
  <1>7. \A j \in 1..(L + 2) : m[o + j] = e[j]
    BY <1>5, <1>6 DEF Lies
  <1>8. m[o + 1] = Node(tag, "start", id) /\ m[o + (L + 2)] = Node(tag, "end", id)
    BY <1>6, <1>7
  <1>9. ASSUME NEW k \in 1..N PROVE Lies(m, o + 1 + Offset(parts, k - 1), parts[k])
    <2>1. k - 1 \in 0..N /\ k \in 0..N
      OBVIOUS
    <2>2. PICK a \in 0..L : a = Offset(parts, k - 1)
      BY <1>4, <2>1
    <2>3. PICK l \in Nat : l = Len(parts[k])
      <3>1. parts[k] \in Seq(S)
        BY <1>3
      <3>. QED
        BY <3>1
    <2>4. a + l \in 0..L
      BY <1>4, <2>1, <2>2, <2>3
    <2>5. ASSUME NEW j \in 1..l PROVE m[(o + 1 + a) + j] = parts[k][j]
      <3>1. a + j \in 1..L /\ 1 + (a + j) \in 1..(L + 2)
        BY <2>4
      <3>2. inner[a + j] = parts[k][j]
        BY <1>4, <2>2, <2>3
      <3>3. m[o + (1 + (a + j))] = inner[a + j]
        BY <1>6, <1>7, <3>1
      <3>4. (o + 1 + a) + j = o + (1 + (a + j))
        OBVIOUS
      <3>. QED
        BY <3>2, <3>3, <3>4
    <2>. QED
      BY <2>2, <2>3, <2>5 DEF Lies
  <1>10. m[o + 2 + Offset(parts, N)] = Node(tag, "end", id) /\ Len(e) = Offset(parts, N) + 2
    <2>1. o + (L + 2) = o + 2 + L
      BY <1>2
    <2>. QED
      BY ONLY <1>4, <1>6, <1>8, <2>1
  <1>11. \A k \in 0..N : Offset(parts, k) \in 0..Offset(parts, N)
    BY ONLY <1>4
  <1>12. \A k \in 1..N : /\ Offset(parts, k) = Offset(parts, k - 1) + Len(parts[k])
                         /\ Lies(m, o + 1 + Offset(parts, k - 1), parts[k])
    BY <1>4, <1>9
  <1>. QED
    BY ONLY <1>3, <1>4, <1>5, <1>8, <1>10, <1>11, <1>12

\* Reading a field that lies at f, where the l nodes of doc are what arrived: it is passed
\* whole, with its value, or the message breaks off in it.
Yields(doc, l, f, tag, value, old) ==
    /\ doc[f + 1] = Node(tag, "start", 0)
    /\ \/ /\ GetTagValue(doc, f + 1, tag, old).at = l /\ ~GetTagValue(doc, f + 1, tag, old).ok
          /\ l < f + Len(Field(tag, value))
       \/ GetTagValue(doc, f + 1, tag, old)
             = [at |-> f + Len(Field(tag, value)),
                value |-> IF value = Hollow THEN old ELSE value, ok |-> TRUE]

LEMMA FieldGiven ==
    ASSUME NEW doc, NEW l \in Nat, l = Len(doc), NEW answer, \A p \in 1..l : doc[p] = answer[p],
           NEW f \in Nat, f < l, NEW tag, tag # "#text", NEW value, NEW old,
           value = Hollow \/ value \in 1..MaxValue, Lies(answer, f, Field(tag, value))
    PROVE  Yields(doc, l, f, tag, value, old)
  <1>. USE DEF Yields
  <1>1. value # SelfClosed /\ (value \in 1..MaxValue => value # Hollow)
    BY CellAssumption DEF SelfClosed, Hollow
  <1>2. CASE value = Hollow
    <2>1. Field(tag, value) = <<Node(tag, "start", 0), Node(tag, "end", 0)>>
      BY <1>1, <1>2 DEF Field
    <2>2. Len(Field(tag, value)) = 2 /\ answer[f + 1] = Node(tag, "start", 0)
          /\ answer[f + 2] = Node(tag, "end", 0)
      BY <2>1 DEF Lies
    <2>3. f + 1 \in 1..l /\ doc[f + 1] = Node(tag, "start", 0)
      BY <2>2
    <2>4. CASE f + 1 = l
      BY <2>2, <2>3, <2>4 DEF GetTagValue
    <2>5. CASE f + 1 # l
      <3>1. f + 2 \in 1..l /\ (f + 1) + 1 = f + 2 /\ ~((f + 1) + 1 > Len(doc))
        BY <2>5
      <3>2. doc[(f + 1) + 1].tag = tag
        BY <2>2, <3>1 DEF Node
      <3>3. GetTagValue(doc, f + 1, tag, old) = [at |-> (f + 1) + 1, value |-> old, ok |-> TRUE]
        BY <3>1, <3>2 DEF GetTagValue
      <3>. QED
        BY <1>2, <2>2, <2>3, <3>1, <3>3
    <2>. QED
      BY <2>4, <2>5
  <1>3. CASE value \in 1..MaxValue
    <2>1. Field(tag, value) = <<Node(tag, "start", 0), Node("#text", "text", value), Node(tag, "end", 0)>>
      BY <1>1, <1>3 DEF Field
    <2>2. Len(Field(tag, value)) = 3 /\ answer[f + 1] = Node(tag, "start", 0)
          /\ answer[f + 2] = Node("#text", "text", value)
      BY <2>1 DEF Lies
    <2>3. f + 1 \in 1..l /\ doc[f + 1] = Node(tag, "start", 0)
      BY <2>2
    <2>4. CASE f + 1 = l
      BY <2>2, <2>3, <2>4 DEF GetTagValue
    <2>5. CASE f + 1 # l
      <3>1. f + 2 \in 1..l /\ (f + 1) + 1 = f + 2 /\ (f + 1) + 2 = f + 3 /\ ~((f + 1) + 1 > l)
        BY <2>5
      <3>2. doc[(f + 1) + 1] = Node("#text", "text", value)
        BY <2>2, <3>1
      <3>3. doc[(f + 1) + 1].tag # tag /\ doc[(f + 1) + 1].part = "text"
            /\ doc[(f + 1) + 1].value = value
        BY <3>2 DEF Node
      <3>4. GetTagValue(doc, f + 1, tag, old)
               = [at |-> IF f + 3 > l THEN f + 2 ELSE f + 3, value |-> value, ok |-> f + 3 <= l]
        BY <3>1, <3>3 DEF GetTagValue
      <3>5. CASE f + 3 > l
        <4>1. f + 2 = l /\ l < f + 3
          BY <3>1, <3>5
        <4>2. (f + 3 <= l) = FALSE
          BY <3>5
        <4>3. GetTagValue(doc, f + 1, tag, old) = [at |-> f + 2, value |-> value, ok |-> FALSE]
          <5>1. GetTagValue(doc, f + 1, tag, old) = [at |-> f + 2, value |-> value, ok |-> f + 3 <= l]
            BY <3>4, <3>5
          <5>. QED
            BY ONLY <5>1, <4>2, Zenon
        <4>. QED
          BY <2>2, <2>3, <4>1, <4>3
      <3>6. CASE ~(f + 3 > l)
        <4>1. f + 3 <= l
          BY <3>6
        <4>. QED
          BY <1>1, <1>3, <2>2, <2>3, <3>4, <3>6, <4>1
      <3>. QED
        BY <3>5, <3>6
    <2>. QED
      BY <2>4, <2>5
  <1>. QED
    BY <1>2, <1>3

\* Where equal entries are changed alike, and keep their keys, the order stays.
LEMMA SortsChanged ==
    ASSUME NEW s, NEW t, Sorts(s, t), NEW v, NEW w, DOMAIN v = DOMAIN s, DOMAIN w = DOMAIN t,
           \A i \in DOMAIN s, j \in DOMAIN t : s[i] = t[j] => v[i] = w[j],
           \A j \in DOMAIN t : Key(w[j]) = Key(t[j])
    PROVE  Sorts(v, w)
  <1>1. PICK place \in Bijection(DOMAIN t, DOMAIN s) :
           \A m, n \in DOMAIN t :
               /\ s[place[m]] = t[m]
               /\ m < n => (place[m] < place[n] <=> Key(t[m]) <= Key(t[n]))
    BY DEF Sorts
  <1>2. \A m \in DOMAIN t : place[m] \in DOMAIN s
    BY DEF Bijection, Injection
  <1>3. \A m \in DOMAIN t : v[place[m]] = w[m]
    BY <1>1, <1>2
  <1>. QED
    BY <1>1, <1>3 DEF Sorts

\* A set of numbers up to N has a greatest.
LEMMA MaxIs ==
    ASSUME NEW N \in Nat, NEW T, T \subseteq 1..N, T # {}
    PROVE  Max(T) \in T /\ \A y \in T : Max(T) >= y
  <1>. DEFINE D == {N - y : y \in T}
  <1>1. D \in SUBSET Nat /\ D # {}
    <2>1. \A y \in T : y \in Nat /\ N - y \in Nat
      OBVIOUS
    <2>2. PICK y : y \in T
      OBVIOUS
    <2>3. N - y \in D
      BY <2>2
    <2>. QED
      BY <2>1, <2>3
  <1>2. PICK z \in D : \A y \in D : z <= y
    BY <1>1, LeastNatural
  <1>3. PICK x \in T : z = N - x
    BY <1>2
  <1>4. ASSUME NEW y \in T PROVE x >= y
    <2>1. N - y \in D
      OBVIOUS
    <2>2. N - x <= N - y /\ x \in Int /\ y \in Int
      BY <1>2, <1>3, <2>1
    <2>. QED
      BY <2>2
  <1>5. \E m \in T : \A y \in T : m >= y
    BY <1>4
  <1>. QED
    BY <1>5 DEF Max
=============================================================================

---------------------------- MODULE LinkListProofs ----------------------------
(***************************************************************************)
(* Proofs about LinkList: both programs keep a list of nodes in memory and *)
(* are, within their limits, the sequence of numbers NumberList promises.  *)
(*                                                                         *)
(* A list is a chain: a sequence of different nodes, each with a link to   *)
(* the next.  The loops of the code walk over chains (ChainIsWalked), and  *)
(* what a loop walks over to its end is one (WalkedIsChain); what each     *)
(* operation makes of a chain is the rest.                                 *)
(***************************************************************************)
EXTENDS LinkList, FiniteSetTheorems, SequenceTheorems, WellFoundedInduction, TLAPS

Size == Cardinality(Cells)

\* A set of naturals that is not empty has a least one.
LEMMA LeastNatural ==
    ASSUME NEW T \in SUBSET Nat, T # {}
    PROVE  \E n \in T : \A m \in T : n <= m
  <1>. DEFINE R == OpToRel(<, Nat)
  <1>1. IsWellFoundedOn(R, Nat)
    BY NatLessThanWellFounded
  <1>2. \A x, y \in Nat : x < y => <<x, y>> \in R
    BY DEF OpToRel
  <1>. HIDE DEF R
  <1>3. \E x \in T : \A y \in T : ~(<<y, x>> \in R)
    BY <1>1, WFMin
  <1>4. PICK n \in T : \A y \in T : ~(<<y, n>> \in R)
    BY <1>3
  <1>5. ASSUME NEW m \in T PROVE n <= m
    <2>1. n \in Nat /\ m \in Nat
      OBVIOUS
    <2>2. ~(m < n)
      BY <1>2, <1>4, <2>1, Zenon
    <2>. QED
      BY <2>1, <2>2
  <1>. QED
    BY <1>4, <1>5

\* A set that has a number, and with each below a bound its successor, has all
\* from the one to the other.
LEMMA Upwards ==
    ASSUME NEW a \in Nat, NEW b \in Nat, NEW S, a \in S,
           \A n \in a..(b - 1) : n \in S => n + 1 \in S
    PROVE  a..b \subseteq S
  <1>. DEFINE T == {n \in a..b : n \notin S}
  <1>. SUFFICES ASSUME T # {} PROVE FALSE
    OBVIOUS
  <1>1. T \in SUBSET Nat
    OBVIOUS
  <1>2. PICK n \in T : \A m \in T : n <= m
    <2>. HIDE DEF T
    <2>. QED
      BY <1>1, LeastNatural
  <1>3. n \in Nat /\ n # a /\ n - 1 \in a..(b - 1) /\ n - 1 \in a..b
    OBVIOUS
  <1>4. n - 1 \in S
    BY <1>2, <1>3
  <1>5. (n - 1) + 1 \in S
    BY <1>3, <1>4
  <1>. QED
    BY <1>3, <1>5

LEMMA SizeIsNatural == Size \in Nat /\ Pointer = Cells \cup {Null, Wild}
  BY CellAssumption, FS_CardinalityType DEF Size, Pointer

--------------------------------------------------------------------------
(* Walks.                                                                  *)

\* The pointers a loop meets.
Step(m, link, p) == IF p \in m.live THEN link[p] ELSE p
IsWalk(at, m, link, p) ==
    /\ at \in [0..Size -> Pointer]
    /\ at[0] = p
    /\ \A n \in 1..Size : at[n] = Step(m, link, at[n - 1])

\* There are some, upto any number.
LEMMA WalkExists ==
    ASSUME NEW m, m.live \subseteq Cells, NEW link \in [Cells -> Pointer],
           NEW p \in Pointer
    PROVE  \E at : IsWalk(at, m, link, p)
  <1>. DEFINE Upto(n, at) == /\ at \in [0..Size -> Pointer]
                             /\ at[0] = p
                             /\ \A k \in 1..n : at[k] = Step(m, link, at[k - 1])
              S == {n \in Nat : n <= Size => \E at : Upto(n, at)}
  <1>1. Size \in Nat
    BY SizeIsNatural
  <1>2. 0 \in S
    <2>1. Upto(0, [k \in 0..Size |-> p])
      BY <1>1
    <2>. QED
      BY <2>1
  <1>3. ASSUME NEW n \in 0..(Size - 1), n \in S PROVE n + 1 \in S
    <2>1. n \in Nat /\ n <= Size /\ n + 1 \in Nat
      BY <1>1, <1>3
    <2>2. PICK at : Upto(n, at)
      BY <1>3, <2>1
    <2>. DEFINE q == Step(m, link, at[n])
                next1 == [k \in 0..Size |-> IF k = n + 1 THEN q ELSE at[k]]
    <2>3. at[n] \in Pointer
      BY <1>1, <2>2
    <2>4. q \in Pointer
      BY <2>3 DEF Step
    <2>. HIDE DEF q
    <2>5. next1 \in [0..Size -> Pointer]
      BY <2>2, <2>4
    <2>6. next1[0] = p
      BY <1>1, <2>1, <2>2
    <2>7. ASSUME NEW k \in 1..(n + 1) PROVE next1[k] = Step(m, link, next1[k - 1])
      <3>1. k \in 0..Size /\ k - 1 \in 0..Size /\ k - 1 # n + 1
        BY <1>1, <1>3
      <3>2. next1[k - 1] = at[k - 1]
        BY <3>1
      <3>3. CASE k = n + 1
        <4>1. k - 1 = n /\ next1[k] = q
          BY <3>1, <3>3
        <4>. HIDE DEF next1
        <4>. QED
          BY <3>2, <4>1 DEF q
      <3>4. CASE k # n + 1
        <4>1. k \in 1..n /\ next1[k] = at[k]
          BY <3>1, <3>4
        <4>. HIDE DEF next1
        <4>. QED
          BY <2>2, <3>2, <4>1
      <3>. QED
        BY <3>3, <3>4
    <2>. HIDE DEF next1
    <2>8. Upto(n + 1, next1)
      BY <2>5, <2>6, <2>7
    <2>. HIDE DEF Upto
    <2>. QED
      BY <2>1, <2>8
  <1>4. Size \in S
    <2>. HIDE DEF S
    <2>1. 0..Size \subseteq S
      BY <1>1, <1>2, <1>3, Upwards
    <2>. QED
      BY <1>1, <2>1
  <1>. QED
    BY <1>1, <1>4 DEF IsWalk

LEMMA WalkIsWalk ==
    ASSUME NEW m, m.live \subseteq Cells, NEW link \in [Cells -> Pointer],
           NEW p \in Pointer
    PROVE  IsWalk(Walk(m, link, p), m, link, p)
  <1>. DEFINE Body(f, n) == IF n = 0 THEN p
                            ELSE IF f[n - 1] \in m.live THEN link[f[n - 1]] ELSE f[n - 1]
              g == CHOOSE f : f = [n \in 0..Size |-> Body(f, n)]
  <1>1. Size \in Nat
    BY SizeIsNatural
  <1>2. PICK at : IsWalk(at, m, link, p)
    BY WalkExists
  <1>3. at = [n \in 0..Size |-> Body(at, n)]
    <2>1. ASSUME NEW n \in 0..Size PROVE at[n] = Body(at, n)
      <3>1. CASE n = 0
        BY <1>2, <3>1 DEF IsWalk
      <3>2. CASE n # 0
        <4>1. n \in 1..Size
          BY <1>1, <3>2
        <4>. QED
          BY <1>2, <3>2, <4>1 DEF IsWalk, Step
      <3>. QED
        BY <3>1, <3>2
    <2>. HIDE DEF Body
    <2>. QED
      BY <1>2, <2>1 DEF IsWalk
  <1>4. g = [n \in 0..Size |-> Body(g, n)]
    <2>. HIDE DEF Body
    <2>. QED
      BY <1>3
  <1>5. Walk(m, link, p) = g
    BY DEF Walk, Size
  <1>. HIDE DEF g
  <1>6. \A n \in 0..Size : g[n] = Body(g, n)
    <2>. HIDE DEF Body
    <2>. QED
      BY <1>4
  <1>. DEFINE S == {n \in Nat : g[n] = at[n]}
  <1>7. 0 \in S
    BY <1>1, <1>2, <1>6 DEF IsWalk
  <1>8. ASSUME NEW n \in 0..(Size - 1), n \in S PROVE n + 1 \in S
    <2>1. n + 1 \in 1..Size /\ n + 1 \in 0..Size /\ (n + 1) - 1 = n /\ n + 1 # 0
          /\ n + 1 \in Nat
      BY <1>1
    <2>2. g[n + 1] = at[n + 1]
      <3>1. g[n + 1] = Body(g, n + 1)
        BY <1>6, <2>1
      <3>2. at[n + 1] = Step(m, link, at[n])
        BY <1>2, <2>1 DEF IsWalk
      <3>. QED
        BY <1>8, <2>1, <3>1, <3>2 DEF Step
    <2>. QED
      BY <2>1, <2>2
  <1>9. 0..Size \subseteq S
    <2>. HIDE DEF S
    <2>. QED
      BY <1>1, <1>7, <1>8, Upwards
  <1>10. g = at
    <2>1. \A n \in 0..Size : g[n] = at[n]
      BY <1>9
    <2>2. g = [n \in 0..Size |-> g[n]]
      BY <1>4
    <2>3. at = [n \in 0..Size |-> at[n]]
      BY <1>2 DEF IsWalk
    <2>. QED
      BY <2>1, <2>2, <2>3
  <1>. QED
    BY <1>2, <1>5, <1>10

--------------------------------------------------------------------------
(* Chains.                                                                 *)

Chain(m, link, p, s) ==
    /\ s \in Seq(m.live)
    /\ \A i, j \in 1..Len(s) : s[i] = s[j] => i = j
    /\ p = IF s = <<>> THEN Null ELSE s[1]
    /\ \A i \in 1..Len(s) : link[s[i]] = IF i = Len(s) THEN Null ELSE s[i + 1]

\* A chain is no longer than there are cells.
LEMMA ChainFits ==
    ASSUME NEW m, m.live \subseteq Cells, NEW link, NEW p, NEW s, Chain(m, link, p, s)
    PROVE  /\ Len(s) \in 0..Size
           /\ \A i \in 1..Len(s) : s[i] \in m.live /\ s[i] \in Cells
  <1>1. s \in Seq(m.live) /\ Len(s) \in Nat
    BY DEF Chain
  <1>2. \A i \in 1..Len(s) : s[i] \in m.live
    BY <1>1
  <1>3. s \in Injection(1..Len(s), Cells)
    <2>1. s \in [1..Len(s) -> Cells]
      BY <1>1, <1>2
    <2>. QED
      BY <2>1 DEF Injection, Chain, IsInjective
  <1>4. Cardinality(1..Len(s)) = Len(s)
    BY <1>1, FS_Interval, SMTT(30)
  <1>5. Cardinality(1..Len(s)) <= Size
    BY <1>3, CellAssumption, FS_Injection DEF Size
  <1>. QED
    BY <1>1, <1>2, <1>4, <1>5, SizeIsNatural

\* A loop over a chain meets its nodes and then Null.
LEMMA ChainIsMet ==
    ASSUME NEW m, m.live \subseteq Cells, NEW link \in [Cells -> Pointer],
           NEW p \in Pointer, NEW s, Chain(m, link, p, s), NEW n \in 0..Size
    PROVE  Walk(m, link, p)[n] = IF n < Len(s) THEN s[n + 1] ELSE Null
  <1>. DEFINE at == Walk(m, link, p)
              Met(k) == IF k < Len(s) THEN s[k + 1] ELSE Null
              S == {k \in Nat : at[k] = Met(k)}
  <1>1. IsWalk(at, m, link, p)
    BY WalkIsWalk
  <1>2. Size \in Nat /\ Len(s) \in Nat /\ s \in Seq(m.live)
    BY SizeIsNatural DEF Chain
  <1>3. Null \notin m.live
    BY CellAssumption
  <1>. HIDE DEF at
  <1>4. 0 \in S
    <2>1. at[0] = p
      BY <1>1 DEF IsWalk
    <2>2. p = Met(0)
      BY <1>2 DEF Chain
    <2>. QED
      BY <2>1, <2>2
  <1>5. ASSUME NEW k \in 0..(Size - 1), k \in S PROVE k + 1 \in S
    <2>1. k \in Nat /\ k + 1 \in 1..Size /\ (k + 1) - 1 = k /\ k + 1 \in Nat
      BY <1>2
    <2>2. at[k + 1] = Step(m, link, at[k])
      BY <1>1, <2>1 DEF IsWalk
    <2>3. at[k] = Met(k)
      BY <1>5
    <2>4. CASE k < Len(s)
      <3>1. k + 1 \in 1..Len(s) /\ s[k + 1] \in m.live
        BY <1>2, <2>1, <2>4
      <3>2. at[k + 1] = link[s[k + 1]]
        BY <2>2, <2>3, <2>4, <3>1 DEF Step
      <3>3. link[s[k + 1]] = Met(k + 1)
        BY <1>2, <2>1, <3>1 DEF Chain
      <3>. QED
        BY <2>1, <3>2, <3>3
    <2>5. CASE ~(k < Len(s))
      <3>1. at[k] = Null /\ Met(k + 1) = Null
        BY <1>2, <2>1, <2>3, <2>5
      <3>. QED
        BY <1>3, <2>1, <2>2, <3>1 DEF Step
    <2>. QED
      BY <2>4, <2>5
  <1>6. 0..Size \subseteq S
    <2>. HIDE DEF S
    <2>. QED
      BY <1>2, <1>4, <1>5, Upwards
  <1>. QED
    BY <1>6 DEF at

\* There are l numbers below l.
LEMMA CountBelow ==
    ASSUME NEW l \in Nat
    PROVE  Cardinality(0..(l - 1)) = l
  <1>1. 0 \in Int /\ l - 1 \in Int
    OBVIOUS
  <1>2. Cardinality(0..(l - 1)) = IF 0 > l - 1 THEN 0 ELSE (l - 1) - 0 + 1
    BY <1>1, FS_Interval, SMTT(30)
  <1>. DEFINE c == Cardinality(0..(l - 1))
  <1>3. c = IF 0 > l - 1 THEN 0 ELSE (l - 1) - 0 + 1
    BY <1>2
  <1>. HIDE DEF c
  <1>4. c = l
    BY <1>3
  <1>. QED
    BY <1>4 DEF c

\* So the loop ends, having met the nodes of the chain.
LEMMA ChainIsWalked ==
    ASSUME NEW m, m.live \subseteq Cells, NEW link \in [Cells -> Pointer],
           NEW p \in Pointer, NEW s, Chain(m, link, p, s)
    PROVE  EndOf(m, link, p) = "none" /\ Nodes(m, link, p) = s
  <1>. DEFINE at == Walk(m, link, p)
              passed == {n \in DOMAIN at : at[n] \in m.live}
  <1>1. Size \in Nat /\ Len(s) \in 0..Size /\ s \in Seq(m.live)
    BY SizeIsNatural, ChainFits DEF Chain
  <1>2. DOMAIN at = 0..Size
    BY WalkIsWalk DEF IsWalk
  <1>3. \A n \in 0..Size : at[n] = IF n < Len(s) THEN s[n + 1] ELSE Null
    BY ChainIsMet
  <1>4. Null \notin m.live
    BY CellAssumption
  <1>5. EndOf(m, link, p) = "none"
    <2>1. at[Size] = Null
      BY <1>1, <1>3
    <2>. QED
      BY <2>1 DEF EndOf, Size
  <1>. HIDE DEF at
  <1>6. passed = 0..(Len(s) - 1)
    <2>1. \A n \in 0..Size : at[n] \in m.live <=> n < Len(s)
      <3>. TAKE n \in 0..Size
      <3>1. CASE n < Len(s)
        BY <1>1, <1>3, <3>1
      <3>2. CASE ~(n < Len(s))
        BY <1>3, <1>4, <3>2
      <3>. QED
        BY <3>1, <3>2
    <2>. QED
      BY <1>1, <1>2, <2>1
  <1>7. Cardinality(passed) = Len(s)
    <2>. HIDE DEF passed
    <2>1. PICK l \in 0..Size : l = Len(s)
      BY <1>1
    <2>2. Cardinality(0..(l - 1)) = l
      <3>1. l \in Nat
        BY <1>1, <2>1
      <3>. QED
        BY <3>1, CountBelow
    <2>. QED
      BY <1>6, <2>1, <2>2
  <1>8. Nodes(m, link, p) = [n \in 1..Len(s) |-> at[n - 1]]
    BY <1>7 DEF Nodes, at, passed
  <1>9. \A n \in 1..Len(s) : at[n - 1] = s[n]
    BY <1>1, <1>3
  <1>10. s = [n \in 1..Len(s) |-> s[n]]
    BY <1>1
  <1>. QED
    BY <1>5, <1>8, <1>9, <1>10

\* What a loop meets once that is no node, it meets from then on.
LEMMA StaysThere ==
    ASSUME NEW m, m.live \subseteq Cells, NEW link \in [Cells -> Pointer],
           NEW p \in Pointer, NEW n \in 0..Size, Walk(m, link, p)[n] \notin m.live,
           NEW k \in n..Size
    PROVE  Walk(m, link, p)[k] = Walk(m, link, p)[n]
  <1>. DEFINE at == Walk(m, link, p)
              S == {j \in Nat : at[j] = at[n]}
  <1>0. at[n] \notin m.live
    OBVIOUS
  <1>1. IsWalk(at, m, link, p)
    BY WalkIsWalk
  <1>2. Size \in Nat
    BY SizeIsNatural
  <1>. HIDE DEF at
  <1>3. n \in S
    OBVIOUS
  <1>4. ASSUME NEW j \in n..(Size - 1), j \in S PROVE j + 1 \in S
    <2>1. j + 1 \in 1..Size /\ (j + 1) - 1 = j /\ j + 1 \in Nat
      BY <1>2
    <2>2. at[j + 1] = Step(m, link, at[j])
      BY <1>1, <2>1 DEF IsWalk
    <2>3. at[j] = at[n]
      BY <1>4
    <2>4. at[j + 1] = at[n]
      BY <1>0, <2>2, <2>3 DEF Step
    <2>. QED
      BY <2>1, <2>4
  <1>5. n..Size \subseteq S
    <2>. HIDE DEF S
    <2>. QED
      BY <1>2, <1>3, <1>4, Upwards, SMTT(30)
  <1>. QED
    BY <1>5 DEF at

\* Two places of a walk that are the same go on the same.
LEMMA SameFromThere ==
    ASSUME NEW m, m.live \subseteq Cells, NEW link \in [Cells -> Pointer],
           NEW p \in Pointer, NEW i \in Nat, NEW j \in Nat, i <= j,
           Walk(m, link, p)[i] = Walk(m, link, p)[j],
           NEW d \in Nat, j + d <= Size
    PROVE  Walk(m, link, p)[i + d] = Walk(m, link, p)[j + d]
  <1>. DEFINE at == Walk(m, link, p)
              S == {e \in Nat : at[i + e] = at[j + e]}
  <1>1. IsWalk(at, m, link, p)
    BY WalkIsWalk
  <1>2. Size \in Nat
    BY SizeIsNatural
  <1>. HIDE DEF at
  <1>3. 0 \in S
    BY DEF at
  <1>4. ASSUME NEW e \in 0..(d - 1), e \in S PROVE e + 1 \in S
    <2>1. /\ i + (e + 1) \in 1..Size /\ (i + (e + 1)) - 1 = i + e
          /\ j + (e + 1) \in 1..Size /\ (j + (e + 1)) - 1 = j + e
          /\ e + 1 \in Nat
      BY <1>2
    <2>2. at[i + (e + 1)] = Step(m, link, at[i + e]) /\ at[j + (e + 1)] = Step(m, link, at[j + e])
      BY <1>1, <2>1 DEF IsWalk
    <2>3. at[i + e] = at[j + e]
      BY <1>4
    <2>4. at[i + (e + 1)] = at[j + (e + 1)]
      BY <2>2, <2>3
    <2>. QED
      BY <2>1, <2>4
  <1>5. 0..d \subseteq S
    <2>. HIDE DEF S
    <2>. QED
      BY <1>3, <1>4, Upwards
  <1>. QED
    BY <1>5 DEF at

\* A loop that ends at Null has walked over a chain.
LEMMA WalkedIsChain ==
    ASSUME NEW m, m.live \subseteq Cells, NEW link \in [Cells -> Pointer],
           NEW p \in Pointer, EndOf(m, link, p) = "none"
    PROVE  Chain(m, link, p, Nodes(m, link, p))
  <1>. DEFINE at == Walk(m, link, p)
              T == {n \in 0..Size : at[n] = Null}
  <1>1. IsWalk(at, m, link, p)
    BY WalkIsWalk
  <1>2. Size \in Nat
    BY SizeIsNatural
  <1>3. at[Size] = Null
    BY DEF EndOf, Size
  <1>4. Null \notin m.live
    BY CellAssumption
  <1>. HIDE DEF at
  <1>5. PICK k \in T : \A n \in T : k <= n
    <2>1. T \in SUBSET Nat /\ Size \in T
      BY <1>2, <1>3
    <2>. HIDE DEF T
    <2>. QED
      BY <2>1, LeastNatural
  <1>6. k \in 0..Size /\ at[k] = Null
    OBVIOUS
  <1>7. ASSUME NEW n \in 0..(k - 1) PROVE at[n] \in m.live
    <2>1. n \in 0..Size /\ at[n] # Null
      BY <1>2, <1>5, <1>6
    <2>2. CASE at[n] \notin m.live
      <3>1. at[Size] = at[n]
        <4>1. Size \in n..Size
          BY <1>2, <2>1
        <4>. QED
          BY <2>1, <2>2, <4>1, StaysThere DEF at
      <3>. QED
        BY <1>3, <2>1, <3>1
    <2>. QED
      BY <2>2
  <1>. DEFINE s == [n \in 1..k |-> at[n - 1]]
  <1>8. s \in Seq(m.live) /\ Len(s) = k
    BY <1>6, <1>7
  <1>9. Chain(m, link, p, s)
    <2>1. ASSUME NEW i \in 1..k, NEW j \in 1..k, i < j PROVE s[i] # s[j]
      <3>. SUFFICES ASSUME at[i - 1] = at[j - 1] PROVE FALSE
        OBVIOUS
      <3>. DEFINE d == k - (j - 1)
      <3>1. /\ i - 1 \in Nat /\ j - 1 \in Nat /\ d \in Nat /\ i - 1 <= j - 1
            /\ (j - 1) + d = k /\ (i - 1) + d \in 0..(k - 1)
        BY <1>6, <2>1
      <3>. HIDE DEF d
      <3>2. at[(i - 1) + d] = at[(j - 1) + d]
        <4>1. (j - 1) + d <= Size
          BY <1>6, <3>1
        <4>. QED
          BY <3>1, <4>1, SameFromThere DEF at
      <3>. QED
        BY <1>4, <1>6, <1>7, <3>1, <3>2
    <2>2. \A i, j \in 1..Len(s) : s[i] = s[j] => i = j
      <3>. TAKE i, j \in 1..Len(s)
      <3>1. i \in 1..k /\ j \in 1..k /\ (i < j \/ j < i \/ i = j)
        BY <1>6, <1>8
      <3>. HIDE DEF s
      <3>. QED
        BY <2>1, <3>1
    <2>3. at[0] = p
      BY <1>1 DEF IsWalk
    <2>4. p = IF s = <<>> THEN Null ELSE s[1]
      <3>1. CASE k = 0
        BY <1>6, <1>8, <2>3, <3>1
      <3>2. CASE k # 0
        <4>1. 1 \in 1..k /\ s[1] = at[0]
          BY <1>6, <3>2
        <4>2. s # <<>>
          BY <1>6, <1>8, <3>2
        <4>. QED
          BY <2>3, <4>1, <4>2
      <3>. QED
        BY <3>1, <3>2
    <2>5. ASSUME NEW i \in 1..k PROVE link[s[i]] = IF i = k THEN Null ELSE s[i + 1]
      <3>1. i \in 1..Size /\ i - 1 \in 0..(k - 1)
        BY <1>2, <1>6
      <3>2. at[i] = Step(m, link, at[i - 1])
        BY <1>1, <3>1 DEF IsWalk
      <3>3. link[s[i]] = at[i]
        BY <1>7, <3>1, <3>2 DEF Step
      <3>4. i # k => i + 1 \in 1..k /\ s[i + 1] = at[i]
        BY <1>6
      <3>. QED
        BY <1>6, <3>3, <3>4
    <2>. HIDE DEF s
    <2>. QED
      BY <1>8, <2>2, <2>4, <2>5 DEF Chain
  <1>10. Nodes(m, link, p) = s
    <2>. HIDE DEF s
    <2>. QED
      BY <1>9, ChainIsWalked
  <1>. QED
    BY <1>9, <1>10

--------------------------------------------------------------------------
(* The list of a memory.                                                   *)

Lists(m, s) == Chain(m, m.next, m.head, s)

\* The links backwards of a list.
Back(m, s) == \A i \in 1..Len(s) : m.pre[s[i]] = IF i = 1 THEN Null ELSE s[i - 1]

LEMMA MemoryType ==
    ASSUME NEW m \in Memory
    PROVE  /\ m.head \in Pointer /\ m.count \in Int
           /\ m.live \subseteq Cells
           /\ m.next \in [Cells -> Pointer] /\ m.pre \in [Cells -> Pointer]
           /\ m.num \in [Cells -> Int]
  BY DEF Memory

LEMMA ListIsWalked ==
    ASSUME NEW m \in Memory, NEW s, Lists(m, s)
    PROVE  EndOf(m, m.next, m.head) = "none" /\ Nodes(m, m.next, m.head) = s
  BY MemoryType, ChainIsWalked DEF Lists

LEMMA WalkedIsList ==
    ASSUME NEW m \in Memory, EndOf(m, m.next, m.head) = "none"
    PROVE  Lists(m, Nodes(m, m.next, m.head))
  BY MemoryType, WalkedIsChain DEF Lists

LEMMA OneList ==
    ASSUME NEW m \in Memory, NEW s, NEW t, Lists(m, s), Lists(m, t)
    PROVE  s = t
  BY ListIsWalked

LEMMA ListType ==
    ASSUME NEW m \in Memory, NEW s, Lists(m, s)
    PROVE  /\ s \in Seq(m.live) /\ Len(s) \in 0..Size
           /\ \A i \in 1..Len(s) : s[i] \in m.live /\ s[i] \in Cells
           /\ \A i, j \in 1..Len(s) : s[i] = s[j] => i = j
           /\ m.head = IF s = <<>> THEN Null ELSE s[1]
           /\ \A i \in 1..Len(s) : m.next[s[i]] = IF i = Len(s) THEN Null ELSE s[i + 1]
  <1>1. Chain(m, m.next, m.head, s)
    BY DEF Lists
  <1>2. m.live \subseteq Cells
    BY MemoryType
  <1>3. Len(s) \in 0..Size /\ \A i \in 1..Len(s) : s[i] \in m.live /\ s[i] \in Cells
    BY <1>1, <1>2, ChainFits
  <1>. QED
    BY <1>1, <1>3 DEF Chain

\* The numbers in nodes.
LEMMA NumbersType ==
    ASSUME NEW m \in Memory, NEW s \in Seq(Cells)
    PROVE  /\ NumbersOf(m, s) \in Seq(Int)
           /\ Len(NumbersOf(m, s)) = Len(s)
           /\ \A i \in 1..Len(s) : NumbersOf(m, s)[i] = m.num[s[i]]
  <1>1. m.num \in [Cells -> Int] /\ Len(s) \in Nat
    BY MemoryType
  <1>2. \A i \in 1..Len(s) : m.num[s[i]] \in Int
    BY <1>1
  <1>. QED
    BY <1>1, <1>2 DEF NumbersOf

\* Who frees nothing or the nodes of a list.
LEMMA ReleaseType ==
    ASSUME NEW m \in Memory, NEW cells
    PROVE  /\ Release(m, cells) \in Memory
           /\ Release(m, cells).head = m.head
           /\ Release(m, cells).count = m.count
           /\ Release(m, cells).live = m.live \ cells
           /\ \A c \in Cells \ cells : /\ Release(m, cells).next[c] = m.next[c]
                                       /\ Release(m, cells).pre[c] = m.pre[c]
                                       /\ Release(m, cells).num[c] = m.num[c]
  <1>. DEFINE next1 == [c \in Cells |-> IF c \in cells THEN Null ELSE m.next[c]]
              pre1 == [c \in Cells |-> IF c \in cells THEN Null ELSE m.pre[c]]
              num1 == [c \in Cells |-> IF c \in cells THEN 0 ELSE m.num[c]]
  <1>1. /\ next1 \in [Cells -> Pointer] /\ pre1 \in [Cells -> Pointer]
        /\ num1 \in [Cells -> Int]
    BY MemoryType DEF Pointer
  <1>2. Release(m, cells) = [head |-> m.head, count |-> m.count, live |-> m.live \ cells,
                             next |-> next1, pre |-> pre1, num |-> num1]
    <2>1. Release(m, cells) = [m EXCEPT !.live = m.live \ cells, !.next = next1,
                                        !.pre = pre1, !.num = num1]
      BY DEF Release
    <2>. HIDE DEF next1, pre1, num1
    <2>. QED
      BY <2>1 DEF Memory
  <1>3. \A c \in Cells \ cells : next1[c] = m.next[c] /\ pre1[c] = m.pre[c] /\ num1[c] = m.num[c]
    OBVIOUS
  <1>. HIDE DEF next1, pre1, num1
  <1>4. m.live \ cells \in SUBSET Cells
    BY MemoryType
  <1>5. Release(m, cells) \in Memory
    BY <1>1, <1>2, <1>4, MemoryType DEF Memory
  <1>. QED
    BY <1>2, <1>3, <1>5

\* Memory after the list in it was freed.
LEMMA FreeLinkListType ==
    ASSUME NEW m \in Memory, FreeFault(m) = "none"
    PROVE  /\ FreeLinkList(m) \in Memory
           /\ FreeLinkList(m).live \subseteq m.live
           /\ FreeLinkList(m).head = m.head
           /\ Keeps(m) => FreeLinkList(m) = m
           /\ \A s : Lists(m, s) /\ ~Keeps(m) => FreeLinkList(m).live = m.live \ Range(s)
  <1>1. CASE Keeps(m)
    BY <1>1 DEF FreeLinkList
  <1>2. CASE ~Keeps(m)
    <2>1. EndOf(m, m.next, m.head) = "none"
      BY <1>2 DEF FreeFault
    <2>. DEFINE s == Nodes(m, m.next, m.head)
    <2>2. Lists(m, s)
      BY <2>1, WalkedIsList
    <2>3. Len(s) \in Int
      BY <2>2, ListType
    <2>4. \A t : Lists(m, t) => t = s
      BY <2>2, OneList
    <2>5. FreeLinkList(m) = [Release(m, Range(s)) EXCEPT !.count = @ - Len(s)]
      BY <1>2 DEF FreeLinkList
    <2>. HIDE DEF s
    <2>6. /\ Release(m, Range(s)) \in Memory
          /\ Release(m, Range(s)).head = m.head
          /\ Release(m, Range(s)).live = m.live \ Range(s)
      BY ReleaseType
    <2>7. /\ FreeLinkList(m) \in Memory
          /\ FreeLinkList(m).head = m.head
          /\ FreeLinkList(m).live = m.live \ Range(s)
      <3>1. \A r \in Memory, k \in Int :
               /\ [r EXCEPT !.count = k] \in Memory
               /\ [r EXCEPT !.count = k].head = r.head
               /\ [r EXCEPT !.count = k].live = r.live
        BY DEF Memory
      <3>2. Release(m, Range(s)).count - Len(s) \in Int
        BY <2>3, <2>6, MemoryType
      <3>3. FreeLinkList(m) = [Release(m, Range(s)) EXCEPT
                                  !.count = Release(m, Range(s)).count - Len(s)]
        BY <2>5
      <3>. QED
        BY <2>6, <3>1, <3>2, <3>3
    <2>. QED
      BY <1>2, <2>4, <2>7
  <1>. QED
    BY <1>1, <1>2

--------------------------------------------------------------------------
(* What the operations make of a list.                                     *)

\* create and bulk_create: the cells taken are the list.
LEMMA BuiltLists ==
    ASSUME NEW m \in Memory, NEW nums \in Seq(Int), NEW cells \in Taken(m, Len(nums))
    PROVE  /\ Built(m, cells, nums) \in Memory
           /\ Lists(Built(m, cells, nums), cells)
           /\ Built(m, cells, nums).count = Len(nums)
           /\ Built(m, cells, nums).live = m.live \cup Range(cells)
           /\ Range(cells) \cap m.live = {}
           /\ cells \in Seq(Cells) /\ Len(cells) = Len(nums)
           /\ NumbersOf(Built(m, cells, nums), cells) = nums
           /\ doubly => Back(Built(m, cells, nums), cells)
  <1>. DEFINE len == Len(nums)
              b == Built(m, cells, nums)
              place == [c \in ToSet(cells) |-> CHOOSE i \in 1..len : cells[i] = c]
  <1>1. /\ len \in Nat
        /\ cells \in [1..len -> Cells \ m.live]
        /\ \A i, j \in 1..len : cells[i] = cells[j] => i = j
    BY DEF Taken
  <1>2. cells \in Seq(Cells) /\ Len(cells) = len /\ DOMAIN cells = 1..len
    BY <1>1
  <1>3. /\ Range(cells) = ToSet(cells)
        /\ ToSet(cells) \subseteq Cells /\ ToSet(cells) \cap m.live = {}
        /\ \A i \in 1..len : cells[i] \in ToSet(cells)
        /\ \A c \in ToSet(cells) : \E i \in 1..len : cells[i] = c
    BY <1>1, <1>2 DEF ToSet, Range
  <1>4. \A c \in ToSet(cells) : place[c] \in 1..len /\ cells[place[c]] = c
    BY <1>3
  <1>5. \A i \in 1..len : place[cells[i]] = i
    <2>. TAKE i \in 1..len
    <2>. HIDE DEF place
    <2>. QED
      BY <1>1, <1>3, <1>4
  <1>6. b = [head |-> IF len = 0 THEN Null ELSE cells[1],
             count |-> len,
             live |-> m.live \cup ToSet(cells),
             next |-> [c \in Cells |-> IF c \notin ToSet(cells) THEN m.next[c]
                                       ELSE IF place[c] = len THEN Null ELSE cells[place[c] + 1]],
             pre |-> [c \in Cells |-> IF c \notin ToSet(cells) \/ ~doubly THEN m.pre[c]
                                      ELSE IF place[c] = 1 THEN Null ELSE cells[place[c] - 1]],
             num |-> [c \in Cells |-> IF c \notin ToSet(cells) THEN m.num[c]
                                      ELSE nums[place[c]]]]
    BY DEF Built
  <1>. HIDE DEF place
  <1>7. /\ b.head = IF len = 0 THEN Null ELSE cells[1]
        /\ b.count = len
        /\ b.live = m.live \cup ToSet(cells)
        /\ \A i \in 1..len : b.next[cells[i]] = IF i = len THEN Null ELSE cells[i + 1]
        /\ doubly => \A i \in 1..len : b.pre[cells[i]] = IF i = 1 THEN Null ELSE cells[i - 1]
        /\ \A i \in 1..len : b.num[cells[i]] = nums[i]
    <2>. HIDE DEF b
    <2>1. \A i \in 1..len : cells[i] \in Cells /\ cells[i] \in ToSet(cells) /\ place[cells[i]] = i
      BY <1>3, <1>5
    <2>. HIDE DEF len
    <2>. QED
      BY <1>6, <2>1
  <1>8. b \in Memory
    <2>1. \A c \in Cells : (IF c \notin ToSet(cells) THEN m.next[c]
                            ELSE IF place[c] = len THEN Null ELSE cells[place[c] + 1]) \in Pointer
      <3>. TAKE c \in Cells
      <3>1. CASE c \notin ToSet(cells)
        BY <3>1, MemoryType
      <3>2. CASE c \in ToSet(cells)
        <4>1. place[c] \in 1..len /\ (place[c] # len => place[c] + 1 \in 1..len)
          BY <1>1, <1>4, <3>2
        <4>. QED
          BY <1>1, <3>2, <4>1 DEF Pointer
      <3>. QED
        BY <3>1, <3>2
    <2>2. \A c \in Cells : (IF c \notin ToSet(cells) \/ ~doubly THEN m.pre[c]
                            ELSE IF place[c] = 1 THEN Null ELSE cells[place[c] - 1]) \in Pointer
      <3>. TAKE c \in Cells
      <3>1. CASE c \notin ToSet(cells) \/ ~doubly
        BY <3>1, MemoryType
      <3>2. CASE ~(c \notin ToSet(cells) \/ ~doubly)
        <4>1. place[c] \in 1..len /\ (place[c] # 1 => place[c] - 1 \in 1..len)
          BY <1>1, <1>4, <3>2
        <4>. QED
          BY <1>1, <3>2, <4>1 DEF Pointer
      <3>. QED
        BY <3>1, <3>2
    <2>3. \A c \in Cells : (IF c \notin ToSet(cells) THEN m.num[c] ELSE nums[place[c]]) \in Int
      <3>. TAKE c \in Cells
      <3>1. CASE c \notin ToSet(cells)
        BY <3>1, MemoryType
      <3>2. CASE c \in ToSet(cells)
        BY <1>4, <3>2
      <3>. QED
        BY <3>1, <3>2
    <2>4. (IF len = 0 THEN Null ELSE cells[1]) \in Pointer
      BY <1>1 DEF Pointer
    <2>5. m.live \cup ToSet(cells) \in SUBSET Cells /\ len \in Int
      BY <1>1, <1>3, MemoryType
    <2>. HIDE DEF b, len
    <2>. QED
      BY <1>6, <2>1, <2>2, <2>3, <2>4, <2>5 DEF Memory
  <1>. HIDE DEF b
  <1>9. Lists(b, cells)
    <2>1. cells \in Seq(b.live)
      <3>1. cells \in [1..len -> b.live]
        BY <1>1, <1>3, <1>7
      <3>. HIDE DEF len
      <3>. QED
        BY <1>1, <3>1
    <2>2. b.head = IF cells = <<>> THEN Null ELSE cells[1]
      <3>1. cells = <<>> <=> len = 0
        <4>. HIDE DEF len
        <4>. QED
          BY <1>1, <1>2
      <3>. QED
        BY <1>7, <3>1
    <2>. QED
      BY <1>1, <1>2, <1>7, <2>1, <2>2 DEF Lists, Chain
  <1>10. NumbersOf(b, cells) = nums
    <2>1. NumbersOf(b, cells) = [i \in 1..len |-> nums[i]]
      BY <1>2, <1>7 DEF NumbersOf
    <2>. QED
      BY <2>1
  <1>11. doubly => Back(b, cells)
    BY <1>2, <1>7 DEF Back
  <1>. QED
    BY <1>2, <1>3, <1>7, <1>8, <1>9, <1>10, <1>11 DEF b

\* head_insert_node: the new node before the list, which has to be one already.
LEMMA HeadInserts ==
    ASSUME mem \in Memory, NEW c \in Cells \ mem.live, NEW n \in Int
    PROVE  /\ HeadInserted(c, n) \in Memory
           /\ HeadInserted(c, n).count = mem.count + 1
           /\ HeadInserted(c, n).live = mem.live \cup {c}
           /\ \A s : Lists(mem, s) =>
                 /\ Lists(HeadInserted(c, n), <<c>> \o s)
                 /\ NumbersOf(HeadInserted(c, n), <<c>> \o s) = <<n>> \o NumbersOf(mem, s)
                 /\ doubly /\ s # <<>> /\ Back(mem, s) => Back(HeadInserted(c, n), <<c>> \o s)
           /\ \A t : Lists(HeadInserted(c, n), t) => Lists(mem, Tail(t))
  <1>. DEFINE h == HeadInserted(c, n)
  <1>1. /\ mem.head \in Pointer /\ mem.count \in Int
        /\ mem.live \subseteq Cells
        /\ mem.next \in [Cells -> Pointer] /\ mem.pre \in [Cells -> Pointer]
        /\ mem.num \in [Cells -> Int]
    BY MemoryType
  <1>2. c \in Cells /\ c \in Pointer /\ Null \in Pointer /\ c # Null /\ Null \notin Cells
    BY CellAssumption DEF Pointer
  <1>3. /\ h.head = c
        /\ h.count = mem.count + 1
        /\ h.live = mem.live \cup {c}
        /\ h.num = [mem.num EXCEPT ![c] = n]
        /\ h.next = [mem.next EXCEPT ![c] = mem.head]
        /\ h.pre = IF doubly THEN [mem.pre EXCEPT ![c] = Null, ![mem.head] = c] ELSE mem.pre
        /\ h \in Memory
    <2>. DEFINE num1 == [mem.num EXCEPT ![c] = n]
                next1 == [mem.next EXCEPT ![c] = mem.head]
                pre1 == IF doubly THEN [mem.pre EXCEPT ![c] = Null, ![mem.head] = c] ELSE mem.pre
    <2>1. num1 \in [Cells -> Int] /\ next1 \in [Cells -> Pointer]
      BY <1>1
    <2>2. pre1 \in [Cells -> Pointer]
      BY <1>1, <1>2
    <2>3. h = [mem EXCEPT !.head = c, !.count = mem.count + 1, !.live = mem.live \cup {c},
                          !.num = num1, !.next = next1, !.pre = pre1]
      BY DEF HeadInserted
    <2>4. mem.count + 1 \in Int /\ mem.live \cup {c} \in SUBSET Cells
      BY <1>1
    <2>. HIDE DEF h, num1, next1, pre1
    <2>5. /\ h.head = c /\ h.count = mem.count + 1 /\ h.live = mem.live \cup {c}
          /\ h.num = num1 /\ h.next = next1 /\ h.pre = pre1 /\ h \in Memory
      BY <1>2, <2>1, <2>2, <2>3, <2>4 DEF Memory
    <2>. QED
      BY <2>5 DEF num1, next1, pre1
  <1>. HIDE DEF h
  <1>4. /\ \A d \in mem.live : d # c /\ d \in Cells /\ h.next[d] = mem.next[d] /\ h.num[d] = mem.num[d]
        /\ h.next[c] = mem.head /\ h.num[c] = n
    BY <1>1, <1>2, <1>3
  <1>5. ASSUME NEW s, Lists(mem, s)
        PROVE  /\ Lists(h, <<c>> \o s)
               /\ NumbersOf(h, <<c>> \o s) = <<n>> \o NumbersOf(mem, s)
               /\ doubly /\ s # <<>> /\ Back(mem, s) => Back(h, <<c>> \o s)
    <2>1. /\ s \in Seq(mem.live) /\ Len(s) \in 0..Size
          /\ \A i \in 1..Len(s) : s[i] \in mem.live /\ s[i] \in Cells
          /\ \A i, j \in 1..Len(s) : s[i] = s[j] => i = j
          /\ mem.head = IF s = <<>> THEN Null ELSE s[1]
          /\ \A i \in 1..Len(s) : mem.next[s[i]] = IF i = Len(s) THEN Null ELSE s[i + 1]
      BY <1>5, ListType
    <2>. DEFINE t == <<c>> \o s
    <2>2. Len(s) \in Nat /\ (s = <<>> <=> Len(s) = 0)
      BY <2>1, SizeIsNatural
    <2>3. /\ t \in Seq(h.live) /\ Len(t) = Len(s) + 1 /\ t # <<>> /\ t[1] = c
          /\ \A i \in 2..Len(t) : i - 1 \in 1..Len(s) /\ t[i] = s[i - 1]
      <3>1. s \in Seq(h.live) /\ <<c>> \in Seq(h.live)
        BY <1>3, <2>1
      <3>. QED
        BY <2>2, <3>1
    <2>. HIDE DEF t
    <2>4. \A i, j \in 1..Len(t) : t[i] = t[j] => i = j
      <3>1. \A i \in 2..Len(t) : t[i] # c
        BY <1>4, <2>1, <2>3
      <3>2. \A i, j \in 2..Len(t) : t[i] = t[j] => i = j
        <4>. TAKE i, j \in 2..Len(t)
        <4>. HAVE t[i] = t[j]
        <4>1. s[i - 1] = s[j - 1] /\ i - 1 \in 1..Len(s) /\ j - 1 \in 1..Len(s)
          BY <2>3
        <4>2. i - 1 = j - 1
          BY <2>1, <4>1
        <4>. QED
          BY <2>2, <2>3, <4>2
      <3>3. \A i \in 1..Len(t) : i = 1 \/ i \in 2..Len(t)
        BY <2>2, <2>3
      <3>. QED
        BY <2>3, <3>1, <3>2, <3>3
    <2>5. ASSUME NEW i \in 1..Len(t) PROVE h.next[t[i]] = IF i = Len(t) THEN Null ELSE t[i + 1]
      <3>1. CASE i = 1
        <4>1. CASE Len(s) = 0
          BY <1>4, <2>1, <2>2, <2>3, <3>1, <4>1
        <4>2. CASE Len(s) # 0
          <5>1. 2 \in 2..Len(t) /\ Len(t) # 1
            BY <2>2, <2>3, <4>2
          <5>2. t[2] = s[2 - 1]
            BY <2>3, <5>1
          <5>. QED
            BY <1>4, <2>1, <2>2, <2>3, <3>1, <4>2, <5>1, <5>2
        <4>. QED
          BY <4>1, <4>2
      <3>2. CASE i # 1
        <4>1. i \in 2..Len(t) /\ i - 1 \in 1..Len(s) /\ t[i] = s[i - 1]
          BY <2>2, <2>3, <3>2
        <4>2. h.next[t[i]] = mem.next[s[i - 1]]
          BY <1>4, <2>1, <4>1
        <4>3. i - 1 = Len(s) <=> i = Len(t)
          BY <2>2, <2>3
        <4>4. i # Len(t) => i + 1 \in 2..Len(t) /\ (i + 1) - 1 = i /\ (i - 1) + 1 = i
          BY <2>2, <2>3, <4>1
        <4>5. mem.next[s[i - 1]] = IF i - 1 = Len(s) THEN Null ELSE s[(i - 1) + 1]
          BY <2>1, <4>1
        <4>6. i # Len(t) => t[i + 1] = s[i] /\ s[(i - 1) + 1] = s[i]
          BY <2>3, <4>4
        <4>. QED
          BY <4>2, <4>3, <4>5, <4>6
      <3>. QED
        BY <3>1, <3>2
    <2>6. Lists(h, t)
      BY <1>3, <2>3, <2>4, <2>5 DEF Lists, Chain
    <2>7. NumbersOf(h, t) = <<n>> \o NumbersOf(mem, s)
      <3>1. s \in Seq(Cells) /\ t \in Seq(Cells)
        <4>1. h.live \subseteq Cells
          BY <1>1, <1>3
        <4>. QED
          BY <1>1, <2>1, <2>3, <4>1
      <3>2. /\ NumbersOf(mem, s) \in Seq(Int) /\ Len(NumbersOf(mem, s)) = Len(s)
            /\ \A i \in 1..Len(s) : NumbersOf(mem, s)[i] = mem.num[s[i]]
        BY <3>1, NumbersType
      <3>3. /\ NumbersOf(h, t) \in Seq(Int) /\ Len(NumbersOf(h, t)) = Len(t)
            /\ \A i \in 1..Len(t) : NumbersOf(h, t)[i] = h.num[t[i]]
        BY <1>3, <3>1, NumbersType
      <3>. DEFINE u == <<n>> \o NumbersOf(mem, s)
                  v == NumbersOf(h, t)
                  w == NumbersOf(mem, s)
      <3>. HIDE DEF w, v
      <3>4. /\ u \in Seq(Int) /\ Len(u) = Len(t) /\ u[1] = n
            /\ \A i \in 2..Len(t) : u[i] = w[i - 1]
        BY <2>2, <2>3, <3>2 DEF w
      <3>. HIDE DEF u
      <3>5. ASSUME NEW i \in 1..Len(t) PROVE v[i] = u[i]
        <4>1. CASE i = 1
          BY <1>4, <2>3, <3>3, <3>4, <4>1 DEF v
        <4>2. CASE i # 1
          <5>1. i \in 2..Len(t) /\ i - 1 \in 1..Len(s)
            BY <2>2, <2>3, <4>2
          <5>2. v[i] = h.num[t[i]] /\ t[i] = s[i - 1] /\ u[i] = w[i - 1]
                /\ w[i - 1] = mem.num[s[i - 1]]
            BY <2>3, <3>2, <3>3, <3>4, <5>1 DEF v, w
          <5>3. h.num[s[i - 1]] = mem.num[s[i - 1]]
            BY <1>4, <2>1, <5>1
          <5>. QED
            BY <5>2, <5>3
        <4>. QED
          BY <4>1, <4>2
      <3>6. v = u
        <4>1. v \in Seq(Int) /\ Len(v) = Len(t)
          BY <3>3 DEF v
        <4>. QED
          BY <3>4, <3>5, <4>1, SeqEqual
      <3>. QED
        BY <3>6 DEF u, v, w
    <2>8. ASSUME doubly, s # <<>>, Back(mem, s) PROVE Back(h, t)
      <3>1. mem.head = s[1] /\ 1 \in 1..Len(s) /\ s[1] \in Cells /\ s[1] # c
        BY <1>4, <2>1, <2>2, <2>8
      <3>2. /\ h.pre[c] = Null /\ h.pre[s[1]] = c
            /\ \A d \in Cells : d # c /\ d # s[1] => h.pre[d] = mem.pre[d]
        BY <1>1, <1>2, <1>3, <2>8, <3>1
      <3>3. ASSUME NEW i \in 1..Len(t)
            PROVE h.pre[t[i]] = IF i = 1 THEN Null ELSE t[i - 1]
        <4>1. CASE i = 1
          BY <2>3, <3>2, <4>1
        <4>2. CASE i = 2
          BY <2>2, <2>3, <3>2, <4>2
        <4>3. CASE i # 1 /\ i # 2
          <5>1. /\ i \in 2..Len(t) /\ i - 1 \in 2..Len(t) /\ i - 1 \in 1..Len(s)
                /\ i - 1 # 1 /\ (i - 1) - 1 \in 1..Len(s)
            BY <2>2, <2>3, <4>3
          <5>2. t[i] = s[i - 1] /\ t[i - 1] = s[(i - 1) - 1]
            BY <2>3, <5>1
          <5>3. s[i - 1] \in mem.live /\ s[i - 1] # s[1]
            BY <2>1, <3>1, <5>1
          <5>4. h.pre[s[i - 1]] = mem.pre[s[i - 1]]
            BY <1>4, <3>2, <5>3
          <5>5. mem.pre[s[i - 1]] = s[(i - 1) - 1]
            BY <2>8, <5>1 DEF Back
          <5>. QED
            BY <4>3, <5>2, <5>4, <5>5
        <4>. QED
          BY <4>1, <4>2, <4>3
      <3>. QED
        BY <3>3 DEF Back
    <2>. QED
      BY <2>6, <2>7, <2>8 DEF t
  <1>6. ASSUME NEW t, Lists(h, t) PROVE Lists(mem, Tail(t))
    <2>1. /\ t \in Seq(h.live) /\ Len(t) \in 0..Size
          /\ \A i \in 1..Len(t) : t[i] \in h.live /\ t[i] \in Cells
          /\ \A i, j \in 1..Len(t) : t[i] = t[j] => i = j
          /\ h.head = IF t = <<>> THEN Null ELSE t[1]
          /\ \A i \in 1..Len(t) : h.next[t[i]] = IF i = Len(t) THEN Null ELSE t[i + 1]
      <3>1. h \in Memory
        BY <1>3
      <3>. QED
        BY <1>6, <3>1, ListType
    <2>2. t # <<>> /\ t[1] = c /\ Len(t) \in Nat \ {0}
      BY <1>2, <1>3, <2>1, SizeIsNatural
    <2>. DEFINE s == Tail(t)
    <2>3. Len(s) = Len(t) - 1 /\ \A i \in 1..Len(s) : s[i] = t[i + 1] /\ i + 1 \in 2..Len(t)
      BY <2>1, <2>2
    <2>4. \A i \in 2..Len(t) : t[i] \in mem.live
      <3>. TAKE i \in 2..Len(t)
      <3>1. i \in 1..Len(t) /\ 1 \in 1..Len(t) /\ i # 1
        BY <2>2
      <3>2. t[i] # c
        BY <2>1, <2>2, <3>1
      <3>. QED
        BY <1>3, <2>1, <3>1, <3>2
    <2>5. s \in Seq(mem.live)
      <3>1. s \in Seq(h.live)
        BY <2>1, <2>2
      <3>2. \A i \in 1..Len(s) : s[i] \in mem.live
        BY <2>3, <2>4
      <3>. HIDE DEF s
      <3>3. s \in [1..Len(s) -> mem.live] /\ Len(s) \in Nat
        BY <3>1, <3>2
      <3>. QED
        BY <3>3
    <2>. HIDE DEF s
    <2>6. \A i, j \in 1..Len(s) : s[i] = s[j] => i = j
      <3>. TAKE i, j \in 1..Len(s)
      <3>. HAVE s[i] = s[j]
      <3>1. t[i + 1] = t[j + 1] /\ i + 1 \in 1..Len(t) /\ j + 1 \in 1..Len(t)
        BY <2>2, <2>3
      <3>2. i + 1 = j + 1
        BY <2>1, <3>1
      <3>. QED
        BY <2>2, <2>3, <3>2
    <2>7. mem.head = IF s = <<>> THEN Null ELSE s[1]
      <3>1. 1 \in 1..Len(t) /\ h.next[t[1]] = mem.head
        BY <1>4, <2>2
      <3>2. s = <<>> <=> Len(t) = 1
        BY <2>2, <2>3, <2>5
      <3>3. s # <<>> => s[1] = t[1 + 1]
        <4>1. s # <<>> => 1 \in 1..Len(s)
          BY <2>2, <2>3, <3>2
        <4>. QED
          BY <2>3, <4>1
      <3>. QED
        BY <2>1, <3>1, <3>2, <3>3
    <2>8. ASSUME NEW i \in 1..Len(s)
          PROVE mem.next[s[i]] = IF i = Len(s) THEN Null ELSE s[i + 1]
      <3>1. i + 1 \in 2..Len(t) /\ i + 1 \in 1..Len(t) /\ s[i] = t[i + 1]
            /\ (i = Len(s) <=> i + 1 = Len(t))
        BY <2>2, <2>3
      <3>2. mem.next[s[i]] = h.next[t[i + 1]]
        BY <1>4, <2>4, <3>1
      <3>3. h.next[t[i + 1]] = IF i + 1 = Len(t) THEN Null ELSE t[(i + 1) + 1]
        BY <2>1, <3>1
      <3>4. i # Len(s) => i + 1 \in 1..Len(s) /\ s[i + 1] = t[(i + 1) + 1]
        BY <2>2, <2>3
      <3>. QED
        BY <3>1, <3>2, <3>3, <3>4
    <2>9. Lists(mem, s)
      BY <2>5, <2>6, <2>7, <2>8 DEF Lists, Chain
    <2>. QED
      BY <2>9 DEF s
  <1>. QED
    BY <1>3, <1>5, <1>6 DEF h

\* tail_insert_node: the new node after the list, which counts as many as before.
LEMMA TailInserts ==
    ASSUME mem \in Memory, NEW c \in Cells \ mem.live, NEW n \in Int,
           NEW s, Lists(mem, s), s # <<>>
    PROVE  /\ TailInserted(c, n) \in Memory
           /\ TailInserted(c, n).count = mem.count
           /\ TailInserted(c, n).live = mem.live \cup {c}
           /\ Lists(TailInserted(c, n), Append(s, c))
           /\ NumbersOf(TailInserted(c, n), Append(s, c)) = Append(NumbersOf(mem, s), n)
           /\ doubly /\ Back(mem, s) => Back(TailInserted(c, n), Append(s, c))
  <1>. DEFINE h == TailInserted(c, n)
              l == Len(s)
              last == s[l]
  <1>1. /\ mem.head \in Pointer /\ mem.count \in Int
        /\ mem.live \subseteq Cells
        /\ mem.next \in [Cells -> Pointer] /\ mem.pre \in [Cells -> Pointer]
        /\ mem.num \in [Cells -> Int]
    BY MemoryType
  <1>2. c \in Cells /\ c \in Pointer /\ Null \in Pointer /\ c # Null
    BY CellAssumption DEF Pointer
  <1>3. /\ s \in Seq(mem.live) /\ l \in 0..Size
        /\ \A i \in 1..l : s[i] \in mem.live /\ s[i] \in Cells
        /\ \A i, j \in 1..l : s[i] = s[j] => i = j
        /\ mem.head = IF s = <<>> THEN Null ELSE s[1]
        /\ \A i \in 1..l : mem.next[s[i]] = IF i = l THEN Null ELSE s[i + 1]
    BY ListType
  <1>4. l \in Nat \ {0} /\ last \in mem.live /\ last \in Cells /\ last \in Pointer /\ last # c
    BY <1>3, SizeIsNatural DEF Pointer
  <1>5. GetTail = last
    BY ListIsWalked DEF GetTail, Last
  <1>6. /\ h.head = mem.head
        /\ h.count = mem.count
        /\ h.live = mem.live \cup {c}
        /\ h.num = [mem.num EXCEPT ![c] = n]
        /\ h.next = [mem.next EXCEPT ![last] = c, ![c] = Null]
        /\ h.pre = [mem.pre EXCEPT ![c] = IF doubly THEN last ELSE mem.pre[c]]
        /\ h \in Memory
    <2>. HIDE DEF last
    <2>. DEFINE num1 == [mem.num EXCEPT ![c] = n]
                next1 == [mem.next EXCEPT ![last] = c, ![c] = Null]
                pre1 == [mem.pre EXCEPT ![c] = IF doubly THEN last ELSE mem.pre[c]]
    <2>1. num1 \in [Cells -> Int] /\ next1 \in [Cells -> Pointer] /\ pre1 \in [Cells -> Pointer]
      BY <1>1, <1>2, <1>4
    <2>2. h = [mem EXCEPT !.live = mem.live \cup {c}, !.num = num1, !.next = next1, !.pre = pre1]
      BY <1>5 DEF TailInserted
    <2>3. mem.live \cup {c} \in SUBSET Cells
      BY <1>1
    <2>. HIDE DEF h, num1, next1, pre1
    <2>4. /\ h.head = mem.head /\ h.count = mem.count /\ h.live = mem.live \cup {c}
          /\ h.num = num1 /\ h.next = next1 /\ h.pre = pre1 /\ h \in Memory
      BY <2>1, <2>2, <2>3 DEF Memory
    <2>. QED
      BY <2>4 DEF num1, next1, pre1
  <1>. HIDE DEF h, last
  <1>7. /\ \A d \in mem.live : d # last => h.next[d] = mem.next[d]
        /\ \A d \in mem.live : h.num[d] = mem.num[d] /\ h.pre[d] = mem.pre[d] /\ d # c
        /\ h.next[last] = c /\ h.next[c] = Null /\ h.num[c] = n
        /\ doubly => h.pre[c] = last
    BY <1>1, <1>2, <1>4, <1>6
  <1>. DEFINE t == Append(s, c)
  <1>8. /\ t \in Seq(h.live) /\ Len(t) = l + 1 /\ t[l + 1] = c /\ t # <<>>
        /\ \A i \in 1..l : t[i] = s[i]
        /\ \A i \in 1..Len(t) : i \in 1..l \/ i = l + 1
    <2>1. s \in Seq(h.live) /\ c \in h.live
      BY <1>3, <1>6
    <2>. QED
      BY <1>4, <2>1
  <1>. HIDE DEF t
  <1>9. Lists(h, t)
    <2>1. \A i, j \in 1..Len(t) : t[i] = t[j] => i = j
      <3>1. \A i \in 1..l : t[i] # c
        BY <1>3, <1>7, <1>8
      <3>. QED
        BY <1>3, <1>8, <3>1
    <2>2. h.head = IF t = <<>> THEN Null ELSE t[1]
      <3>1. 1 \in 1..l
        BY <1>4
      <3>. QED
        BY <1>3, <1>6, <1>8, <3>1
    <2>3. ASSUME NEW i \in 1..Len(t) PROVE h.next[t[i]] = IF i = Len(t) THEN Null ELSE t[i + 1]
      <3>1. CASE i = l + 1
        BY <1>7, <1>8, <3>1
      <3>2. CASE i = l
        <4>1. i \in 1..l /\ t[i] = last /\ i # Len(t) /\ t[i + 1] = c
          BY <1>4, <1>8, <3>2 DEF last
        <4>. QED
          BY <1>7, <4>1
      <3>3. CASE i # l /\ i # l + 1
        <4>1. i \in 1..l /\ i + 1 \in 1..l /\ l \in 1..l /\ i # Len(t)
          BY <1>4, <1>8, <3>3
        <4>2. s[i] \in mem.live /\ s[i] # last
          BY <1>3, <3>3, <4>1 DEF last
        <4>3. h.next[s[i]] = s[i + 1]
          BY <1>3, <1>7, <3>3, <4>1, <4>2
        <4>. QED
          BY <1>8, <4>1, <4>3
      <3>. QED
        BY <3>1, <3>2, <3>3
    <2>. QED
      BY <1>8, <2>1, <2>2, <2>3 DEF Lists, Chain
  <1>10. NumbersOf(h, t) = Append(NumbersOf(mem, s), n)
    <2>1. s \in Seq(Cells) /\ t \in Seq(Cells)
      <3>1. h.live \subseteq Cells
        BY <1>1, <1>6
      <3>. QED
        BY <1>1, <1>3, <1>8, <3>1
    <2>. DEFINE w == NumbersOf(mem, s)
                v == NumbersOf(h, t)
                u == Append(w, n)
    <2>2. w \in Seq(Int) /\ Len(w) = l /\ \A i \in 1..l : w[i] = mem.num[s[i]]
      BY <2>1, NumbersType
    <2>3. v \in Seq(Int) /\ Len(v) = Len(t) /\ \A i \in 1..Len(t) : v[i] = h.num[t[i]]
      BY <1>6, <2>1, NumbersType
    <2>. HIDE DEF w, v
    <2>4. u \in Seq(Int) /\ Len(u) = l + 1 /\ u[l + 1] = n /\ \A i \in 1..l : u[i] = w[i]
      BY <1>4, <2>2
    <2>. HIDE DEF u
    <2>5. \A i \in 1..l : h.num[t[i]] = mem.num[s[i]]
      BY <1>3, <1>7, <1>8
    <2>6. \A i \in 1..Len(t) : v[i] = u[i]
      <3>. TAKE i \in 1..Len(t)
      <3>1. CASE i \in 1..l
        BY <2>2, <2>3, <2>4, <2>5, <3>1
      <3>2. CASE i = l + 1
        BY <1>7, <1>8, <2>3, <2>4, <3>2
      <3>. QED
        BY <1>8, <3>1, <3>2
    <2>7. v = u
      BY <1>8, <2>3, <2>4, <2>6, SeqEqual
    <2>. QED
      BY <2>7 DEF u, v, w
  <1>11. ASSUME doubly, Back(mem, s) PROVE Back(h, t)
    <2>1. ASSUME NEW i \in 1..Len(t) PROVE h.pre[t[i]] = IF i = 1 THEN Null ELSE t[i - 1]
      <3>1. CASE i = l + 1
        <4>1. i # 1 /\ i - 1 \in 1..l /\ i - 1 = l
          BY <1>4, <3>1
        <4>. QED
          BY <1>7, <1>8, <1>11, <3>1, <4>1 DEF last
      <3>2. CASE i # l + 1
        <4>1. i \in 1..l /\ (i # 1 => i - 1 \in 1..l)
          BY <1>4, <1>8, <3>2
        <4>2. h.pre[s[i]] = mem.pre[s[i]]
          BY <1>3, <1>7, <4>1
        <4>3. mem.pre[s[i]] = IF i = 1 THEN Null ELSE s[i - 1]
          BY <1>11, <4>1 DEF Back
        <4>. QED
          BY <1>8, <4>1, <4>2, <4>3
      <3>. QED
        BY <3>1, <3>2
    <2>. QED
      BY <2>1 DEF Back
  <1>. QED
    BY <1>6, <1>9, <1>10, <1>11 DEF h, t

\* delete_node, whatever the memory is like: the node after p is taken out.
LEMMA DeletedType ==
    ASSUME mem \in Memory, NEW index \in 1..(Size + 1), Target(index) \in mem.live
    PROVE  LET c == Target(index)
               p == IF index = 1 THEN c ELSE Target(index - 1)
           IN  /\ Deleted(index) \in Memory
               /\ Deleted(index).head = mem.head
               /\ Deleted(index).count = mem.count - 1
               /\ Deleted(index).live = mem.live \ {c}
               /\ \A d \in Cells \ {c} :
                     /\ Deleted(index).next[d] = IF d = p THEN mem.next[c] ELSE mem.next[d]
                     /\ Deleted(index).num[d] = mem.num[d]
               /\ index # 1 => p \in mem.live /\ mem.next[p] = c
  <1>. DEFINE c == Target(index)
              p == IF index = 1 THEN c ELSE Target(index - 1)
              next1 == [mem.next EXCEPT ![p] = mem.next[c]]
              r == [mem EXCEPT !.next = next1]
              at == Walk(mem, mem.next, mem.head)
  <1>1. /\ mem.head \in Pointer /\ mem.count \in Int
        /\ mem.live \subseteq Cells
        /\ mem.next \in [Cells -> Pointer] /\ mem.pre \in [Cells -> Pointer]
        /\ mem.num \in [Cells -> Int]
    BY MemoryType
  <1>2. c \in Cells /\ c \in mem.live
    BY <1>1
  <1>3. Size \in Nat
    BY SizeIsNatural
  <1>4. ASSUME index # 1 PROVE p \in mem.live /\ mem.next[p] = c
    <2>1. IsWalk(at, mem, mem.next, mem.head)
      BY <1>1, WalkIsWalk
    <2>2. c = at[index - 1] /\ p = at[(index - 1) - 1]
      BY <1>4 DEF Target
    <2>3. index - 1 \in 1..Size
      BY <1>3, <1>4
    <2>. HIDE DEF at, p, c
    <2>4. at[index - 1] = Step(mem, mem.next, at[(index - 1) - 1])
      BY <2>1, <2>3 DEF IsWalk
    <2>5. c = Step(mem, mem.next, p)
      BY <2>2, <2>4
    <2>. QED
      BY <1>2, <2>5 DEF Step
  <1>5. Deleted(index) = [Release(r, {c}) EXCEPT !.count = @ - 1]
    BY DEF Deleted
  <1>. HIDE DEF c, p, at
  <1>6. next1 \in [Cells -> Pointer] /\ \A d \in Cells : next1[d] = IF d = p THEN mem.next[c] ELSE mem.next[d]
    BY <1>1, <1>2
  <1>. HIDE DEF next1
  <1>7. /\ r \in Memory /\ r.head = mem.head /\ r.count = mem.count /\ r.live = mem.live
        /\ r.next = next1 /\ r.pre = mem.pre /\ r.num = mem.num
    BY <1>6 DEF Memory
  <1>. HIDE DEF r
  <1>. DEFINE q == Release(r, {c})
  <1>8. /\ q \in Memory
        /\ q.head = r.head
        /\ q.count = r.count
        /\ q.live = r.live \ {c}
        /\ \A d \in Cells \ {c} : q.next[d] = r.next[d] /\ q.num[d] = r.num[d]
    BY <1>7, ReleaseType
  <1>. HIDE DEF q
  <1>9. /\ Deleted(index) \in Memory
        /\ Deleted(index).head = q.head
        /\ Deleted(index).count = q.count - 1
        /\ Deleted(index).live = q.live
        /\ Deleted(index).next = q.next
        /\ Deleted(index).num = q.num
    <2>1. Deleted(index) = [q EXCEPT !.count = q.count - 1]
      BY <1>5 DEF q
    <2>2. q.count - 1 \in Int
      BY <1>8, MemoryType
    <2>. QED
      BY <1>8, <2>1, <2>2 DEF Memory
  <1>10. \A d \in Cells \ {c} :
            /\ Deleted(index).next[d] = IF d = p THEN mem.next[c] ELSE mem.next[d]
            /\ Deleted(index).num[d] = mem.num[d]
    BY <1>6, <1>7, <1>8, <1>9
  <1>11. Deleted(index).head = mem.head /\ Deleted(index).count = mem.count - 1
         /\ Deleted(index).live = mem.live \ {c}
    BY <1>7, <1>8, <1>9
  <1>. QED
    BY <1>4, <1>9, <1>10, <1>11 DEF c, p

\* A list in which there is no delete of the first any more: it is freed, and
\* the head still points to it.
LEMMA FirstIsLost ==
    ASSUME mem \in Memory, Target(1) \in mem.live, NEW t, Lists(Deleted(1), t)
    PROVE  FALSE
  <1>1. 1 \in 1..(Size + 1) /\ Target(1) = mem.head
    <2>1. Walk(mem, mem.next, mem.head)[0] = mem.head
      BY MemoryType, WalkIsWalk DEF IsWalk
    <2>. QED
      BY <2>1, SizeIsNatural DEF Target
  <1>2. /\ Deleted(1) \in Memory
        /\ Deleted(1).head = mem.head
        /\ Deleted(1).live = mem.live \ {mem.head}
    BY <1>1, DeletedType
  <1>3. /\ Deleted(1).head = IF t = <<>> THEN Null ELSE t[1]
        /\ t \in Seq(Deleted(1).live)
    BY <1>2, ListType
  <1>4. mem.head # Null
    BY <1>1, CellAssumption, MemoryType
  <1>5. t # <<>> /\ t[1] = mem.head /\ t[1] \in Deleted(1).live
    BY <1>2, <1>3, <1>4
  <1>. QED
    BY <1>2, <1>5

\* The nodes that an index of a list stands for.
LEMMA TargetIs ==
    ASSUME mem \in Memory, NEW s, Lists(mem, s), NEW index \in 1..(Size + 1)
    PROVE  Target(index) = IF index <= Len(s) THEN s[index] ELSE Null
  <1>1. Size \in Nat /\ Len(s) \in 0..Size
    BY ListType, SizeIsNatural
  <1>2. index - 1 \in 0..Size
    BY <1>1
  <1>3. Target(index) = IF index - 1 < Len(s) THEN s[(index - 1) + 1] ELSE Null
    BY <1>2, MemoryType, ChainIsMet DEF Target, Lists
  <1>. QED
    BY <1>1, <1>2, <1>3

LEMMA RemoveAtIs ==
    ASSUME NEW V, NEW w \in Seq(V), NEW k \in 1..Len(w)
    PROVE  /\ RemoveAt(w, k) \in Seq(V) /\ Len(RemoveAt(w, k)) = Len(w) - 1
           /\ \A i \in 1..(Len(w) - 1) :
                 RemoveAt(w, k)[i] = IF i < k THEN w[i] ELSE w[i + 1]
  <1>. DEFINE l == Len(w)
              a == SubSeq(w, 1, k - 1)
              b == SubSeq(w, k + 1, l)
              u == a \o b
  <1>1. l \in Nat /\ k \in 1..l
    OBVIOUS
  <1>2. a \in Seq(V) /\ Len(a) = k - 1 /\ \A i \in 1..(k - 1) : a[i] = w[i]
    BY <1>1
  <1>3. b \in Seq(V) /\ Len(b) = l - k /\ \A i \in 1..(l - k) : b[i] = w[k + i]
    BY <1>1
  <1>4. u = RemoveAt(w, k)
    BY DEF RemoveAt
  <1>. HIDE DEF a, b, l
  <1>5. u \in Seq(V) /\ Len(u) = l - 1
    <2>1. u \in Seq(V) /\ Len(u) = Len(a) + Len(b)
      <3>1. a \in Seq(V) /\ b \in Seq(V)
        BY <1>2, <1>3
      <3>. QED
        BY <3>1
    <2>2. (k - 1) + (l - k) = l - 1
      BY <1>1
    <2>. HIDE DEF u
    <2>. QED
      BY <1>2, <1>3, <2>1, <2>2
  <1>6. ASSUME NEW i \in 1..(l - 1) PROVE u[i] = IF i < k THEN w[i] ELSE w[i + 1]
    <2>1. CASE i < k
      <3>1. i \in 1..(k - 1)
        BY <1>1, <2>1
      <3>2. u[i] = a[i]
        BY <1>2, <1>3, <3>1
      <3>. QED
        BY <1>2, <2>1, <3>1, <3>2
    <2>2. CASE ~(i < k)
      <3>1. i - (k - 1) \in 1..(l - k) /\ k + (i - (k - 1)) = i + 1
        BY <1>1, <2>2
      <3>2. u[i] = b[i - (k - 1)]
        BY <1>1, <1>2, <1>3, <2>2
      <3>. QED
        BY <1>3, <2>2, <3>1, <3>2
    <2>. QED
      BY <2>1, <2>2
  <1>. HIDE DEF u
  <1>. QED
    BY <1>4, <1>5, <1>6 DEF l

\* Any other node is taken out of the list.
LEMMA Deletes ==
    ASSUME mem \in Memory, NEW s, Lists(mem, s), NEW index \in 2..Len(s)
    PROVE  /\ Target(index) = s[index] /\ s[index] \in mem.live
           /\ Lists(Deleted(index), RemoveAt(s, index))
           /\ NumbersOf(Deleted(index), RemoveAt(s, index)) = RemoveAt(NumbersOf(mem, s), index)
  <1>. DEFINE l == Len(s)
              d == Deleted(index)
              c == s[index]
              t == [i \in 1..(l - 1) |-> IF i < index THEN s[i] ELSE s[i + 1]]
  <1>1. /\ s \in Seq(mem.live) /\ l \in 0..Size
        /\ \A i \in 1..l : s[i] \in mem.live /\ s[i] \in Cells
        /\ \A i, j \in 1..l : s[i] = s[j] => i = j
        /\ mem.head = IF s = <<>> THEN Null ELSE s[1]
        /\ \A i \in 1..l : mem.next[s[i]] = IF i = l THEN Null ELSE s[i + 1]
    BY ListType
  <1>2. /\ l \in Nat /\ index \in 1..(Size + 1) /\ index - 1 \in 1..(Size + 1)
        /\ index \in 1..l /\ index - 1 \in 1..l /\ index # 1
    BY <1>1, SizeIsNatural
  <1>3. Target(index) = c /\ Target(index - 1) = s[index - 1] /\ c \in mem.live
    <2>1. index <= l /\ index - 1 <= l
      BY <1>2
    <2>. QED
      BY <1>1, <1>2, <2>1, TargetIs
  <1>4. /\ d \in Memory
        /\ d.head = mem.head
        /\ d.live = mem.live \ {c}
        /\ \A e \in Cells \ {c} :
              /\ d.next[e] = IF e = s[index - 1] THEN mem.next[c] ELSE mem.next[e]
              /\ d.num[e] = mem.num[e]
    <2>. HIDE DEF c, d
    <2>1. (IF index = 1 THEN c ELSE Target(index - 1)) = s[index - 1]
      BY <1>2, <1>3
    <2>. QED
      BY <1>2, <1>3, <2>1, DeletedType DEF d
  <1>. HIDE DEF d
  <1>5. \A i \in 1..l : i # index => s[i] # c /\ s[i] \in d.live /\ s[i] \in Cells \ {c}
    BY <1>1, <1>2, <1>4
  <1>6. /\ \A i \in 1..(l - 1) : /\ i < index => i \in 1..l /\ i # index
                                 /\ ~(i < index) => i + 1 \in 1..l /\ i + 1 # index
    BY <1>2
  <1>7. t \in Seq(d.live) /\ Len(t) = l - 1
    <2>1. t \in [1..(l - 1) -> d.live]
      BY <1>5, <1>6
    <2>. HIDE DEF t
    <2>. QED
      BY <1>2, <2>1
  <1>8. \A i \in 1..(l - 1) : t[i] = IF i < index THEN s[i] ELSE s[i + 1]
    OBVIOUS
  <1>9. RemoveAt(s, index) = t
    <2>. DEFINE u == RemoveAt(s, index)
    <2>3. /\ u \in Seq(mem.live) /\ Len(u) = l - 1
          /\ \A i \in 1..(l - 1) : u[i] = IF i < index THEN s[i] ELSE s[i + 1]
      BY <1>1, <1>2, RemoveAtIs
    <2>4. \A i \in 1..(l - 1) : u[i] = t[i]
      BY <1>8, <2>3
    <2>. HIDE DEF t, u
    <2>5. t \in Seq(mem.live)
      <3>1. d.live \subseteq mem.live
        BY <1>4
      <3>. QED
        BY <1>7, <3>1
    <2>6. u = t
      BY <1>7, <2>3, <2>4, <2>5, SeqEqual
    <2>. QED
      BY <2>6 DEF u
  <1>. HIDE DEF t
  <1>10. Lists(d, t)
    <2>1. \A i, j \in 1..Len(t) : t[i] = t[j] => i = j
      <3>. TAKE i, j \in 1..Len(t)
      <3>. HAVE t[i] = t[j]
      <3>. DEFINE k == IF i < index THEN i ELSE i + 1
                  n == IF j < index THEN j ELSE j + 1
      <3>1. i \in 1..(l - 1) /\ j \in 1..(l - 1)
        BY <1>7
      <3>3. k \in 1..l /\ n \in 1..l /\ t[i] = s[k] /\ t[j] = s[n]
        BY <1>2, <1>8, <3>1, SMTT(30)
      <3>4. s[k] = s[n]
        BY <3>3
      <3>2. k = n
        <4>. HIDE DEF k, n
        <4>1. k \in 1..Len(s) /\ n \in 1..Len(s)
          BY <1>1, <3>3
        <4>. QED
          BY <1>1, <3>4, <4>1
      <3>. QED
        BY <1>2, <3>1, <3>2
    <2>2. d.head = IF t = <<>> THEN Null ELSE t[1]
      <3>1. 1 \in 1..(l - 1) /\ t[1] = s[1] /\ s # <<>>
        BY <1>2, <1>8
      <3>2. t # <<>>
        BY <1>7, <3>1
      <3>. QED
        BY <1>1, <1>4, <3>1, <3>2
    <2>3. ASSUME NEW i \in 1..Len(t) PROVE d.next[t[i]] = IF i = Len(t) THEN Null ELSE t[i + 1]
      <3>1. i \in 1..(l - 1)
        BY <1>7
      <3>2. CASE i = index - 1
        <4>1. t[i] = s[index - 1] /\ s[index - 1] \in Cells \ {c}
          BY <1>2, <1>5, <1>8, <3>1, <3>2
        <4>2. d.next[t[i]] = mem.next[c]
          BY <1>4, <4>1
        <4>3. mem.next[c] = IF index = l THEN Null ELSE s[index + 1]
          BY <1>1, <1>2
        <4>4. i # Len(t) => t[i + 1] = s[index + 1]
          BY <1>2, <1>7, <1>8, <3>2
        <4>5. i = Len(t) <=> index = l
          BY <1>2, <1>7, <3>2
        <4>. QED
          BY <4>2, <4>3, <4>4, <4>5
      <3>3. CASE i < index - 1
        <4>1. i \in 1..l /\ i # index /\ i # index - 1 /\ t[i] = s[i] /\ i # l /\ i # Len(t)
              /\ i + 1 < index /\ i + 1 \in 1..(l - 1)
          BY <1>2, <1>7, <1>8, <3>1, <3>3
        <4>2. s[i] \in Cells \ {c} /\ s[i] # s[index - 1]
          BY <1>1, <1>2, <1>5, <4>1
        <4>3. d.next[s[i]] = s[i + 1]
          BY <1>1, <1>4, <4>1, <4>2
        <4>. QED
          BY <1>8, <4>1, <4>3
      <3>4. CASE ~(i < index)
        <4>1. i + 1 \in 1..l /\ i + 1 # index /\ i + 1 # index - 1 /\ t[i] = s[i + 1]
          BY <1>2, <1>8, <3>1, <3>4
        <4>2. s[i + 1] \in Cells \ {c} /\ s[i + 1] # s[index - 1]
          BY <1>1, <1>2, <1>5, <4>1
        <4>3. d.next[s[i + 1]] = IF i + 1 = l THEN Null ELSE s[(i + 1) + 1]
          BY <1>1, <1>4, <4>1, <4>2
        <4>4. i + 1 = l <=> i = Len(t)
          BY <1>2, <1>7, <3>1
        <4>5. i + 1 # l => t[i + 1] = s[(i + 1) + 1]
          BY <1>2, <1>8, <3>1, <3>4, SMTT(30)
        <4>. QED
          BY <4>1, <4>3, <4>4, <4>5
      <3>. QED
        BY <1>2, <3>1, <3>2, <3>3, <3>4
    <2>. QED
      BY <1>7, <2>1, <2>2, <2>3 DEF Lists, Chain
  <1>11. NumbersOf(d, t) = RemoveAt(NumbersOf(mem, s), index)
    <2>1. s \in Seq(Cells) /\ t \in Seq(Cells)
      <3>1. d.live \subseteq Cells /\ mem.live \subseteq Cells
        BY <1>4, MemoryType
      <3>. QED
        BY <1>1, <1>7, <3>1
    <2>. DEFINE w == NumbersOf(mem, s)
                v == NumbersOf(d, t)
                u == RemoveAt(w, index)
    <2>2. w \in Seq(Int) /\ Len(w) = l /\ \A i \in 1..l : w[i] = mem.num[s[i]]
      BY <2>1, NumbersType
    <2>3. v \in Seq(Int) /\ Len(v) = l - 1 /\ \A i \in 1..(l - 1) : v[i] = d.num[t[i]]
      <3>1. d \in Memory
        BY <1>4
      <3>2. v \in Seq(Int) /\ Len(v) = Len(t) /\ \A i \in 1..Len(t) : v[i] = d.num[t[i]]
        BY <2>1, <3>1, NumbersType
      <3>. HIDE DEF v
      <3>. QED
        BY <1>7, <3>2
    <2>. HIDE DEF w, v
    <2>4. u \in Seq(Int) /\ Len(u) = l - 1
          /\ \A i \in 1..(l - 1) : u[i] = IF i < index THEN w[i] ELSE w[i + 1]
      BY <1>2, <2>2, RemoveAtIs
    <2>. HIDE DEF u
    <2>5. ASSUME NEW i \in 1..(l - 1) PROVE v[i] = u[i]
      <3>. DEFINE k == IF i < index THEN i ELSE i + 1
      <3>1. k \in 1..l /\ k # index /\ t[i] = s[k] /\ u[i] = w[k]
        BY <1>2, <1>8, <2>4
      <3>. HIDE DEF k
      <3>2. d.num[s[k]] = mem.num[s[k]]
        BY <1>4, <1>5, <3>1
      <3>. QED
        BY <2>2, <2>3, <3>1, <3>2
    <2>6. v = u
      BY <2>3, <2>4, <2>5, SeqEqual
    <2>. QED
      BY <2>6 DEF u, v, w
  <1>. QED
    BY <1>3, <1>9, <1>10, <1>11 DEF d

\* And where that leaves a list, there was one before.
LEMMA WasList ==
    ASSUME mem \in Memory, NEW index \in 2..(Size + 1), Target(index) \in mem.live,
           NEW t, Lists(Deleted(index), t)
    PROVE  \E s : Lists(mem, s)
  <1>. DEFINE l == Len(t)
              d == Deleted(index)
              c == Target(index)
              p == Target(index - 1)
  <1>1. index \in 1..(Size + 1) /\ index # 1 /\ c \in Cells
    BY SizeIsNatural, MemoryType
  <1>2. /\ d \in Memory
        /\ d.head = mem.head
        /\ d.live = mem.live \ {c}
        /\ \A e \in Cells \ {c} : d.next[e] = IF e = p THEN mem.next[c] ELSE mem.next[e]
        /\ p \in mem.live /\ mem.next[p] = c
    BY <1>1, DeletedType
  <1>. HIDE DEF d, c, p
  <1>3. /\ t \in Seq(d.live) /\ l \in 0..Size
        /\ \A i \in 1..l : t[i] \in d.live /\ t[i] \in Cells
        /\ \A i, j \in 1..l : t[i] = t[j] => i = j
        /\ d.head = IF t = <<>> THEN Null ELSE t[1]
        /\ \A i \in 1..l : d.next[t[i]] = IF i = l THEN Null ELSE t[i + 1]
    <2>1. Lists(d, t)
      BY DEF d
    <2>. QED
      BY <1>2, <2>1, ListType
  <1>4. l \in Nat /\ \A i \in 1..l : t[i] \in Cells \ {c} /\ t[i] # c /\ t[i] \in mem.live
    BY <1>2, <1>3, SizeIsNatural
  <1>5. CASE \A i \in 1..l : t[i] # p
    <2>1. t \in Seq(mem.live)
      BY <1>2, <1>3
    <2>2. \A i \in 1..l : mem.next[t[i]] = d.next[t[i]]
      BY <1>2, <1>4, <1>5
    <2>3. \A i \in 1..l : mem.next[t[i]] = IF i = l THEN Null ELSE t[i + 1]
      BY <1>3, <2>2
    <2>4. Lists(mem, t)
      BY <1>2, <1>3, <2>1, <2>3 DEF Lists, Chain
    <2>. QED
      BY <2>4
  <1>6. CASE \E j \in 1..l : t[j] = p
    <2>1. PICK j \in 1..l : t[j] = p
      BY <1>6
    <2>. DEFINE s == [i \in 1..(l + 1) |-> IF i <= j THEN t[i] ELSE IF i = j + 1 THEN c ELSE t[i - 1]]
    <2>2. /\ \A i \in 1..(l + 1) : /\ i <= j => i \in 1..l /\ s[i] = t[i]
                                   /\ i = j + 1 => s[i] = c
                                   /\ i > j + 1 => i - 1 \in 1..l /\ s[i] = t[i - 1]
                                   /\ i <= j \/ i = j + 1 \/ i > j + 1
      BY <1>4
    <2>3. c \in mem.live /\ p # c
      BY <1>4, <2>1 DEF c
    <2>4. s \in Seq(mem.live) /\ Len(s) = l + 1
      <3>1. \A i \in 1..(l + 1) : s[i] \in mem.live
        <4>. TAKE i \in 1..(l + 1)
        <4>. HIDE DEF s
        <4>. QED
          BY <1>4, <2>2, <2>3
      <3>2. s \in [1..(l + 1) -> mem.live]
        BY <3>1
      <3>. HIDE DEF s
      <3>. QED
        BY <1>4, <3>2
    <2>. HIDE DEF s
    <2>5. \A i, k \in 1..Len(s) : s[i] = s[k] => i = k
      <3>1. \A i \in 1..(l + 1) : s[i] = c => i = j + 1
        BY <1>4, <2>2
      <3>2. \A i, k \in 1..(l + 1) : i # j + 1 /\ k # j + 1 /\ s[i] = s[k] => i = k
        <4>. TAKE i, k \in 1..(l + 1)
        <4>. HAVE i # j + 1 /\ k # j + 1 /\ s[i] = s[k]
        <4>. DEFINE a == IF i <= j THEN i ELSE i - 1
                    b == IF k <= j THEN k ELSE k - 1
        <4>1. a \in 1..l /\ b \in 1..l /\ s[i] = t[a] /\ s[k] = t[b]
          BY <1>4, <2>2
        <4>2. a = b
          <5>. HIDE DEF a, b
          <5>. QED
            BY <1>3, <4>1
        <4>. QED
          BY <1>4, <4>2
      <3>3. j + 1 \in 1..(l + 1) /\ s[j + 1] = c
        BY <1>4, <2>2
      <3>. QED
        BY <2>4, <3>1, <3>2, <3>3
    <2>6. mem.head = IF s = <<>> THEN Null ELSE s[1]
      <3>1. 1 \in 1..(l + 1) /\ 1 <= j /\ s[1] = t[1] /\ t # <<>>
        BY <1>4, <2>2
      <3>2. s # <<>>
        BY <1>4, <2>4
      <3>. QED
        BY <1>2, <1>3, <3>1, <3>2
    <2>7. ASSUME NEW i \in 1..Len(s)
          PROVE mem.next[s[i]] = IF i = Len(s) THEN Null ELSE s[i + 1]
      <3>1. i \in 1..(l + 1)
        BY <2>4
      <3>2. CASE i < j
        <4>1. i \in 1..l /\ s[i] = t[i] /\ i + 1 \in 1..(l + 1) /\ s[i + 1] = t[i + 1] /\ i # l
              /\ i # Len(s) /\ i # j
          BY <1>4, <2>2, <2>4, <3>1, <3>2
        <4>2. t[i] # p
          BY <1>3, <2>1, <4>1
        <4>. QED
          BY <1>2, <1>3, <1>4, <4>1, <4>2
      <3>3. CASE i = j
        <4>1. s[i] = p /\ i + 1 \in 1..(l + 1) /\ s[i + 1] = c /\ i # Len(s)
          BY <1>4, <2>1, <2>2, <2>4, <3>1, <3>3
        <4>. QED
          BY <1>2, <4>1
      <3>4. CASE i = j + 1
        <4>1. s[i] = c /\ (i = Len(s) <=> j = l)
          BY <1>4, <2>2, <2>4, <3>1, <3>4
        <4>2. d.next[p] = mem.next[c]
          BY <1>2, <1>4, <2>1
        <4>3. d.next[p] = IF j = l THEN Null ELSE t[j + 1]
          BY <1>3, <2>1
        <4>4. j # l => i + 1 \in 1..(l + 1) /\ s[i + 1] = t[j + 1]
          BY <1>4, <2>2, <3>4
        <4>. QED
          BY <4>1, <4>2, <4>3, <4>4
      <3>5. CASE i > j + 1
        <4>1. i - 1 \in 1..l /\ s[i] = t[i - 1] /\ i - 1 # j /\ (i = Len(s) <=> i - 1 = l)
          BY <1>4, <2>2, <2>4, <3>1, <3>5
        <4>2. t[i - 1] # p
          BY <1>3, <2>1, <4>1
        <4>3. mem.next[t[i - 1]] = d.next[t[i - 1]]
          BY <1>2, <1>4, <4>1, <4>2
        <4>4. d.next[t[i - 1]] = IF i - 1 = l THEN Null ELSE t[(i - 1) + 1]
          BY <1>3, <4>1
        <4>5. i # Len(s) => i + 1 \in 1..(l + 1) /\ s[i + 1] = t[(i - 1) + 1]
          <5>1. i # Len(s) => i + 1 \in 1..(l + 1) /\ i + 1 > j + 1 /\ (i + 1) - 1 = (i - 1) + 1
            BY <1>4, <2>4, <3>1, <3>5
          <5>. QED
            BY <2>2, <5>1
        <4>. QED
          BY <4>1, <4>3, <4>4, <4>5
      <3>. QED
        BY <1>4, <3>1, <3>2, <3>3, <3>4, <3>5
    <2>8. Lists(mem, s)
      BY <2>4, <2>5, <2>6, <2>7 DEF Lists, Chain
    <2>. QED
      BY <2>8
  <1>. QED
    BY <1>5, <1>6

--------------------------------------------------------------------------
(* The inductive invariant.                                                *)

\* The links backwards are usable until something is deleted: DescShow shows
\* the list by them.
BackLinks == doubly /\ ~deleted /\ Sound => Back(mem, List)

IInv == TypeOK /\ CountWithinList /\ BackLinks

\* What NumberList is told of the list.
Items == IF Sound THEN NumbersOf(mem, List) ELSE Undefined

\* A list that is sound.
LEMMA SoundList ==
    ASSUME IInv, Sound
    PROVE  /\ Lists(mem, List)
           /\ List \in Seq(Cells) /\ Len(List) \in 0..Size
           /\ Items = NumbersOf(mem, List)
           /\ Items \in Seq(Int) /\ Len(Items) = Len(List)
           /\ mem.count \in 0..Len(List)
           /\ Len(List) \in Nat /\ mem.count \in Nat /\ mem.count <= Len(List)
           /\ List # <<>> => List[1] \in mem.live /\ List[1] \in Cells
           /\ mem.head = IF List = <<>> THEN Null ELSE List[1]
           /\ doubly /\ ~deleted => Back(mem, List)
  <1>1. mem \in Memory
    BY DEF IInv, TypeOK
  <1>2. Lists(mem, List)
    BY <1>1, WalkedIsList DEF Sound, List
  <1>3. List \in Seq(Cells) /\ Len(List) \in 0..Size
    <2>1. List \in Seq(mem.live) /\ Len(List) \in 0..Size
      BY <1>1, <1>2, ListType
    <2>. QED
      BY <1>1, <2>1, MemoryType
  <1>4. Items = NumbersOf(mem, List)
    BY DEF Items
  <1>5. Items \in Seq(Int) /\ Len(Items) = Len(List)
    BY <1>1, <1>3, <1>4, NumbersType
  <1>6. Len(List) \in Nat
    BY <1>3, SizeIsNatural
  <1>7. mem.count \in 0..Len(List)
    BY DEF IInv, CountWithinList
  <1>8. mem.count \in Nat /\ mem.count <= Len(List)
    BY <1>6, <1>7
  <1>9. List # <<>> => List[1] \in mem.live /\ List[1] \in Cells
    <2>1. List # <<>> => 1 \in 1..Len(List)
      BY <1>3, <1>6
    <2>. QED
      BY <1>1, <1>2, <2>1, ListType
  <1>10. mem.head = IF List = <<>> THEN Null ELSE List[1]
    BY <1>1, <1>2, ListType
  <1>. QED
    BY <1>2, <1>3, <1>4, <1>5, <1>6, <1>7, <1>8, <1>9, <1>10 DEF IInv, BackLinks

\* There is no list that is not sound as long as nothing went wrong.
LEMMA NoOtherList ==
    ASSUME IInv, fault = "none", ~Sound, NEW s, Lists(mem, s)
    PROVE  FALSE
  BY ListIsWalked DEF IInv, TypeOK, Sound

\* Showing a list.
LEMMA ListingShows ==
    ASSUME NEW m \in Memory, NEW link \in [Cells -> Pointer], NEW p \in Pointer,
           shown \in Seq(Int), Listing(m, link, p)
    PROVE  /\ fault' \in Faults /\ shown' \in Seq(Int)
           /\ \A t : Chain(m, link, p, t) =>
                 /\ fault' = "none"
                 /\ shown' = Refined!Listing(NumbersOf(m, t), m.count)
  <1>1. m.live \subseteq Cells /\ EndOf(m, link, p) \in Faults
    BY MemoryType DEF EndOf, Faults
  <1>2. fault' \in Faults
    BY <1>1 DEF Listing, Faults
  <1>3. ASSUME EndOf(m, link, p) = "none" PROVE NumbersOf(m, Nodes(m, link, p)) \in Seq(Int)
    <2>1. Chain(m, link, p, Nodes(m, link, p))
      BY <1>1, <1>3, WalkedIsChain
    <2>2. Nodes(m, link, p) \in Seq(Cells)
      BY <1>1, <2>1 DEF Chain
    <2>. QED
      BY <2>2, NumbersType
  <1>4. shown' \in Seq(Int)
    <2>1. <<>> \in Seq(Int)
      OBVIOUS
    <2>. QED
      BY <1>3, <2>1 DEF Listing
  <1>5. ASSUME NEW t, Chain(m, link, p, t)
        PROVE  fault' = "none" /\ shown' = Refined!Listing(NumbersOf(m, t), m.count)
    <2>1. EndOf(m, link, p) = "none" /\ Nodes(m, link, p) = t
      BY <1>1, <1>5, ChainIsWalked
    <2>. QED
      BY <2>1 DEF Listing, Refined!Listing
  <1>. QED
    BY <1>2, <1>4, <1>5

LEMMA DoneShows ==
    ASSUME IInv, Running, NEW m \in Memory, Done(m)
    PROVE  /\ mem' = m
           /\ fault' \in Faults /\ shown' \in Seq(Int)
           /\ \A t : Lists(m, t) =>
                 /\ fault' = "none"
                 /\ shown' = IF doubly THEN shown ELSE Refined!Listing(NumbersOf(m, t), m.count)
  <1>1. mem' = m
    BY DEF Done
  <1>2. shown \in Seq(Int) /\ fault = "none"
    BY DEF IInv, TypeOK, Running
  <1>3. CASE doubly
    BY <1>1, <1>2, <1>3 DEF Done, Faults
  <1>4. CASE ~doubly
    <2>1. Listing(m, m.next, m.head)
      BY <1>4 DEF Done
    <2>2. m.next \in [Cells -> Pointer] /\ m.head \in Pointer
      BY MemoryType
    <2>3. /\ fault' \in Faults /\ shown' \in Seq(Int)
          /\ \A t : Chain(m, m.next, m.head, t) =>
                /\ fault' = "none"
                /\ shown' = Refined!Listing(NumbersOf(m, t), m.count)
      BY <1>2, <2>1, <2>2, ListingShows
    <2>. QED
      BY <1>1, <1>4, <2>3 DEF Lists
  <1>. QED
    BY <1>3, <1>4

\* After an operation that leaves a list.
LEMMA ToList ==
    ASSUME TypeOK', fault' = "none", NEW t, Lists(mem', t), mem'.count \in 0..Len(t),
           doubly' /\ ~deleted' => Back(mem', t)
    PROVE  /\ IInv' /\ Sound' /\ List' = t
           /\ Items' = NumbersOf(mem', t)
           /\ Lost' = mem'.live \ Range(t)
  <1>1. mem' \in Memory
    BY DEF TypeOK
  <1>2. EndOf(mem', mem'.next, mem'.head) = "none" /\ Nodes(mem', mem'.next, mem'.head) = t
    BY <1>1, ListIsWalked
  <1>3. Sound' /\ List' = t
    BY <1>2 DEF Sound, List
  <1>. QED
    BY <1>3 DEF IInv, CountWithinList, BackLinks, Items, Lost

\* After one that went wrong, or leaves none.
LEMMA ToNone ==
    ASSUME TypeOK', fault' # "none" \/ \A t : ~Lists(mem', t)
    PROVE  IInv' /\ ~Sound' /\ Items' = Undefined
  <1>1. mem' \in Memory
    BY DEF TypeOK
  <1>2. ~Sound'
    <2>. SUFFICES ASSUME Sound' PROVE FALSE
      OBVIOUS
    <2>1. fault' = "none" /\ EndOf(mem', mem'.next, mem'.head) = "none"
      BY DEF Sound
    <2>2. Lists(mem', Nodes(mem', mem'.next, mem'.head))
      BY <1>1, <2>1, WalkedIsList
    <2>. QED
      BY <2>1, <2>2
  <1>. QED
    BY <1>2 DEF IInv, CountWithinList, BackLinks, Items

\* After one that fails the memory is as it was.
LEMMA FailKeeps ==
    ASSUME IInv, NEW f \in Faults, f # "none", Fail(f), doubly' = doubly, deleted' \in BOOLEAN
    PROVE  IInv' /\ ~Sound' /\ Items' = Undefined /\ LosesOnlyThen
  <1>1. TypeOK'
    BY DEF IInv, TypeOK, Fail
  <1>2. mem' = mem /\ fault' # "none"
    BY DEF Fail
  <1>3. IInv' /\ ~Sound' /\ Items' = Undefined
    BY <1>1, <1>2, ToNone
  <1>4. Lost' = Lost
    BY <1>2 DEF Lost, List
  <1>. QED
    BY <1>3, <1>4 DEF LosesOnlyThen

\* Where a count is.
LEMMA InRange ==
    ASSUME NEW n \in Nat
    PROVE  /\ n \in 0..n /\ 1 \in 1..(n + 1)
           /\ \A k \in Nat : k <= n /\ k # 0 => n # 0
           /\ \A w : w = <<>> /\ Len(w) = n => n = 0
  OBVIOUS

\* A sequence with one before it.
LEMMA Prepended ==
    ASSUME NEW n \in Int, NEW w \in Seq(Int)
    PROVE  <<n>> \o w # <<>> /\ Tail(<<n>> \o w) = w
  OBVIOUS

\* A step keeps the promise.
LEMMA Promised ==
    ASSUME doubly' = doubly,
           \/ ~Sound
           \/ Refined!New \/ Refined!InsertFirst \/ Refined!InsertLast
           \/ Refined!TakeOut \/ Refined!Show \/ Refined!Leave \/ Refined!Misuse
    PROVE  Refined!Next
  BY DEF Refined!Next

--------------------------------------------------------------------------
(* The steps: each keeps the invariant, loses no node but where it says    *)
(* so, and is a step of the promise.                                       *)

Kept == IInv' /\ LosesOnlyThen /\ Refined!Next

\* create and bulk_create, once the numbers are known.
LEMMA ReplaceKeeps ==
    ASSUME IInv, Running, op' \in {"create", "bulk create"},
           NEW nums \in Seq(Int), Replace(nums)
    PROVE  Kept
  <1>1. mem \in Memory /\ doubly' = doubly /\ deleted' = FALSE
    BY DEF IInv, TypeOK, Replace
  <1>2. Sound => FreeFault(mem) = "none"
    BY DEF Sound, FreeFault
  <1>3. CASE FreeFault(mem) # "none"
    <2>1. Fail(FreeFault(mem)) /\ FreeFault(mem) \in Faults
      BY <1>3 DEF Replace, FreeFault, Faults
    <2>2. IInv' /\ LosesOnlyThen
      BY <1>1, <1>3, <2>1, FailKeeps
    <2>3. Refined!Next
      BY <1>1, <1>2, <1>3, Promised
    <2>. QED
      BY <2>2, <2>3 DEF Kept
  <1>4. CASE FreeFault(mem) = "none"
    <2>. DEFINE m == FreeLinkList(mem)
    <2>1. PICK cells \in Taken(m, Len(nums)) : Done(Built(m, cells, nums))
      BY <1>4 DEF Replace
    <2>2. /\ m \in Memory /\ m.head = mem.head
          /\ \A s : Lists(mem, s) /\ ~Keeps(mem) => m.live = mem.live \ Range(s)
      BY <1>1, <1>4, FreeLinkListType
    <2>. HIDE DEF m
    <2>. DEFINE b == Built(m, cells, nums)
    <2>3. /\ b \in Memory /\ Lists(b, cells) /\ b.count = Len(nums)
          /\ b.live = m.live \cup Range(cells)
          /\ Len(cells) = Len(nums) /\ NumbersOf(b, cells) = nums
          /\ doubly => Back(b, cells)
      BY <2>2, BuiltLists, ZenonT(30)
    <2>4. Done(b)
      BY <2>1
    <2>. HIDE DEF b
    <2>5. /\ mem' = b /\ fault' = "none" /\ shown' \in Seq(Int)
          /\ shown' = IF doubly THEN shown ELSE Refined!Listing(NumbersOf(b, cells), b.count)
      BY <2>3, <2>4, DoneShows
    <2>6. TypeOK'
      BY <1>1, <2>3, <2>5 DEF IInv, TypeOK, Faults
    <2>7. /\ IInv' /\ Sound' /\ List' = cells /\ Items' = nums
          /\ Lost' = b.live \ Range(cells)
      <3>1. mem'.count \in 0..Len(cells)
        <4>1. Len(nums) \in Nat
          BY LenProperties
        <4>2. mem'.count = Len(nums) /\ Len(cells) = Len(nums)
          BY <2>3, <2>5
        <4>. QED
          BY <4>1, <4>2, InRange
      <3>. QED
        BY <1>1, <2>3, <2>5, <2>6, <3>1, ToList
    <2>8. LosesOnlyThen
      <3>. SUFFICES ASSUME Sound, mem.count # 0 PROVE Lost' \subseteq Lost
        BY DEF LosesOnlyThen
      <3>1. Lists(mem, List) /\ List # <<>>
        <4>1. /\ Lists(mem, List) /\ List \in Seq(Cells)
              /\ Len(List) \in Nat /\ mem.count \in Nat /\ mem.count <= Len(List)
          BY SoundList
        <4>. QED
          BY <4>1, InRange
      <3>2. ~Keeps(mem)
        <4>1. mem.head \in Cells
          BY <3>1, SoundList
        <4>. QED
          BY <4>1, CellAssumption DEF Keeps
      <3>3. m.live = Lost
        BY <2>2, <3>1, <3>2 DEF Lost
      <3>. QED
        BY <2>3, <2>7, <3>3
    <2>9. Refined!New
      <3>1. Items' \in Seq(Int) /\ mem'.count = Len(Items')
        BY <2>3, <2>5, <2>7
      <3>2. shown' = IF doubly THEN shown ELSE Refined!Listing(Items', mem'.count)
        BY <2>3, <2>5, <2>7
      <3>. QED
        BY <1>1, <3>1, <3>2 DEF Refined!New, Refined!Display, Items
    <2>10. Refined!Next
      BY <1>1, <2>9, Promised
    <2>. QED
      BY <2>7, <2>8, <2>10 DEF Kept
  <1>. QED
    BY <1>3, <1>4

LEMMA CreateKeeps ==
    ASSUME IInv, Create
    PROVE  Kept
  <1>1. PICK len \in 0..MaxLength : \E nums \in [1..len -> Numbers] : Replace(nums)
    BY DEF Create
  <1>2. PICK nums \in [1..len -> Numbers] : Replace(nums)
    BY <1>1
  <1>3. nums \in Seq(Int)
    <2>1. len \in Nat
      BY InputAssumption
    <2>2. nums \in [1..len -> Int]
      BY InputAssumption
    <2>. QED
      BY <2>1, <2>2
  <1>. QED
    BY <1>2, <1>3, ReplaceKeeps DEF Create

LEMMA BulkCreateKeeps ==
    ASSUME IInv, BulkCreate
    PROVE  Kept
  <1>1. PICK len \in 0..MaxLength : Replace([i \in 1..len |-> i])
    BY DEF BulkCreate
  <1>2. [i \in 1..len |-> i] \in Seq(Int)
    <2>1. len \in Nat
      BY InputAssumption
    <2>. QED
      BY <2>1
  <1>. QED
    BY <1>1, <1>2, ReplaceKeeps DEF BulkCreate

LEMMA HeadInsertNodeKeeps ==
    ASSUME IInv, HeadInsertNode
    PROVE  Kept
  <1>1. PICK c \in Cells \ mem.live, n \in Numbers :
           IF doubly /\ mem.head \notin mem.live \cup {c}
           THEN Fail(Reading(mem, mem.head))
           ELSE Done(HeadInserted(c, n))
    BY DEF HeadInsertNode
  <1>2. /\ mem \in Memory /\ n \in Int /\ Running /\ fault = "none"
        /\ doubly' = doubly /\ deleted' = deleted /\ deleted \in BOOLEAN
        /\ op' = "head insert"
    BY InputAssumption DEF IInv, TypeOK, HeadInsertNode, Running
  <1>3. ASSUME Sound
        PROVE  mem.head = IF List = <<>> THEN Null ELSE List[1]
    BY <1>3, SoundList
  <1>4. CASE doubly /\ mem.head \notin mem.live \cup {c}
    <2>1. /\ Reading(mem, mem.head) \in Faults /\ Reading(mem, mem.head) # "none"
          /\ Fail(Reading(mem, mem.head))
      BY <1>1, <1>4 DEF Reading, Faults
    <2>2. IInv' /\ Items' = Undefined /\ LosesOnlyThen
      BY <1>2, <2>1, FailKeeps
    <2>3. ASSUME Sound PROVE Refined!Misuse
      <3>1. Lists(mem, List)
        BY <2>3, SoundList
      <3>2. List = <<>>
        <4>1. List # <<>> => 1 \in 1..Len(List)
          BY <2>3, SoundList
        <4>2. List # <<>> => List[1] \in mem.live
          BY <1>2, <3>1, <4>1, ListType
        <4>. QED
          BY <1>3, <1>4, <2>3, <4>2
      <3>3. Items = <<>>
        BY <2>3, <3>2, SoundList
      <3>. QED
        BY <1>2, <1>4, <2>2, <3>3 DEF Refined!Misuse, Items
    <2>4. Refined!Next
      BY <1>2, <2>3, Promised
    <2>. QED
      BY <2>2, <2>4 DEF Kept
  <1>5. CASE ~(doubly /\ mem.head \notin mem.live \cup {c})
    <2>. DEFINE h == HeadInserted(c, n)
    <2>1. /\ h \in Memory /\ h.count = mem.count + 1 /\ h.live = mem.live \cup {c}
          /\ \A s : Lists(mem, s) =>
                 /\ Lists(h, <<c>> \o s)
                 /\ NumbersOf(h, <<c>> \o s) = <<n>> \o NumbersOf(mem, s)
                 /\ doubly /\ s # <<>> /\ Back(mem, s) => Back(h, <<c>> \o s)
          /\ \A t : Lists(h, t) => Lists(mem, Tail(t))
      BY <1>2, HeadInserts
    <2>2. Done(h)
      BY <1>1, <1>5
    <2>. HIDE DEF h
    <2>3. /\ mem' = h /\ fault' \in Faults /\ shown' \in Seq(Int)
          /\ \A t : Lists(h, t) =>
                /\ fault' = "none"
                /\ shown' = IF doubly THEN shown ELSE Refined!Listing(NumbersOf(h, t), h.count)
      BY <1>2, <2>1, <2>2, DoneShows
    <2>4. TypeOK'
      BY <1>2, <2>1, <2>3 DEF IInv, TypeOK
    <2>5. CASE ~Sound
      <3>1. \A t : ~Lists(mem', t)
        BY <1>2, <2>1, <2>3, <2>5, NoOtherList
      <3>2. IInv'
        BY <2>4, <3>1, ToNone
      <3>. QED
        BY <1>2, <2>5, <3>2, Promised DEF Kept, LosesOnlyThen
    <2>6. CASE Sound
      <3>. DEFINE s == List
                  t == <<c>> \o s
      <3>1. /\ Lists(mem, s) /\ s \in Seq(Cells) /\ Len(s) \in 0..Size
            /\ Items = NumbersOf(mem, s) /\ Items \in Seq(Int)
            /\ Len(s) \in Nat /\ mem.count \in Nat /\ mem.count <= Len(s)
            /\ doubly /\ ~deleted => Back(mem, s)
        BY <2>6, SoundList
      <3>2. mem.head = IF s = <<>> THEN Null ELSE s[1]
        BY <1>3, <2>6
      <3>3. doubly => s # <<>>
        <4>1. Null \notin mem.live \cup {c}
          BY <1>2, CellAssumption, MemoryType
        <4>. QED
          BY <1>5, <3>2, <4>1
      <3>. HIDE DEF s
      <3>4. /\ Lists(h, t) /\ NumbersOf(h, t) = <<n>> \o Items
            /\ doubly /\ ~deleted => Back(h, t)
        BY <2>1, <3>1, <3>3
      <3>5. /\ Len(t) = Len(s) + 1
            /\ Range(s) \cup {c} \subseteq Range(t)
        <4>1. Len(t) = Len(s) + 1 /\ t[1] = c /\ DOMAIN t = 1..(Len(s) + 1)
              /\ \A i \in 1..Len(s) : t[i + 1] = s[i]
          <5>1. <<c>> \in Seq(Cells) /\ Len(<<c>>) = 1 /\ <<c>>[1] = c
            <6>1. c \in Cells
              OBVIOUS
            <6>. QED
              BY <6>1
          <5>2. /\ t \in Seq(Cells) /\ Len(t) = 1 + Len(s)
                /\ \A i \in 1..(1 + Len(s)) : t[i] = IF i <= 1 THEN <<c>>[i] ELSE s[i - 1]
            BY <3>1, <5>1, ConcatProperties
          <5>3. \A i \in 1..Len(s) : i + 1 \in 1..(1 + Len(s)) /\ ~(i + 1 <= 1) /\ (i + 1) - 1 = i
            BY <3>1
          <5>. QED
            BY <3>1, <5>1, <5>2, <5>3
        <4>2. \A i \in 1..Len(s) : i + 1 \in DOMAIN t
          BY <3>1, <4>1, SizeIsNatural
        <4>3. 1 \in DOMAIN t /\ DOMAIN s = 1..Len(s)
          BY <3>1, <4>1, SizeIsNatural
        <4>. HIDE DEF t
        <4>. QED
          BY <4>1, <4>2, <4>3 DEF Range
      <3>6. fault' = "none"
            /\ shown' = IF doubly THEN shown ELSE Refined!Listing(NumbersOf(h, t), h.count)
        BY <2>3, <3>4
      <3>. HIDE DEF t
      <3>7. /\ IInv' /\ Sound' /\ Items' = <<n>> \o Items
            /\ Lost' = h.live \ Range(t)
        <4>1. mem'.count \in 0..Len(t)
          <5>1. mem'.count = mem.count + 1
            BY <2>1, <2>3
          <5>. QED
            BY <3>1, <3>5, <5>1
        <4>. QED
          BY <1>2, <2>3, <2>4, <3>4, <3>6, <4>1, ToList
      <3>8. LosesOnlyThen
        BY <2>1, <3>5, <3>7 DEF LosesOnlyThen, Lost, s
      <3>9. Refined!InsertFirst
        <4>1. Items' # <<>> /\ Tail(Items') = Items
          <5>1. n \in Int /\ Items \in Seq(Int)
            BY <1>2, <3>1
          <5>2. <<n>> \o Items # <<>> /\ Tail(<<n>> \o Items) = Items
            BY <5>1, Prepended
          <5>. QED
            BY <3>7, <5>2
        <4>2. mem'.count = mem.count + 1
          BY <2>1, <2>3
        <4>3. shown' = IF doubly THEN shown ELSE Refined!Listing(Items', mem'.count)
          BY <2>3, <3>4, <3>6, <3>7
        <4>4. doubly => Items # <<>>
          <5>1. doubly => Len(Items) # 0
            <6>1. Len(Items) = Len(s)
              BY <2>6, SoundList DEF s
            <6>. QED
              BY <3>1, <3>3, <6>1
          <5>. QED
            BY <5>1
        <4>. QED
          BY <1>2, <4>1, <4>2, <4>3, <4>4 DEF Refined!InsertFirst, Refined!Display, Items
      <3>10. Refined!Next
        BY <1>2, <3>9, Promised
      <3>. QED
        BY <3>7, <3>8, <3>10 DEF Kept
    <2>. QED
      BY <2>5, <2>6
  <1>. QED
    BY <1>1, <1>4, <1>5
--------------------------------------------------------------------------
(* What the other operations have in common.                               *)

\* An operation that ends in a list.
LEMMA DoneToList ==
    ASSUME IInv, Running, NEW m \in Memory, Done(m), NEW t, Lists(m, t),
           m.count \in 0..Len(t), doubly' = doubly, deleted' \in BOOLEAN,
           doubly /\ ~deleted' => Back(m, t)
    PROVE  /\ mem' = m /\ IInv' /\ Sound'
           /\ Items' = NumbersOf(m, t)
           /\ Lost' = m.live \ Range(t)
           /\ shown' = IF doubly THEN shown ELSE Refined!Listing(Items', mem'.count)
  <1>1. /\ mem' = m /\ fault' = "none" /\ shown' \in Seq(Int)
        /\ shown' = IF doubly THEN shown ELSE Refined!Listing(NumbersOf(m, t), m.count)
    BY DoneShows
  <1>2. TypeOK'
    BY <1>1 DEF IInv, TypeOK, Faults
  <1>3. /\ IInv' /\ Sound' /\ Items' = NumbersOf(m, t)
        /\ Lost' = m.live \ Range(t)
    BY <1>1, <1>2, ToList
  <1>. QED
    BY <1>1, <1>3

\* An operation that ends in none.
LEMMA DoneToNone ==
    ASSUME IInv, Running, NEW m \in Memory, Done(m), \A t : ~Lists(m, t),
           doubly' = doubly, deleted' \in BOOLEAN
    PROVE  IInv' /\ ~Sound' /\ Items' = Undefined
  <1>1. mem' = m /\ fault' \in Faults /\ shown' \in Seq(Int)
    BY DoneShows
  <1>2. TypeOK'
    BY <1>1 DEF IInv, TypeOK
  <1>. QED
    BY <1>1, <1>2, ToNone

\* The memory that is not touched holds what it held.
LEMMA MemoryKept ==
    ASSUME IInv, fault = "none", mem' = mem, doubly' = doubly, deleted' = deleted,
           fault' \in Faults, shown' \in Seq(Int)
    PROVE  /\ IInv' /\ LosesOnlyThen
           /\ Items' = IF Sound /\ fault' = "none" THEN Items ELSE Undefined
  <1>1. TypeOK'
    BY DEF IInv, TypeOK
  <1>2. LosesOnlyThen
    BY DEF LosesOnlyThen, Lost, List
  <1>3. CASE Sound /\ fault' = "none"
    <2>1. /\ Lists(mem, List) /\ mem.count \in 0..Len(List)
          /\ doubly /\ ~deleted => Back(mem, List)
          /\ Items = NumbersOf(mem, List)
      BY <1>3, SoundList
    <2>. DEFINE s == List
    <2>. HIDE DEF s
    <2>2. /\ Lists(mem', s) /\ mem'.count \in 0..Len(s)
          /\ doubly' /\ ~deleted' => Back(mem', s)
          /\ Items = NumbersOf(mem', s)
      BY <2>1 DEF s
    <2>3. IInv' /\ Items' = NumbersOf(mem', s)
      BY <1>1, <1>3, <2>2, ToList
    <2>. QED
      BY <1>2, <1>3, <2>2, <2>3
  <1>4. CASE ~(Sound /\ fault' = "none")
    <2>1. fault' # "none" \/ \A t : ~Lists(mem', t)
      BY <1>4, NoOtherList
    <2>2. IInv' /\ Items' = Undefined
      BY <1>1, <2>1, ToNone
    <2>. QED
      BY <1>2, <1>4, <2>2
  <1>. QED
    BY <1>3, <1>4

\* Where get_tail fails, a list that is sound is empty.
LEMMA NoTail ==
    ASSUME IInv, fault = "none"
    PROVE  /\ TailFault \in Faults
           /\ TailFault # "none" /\ Sound => Items = <<>>
           /\ TailFault = "none" => Sound /\ List # <<>>
  <1>1. mem \in Memory /\ mem.live \subseteq Cells
    BY MemoryType DEF IInv, TypeOK
  <1>2. TailFault \in Faults
    BY DEF TailFault, Reading, EndOf, Faults
  <1>3. ASSUME TailFault # "none", Sound PROVE Items = <<>>
    <2>1. mem.head \notin mem.live
      BY <1>3 DEF TailFault, Sound
    <2>2. List = <<>> /\ Items \in Seq(Int) /\ Len(Items) = Len(List)
      BY <1>3, <2>1, SoundList
    <2>3. Len(Items) = 0
      BY <2>2
    <2>. QED
      BY <2>2, <2>3
  <1>4. ASSUME TailFault = "none" PROVE Sound /\ List # <<>>
    <2>1. mem.head \in mem.live
      BY <1>4 DEF TailFault, Reading
    <2>2. Sound
      BY <1>4, <2>1 DEF TailFault, Sound
    <2>3. mem.head # Null
      BY <1>1, <2>1, CellAssumption
    <2>. QED
      BY <2>2, <2>3, SoundList
  <1>. QED
    BY <1>2, <1>3, <1>4

\* A sequence with one after it.
LEMMA Appended ==
    ASSUME NEW n \in Int, NEW w \in Seq(Int)
    PROVE  Append(w, n) # <<>> /\ Refined!Front(Append(w, n)) = w
  BY DEF Refined!Front

LEMMA TailInsertNodeKeeps ==
    ASSUME IInv, TailInsertNode
    PROVE  Kept
  <1>1. PICK c \in Cells \ mem.live, n \in Numbers :
           IF TailFault # "none" THEN Fail(TailFault) ELSE Done(TailInserted(c, n))
    BY DEF TailInsertNode
  <1>2. /\ mem \in Memory /\ n \in Int /\ Running /\ fault = "none"
        /\ doubly' = doubly /\ deleted' = deleted /\ deleted \in BOOLEAN
        /\ op' = "tail insert"
    BY InputAssumption DEF IInv, TypeOK, TailInsertNode, Running
  <1>3. CASE TailFault # "none"
    <2>1. TailFault \in Faults /\ Fail(TailFault)
      BY <1>1, <1>2, <1>3, NoTail
    <2>2. IInv' /\ Items' = Undefined /\ LosesOnlyThen
      BY <1>2, <1>3, <2>1, FailKeeps
    <2>3. ASSUME Sound PROVE Refined!Misuse
      <3>1. Items = <<>>
        BY <1>2, <1>3, <2>3, NoTail
      <3>. QED
        BY <1>2, <2>2, <3>1 DEF Refined!Misuse, Items
    <2>4. Refined!Next
      BY <1>2, <2>3, Promised
    <2>. QED
      BY <2>2, <2>4 DEF Kept
  <1>4. CASE TailFault = "none"
    <2>1. Sound /\ List # <<>>
      BY <1>2, <1>4, NoTail
    <2>. DEFINE s == List
                t == Append(s, c)
                h == TailInserted(c, n)
    <2>2. /\ Lists(mem, s) /\ s \in Seq(Cells) /\ Len(s) \in Nat
          /\ Items = NumbersOf(mem, s) /\ Items \in Seq(Int) /\ Len(Items) = Len(s)
          /\ mem.count \in Nat /\ mem.count <= Len(s)
          /\ doubly /\ ~deleted => Back(mem, s)
      BY <2>1, SoundList
    <2>3. Items # <<>>
      <3>1. Len(s) # 0
        BY <2>1, <2>2
      <3>. HIDE DEF s
      <3>. QED
        BY <2>2, <3>1
    <2>4. Done(h)
      BY <1>1, <1>4
    <2>5. /\ h \in Memory /\ h.count = mem.count /\ h.live = mem.live \cup {c}
          /\ Lists(h, t) /\ NumbersOf(h, t) = Append(Items, n)
          /\ doubly /\ Back(mem, s) => Back(h, t)
      BY <1>2, <2>1, <2>2, TailInserts
    <2>. HIDE DEF h
    <2>6. /\ Len(t) = Len(s) + 1 /\ Range(s) \cup {c} \subseteq Range(t)
      <3>1. c \in Cells
        OBVIOUS
      <3>. HIDE DEF s
      <3>2. /\ t \in Seq(Cells) /\ Len(t) = Len(s) + 1
            /\ \A i \in 1..Len(s) : t[i] = s[i]
            /\ t[Len(s) + 1] = c
        BY <2>2, <3>1, AppendProperties
      <3>. HIDE DEF t
      <3>3. /\ DOMAIN t = 1..(Len(s) + 1) /\ DOMAIN s = 1..Len(s)
            /\ Len(s) + 1 \in 1..(Len(s) + 1)
            /\ \A i \in 1..Len(s) : i \in 1..(Len(s) + 1)
        BY <2>2, <3>2
      <3>. QED
        BY <3>2, <3>3 DEF Range
    <2>. HIDE DEF s, t
    <2>7. h.count \in 0..Len(t)
      BY <2>2, <2>5, <2>6
    <2>8. /\ mem' = h /\ IInv' /\ Sound' /\ Items' = Append(Items, n)
          /\ Lost' = h.live \ Range(t)
          /\ shown' = IF doubly THEN shown ELSE Refined!Listing(Items', mem'.count)
      BY <1>2, <2>2, <2>4, <2>5, <2>7, DoneToList
    <2>9. LosesOnlyThen
      BY <2>5, <2>6, <2>8 DEF LosesOnlyThen, Lost, s
    <2>10. Refined!InsertLast
      <3>1. n \in Int /\ Items \in Seq(Int)
        BY <1>2, <2>2
      <3>2. Items' # <<>> /\ Refined!Front(Items') = Items
        BY <2>8, <3>1, Appended
      <3>3. mem'.count = mem.count
        BY <2>5, <2>8
      <3>4. Refined!Display
        BY <2>8 DEF Refined!Display, Items
      <3>5. op' = "tail insert" /\ UNCHANGED <<mem.count, deleted>>
        BY <1>2, <3>3
      <3>. QED
        BY <2>3, <3>2, <3>4, <3>5 DEF Refined!InsertLast, Items
    <2>11. Refined!Next
      BY <1>2, <2>10, Promised
    <2>. QED
      BY <2>8, <2>9, <2>11 DEF Kept
  <1>. QED
    BY <1>3, <1>4

\* NumberList takes members out and turns round as the list does.
LEMMA SameOperators ==
    /\ \A w, k : Refined!RemoveAt(w, k) = RemoveAt(w, k)
    /\ \A w : Refined!Reverse(w) = Reverse(w)
  BY DEF Refined!RemoveAt, RemoveAt, Refined!Reverse, Reverse

\* An index that is too large.
LEMMA RefuseKeeps ==
    ASSUME IInv, Running, op' = "refuse", Done(mem), doubly' = doubly, deleted' = deleted
    PROVE  Kept
  <1>1. mem \in Memory /\ fault = "none" /\ deleted \in BOOLEAN
    BY DEF IInv, TypeOK, Running
  <1>2. mem' = mem /\ fault' \in Faults /\ shown' \in Seq(Int)
    BY <1>1, DoneShows
  <1>3. IInv' /\ LosesOnlyThen
    BY <1>1, <1>2, MemoryKept
  <1>4. ASSUME Sound PROVE Refined!Show
    <2>1. /\ Lists(mem, List) /\ mem.count \in 0..Len(List)
          /\ doubly /\ ~deleted => Back(mem, List)
          /\ Items = NumbersOf(mem, List)
      BY <1>4, SoundList
    <2>2. /\ Items' = Items
          /\ shown' = IF doubly THEN shown ELSE Refined!Listing(Items', mem'.count)
      BY <1>1, <2>1, DoneToList
    <2>3. Refined!Display
      BY <2>2 DEF Refined!Display, Items
    <2>4. UNCHANGED <<Items, mem.count, deleted>>
      BY <1>2, <2>2
    <2>. QED
      BY <2>3, <2>4 DEF Refined!Show, Items
  <1>5. Refined!Next
    BY <1>4, Promised
  <1>. QED
    BY <1>3, <1>5 DEF Kept

\* The first node.
LEMMA DeleteFirstKeeps ==
    ASSUME IInv, Running, op' = "delete first", doubly' = doubly, deleted' = TRUE,
           IF Target(1) \notin mem.live THEN Fail(Reading(mem, Target(1)))
           ELSE Done(Deleted(1))
    PROVE  Kept
  <1>1. mem \in Memory /\ 1 \in 1..(Size + 1)
    BY SizeIsNatural, InRange DEF IInv, TypeOK
  <1>2. IInv' /\ Items' = Undefined
    <2>1. CASE Target(1) \notin mem.live
      <3>1. /\ Reading(mem, Target(1)) \in Faults /\ Reading(mem, Target(1)) # "none"
            /\ Fail(Reading(mem, Target(1)))
        BY <2>1 DEF Reading, Faults
      <3>. QED
        BY <3>1, FailKeeps
    <2>2. CASE Target(1) \in mem.live
      <3>1. Deleted(1) \in Memory /\ \A t : ~Lists(Deleted(1), t)
        BY <1>1, <2>2, DeletedType, FirstIsLost
      <3>2. Done(Deleted(1))
        BY <2>2
      <3>. QED
        BY <3>1, <3>2, DoneToNone
    <2>. QED
      BY <2>1, <2>2
  <1>3. LosesOnlyThen
    BY DEF LosesOnlyThen
  <1>4. Refined!Next
    <2>1. Refined!Misuse
      BY <1>2 DEF Refined!Misuse, Items
    <2>. QED
      BY <2>1, Promised
  <1>. QED
    BY <1>2, <1>3, <1>4 DEF Kept

\* Any other.
LEMMA DeleteOtherKeeps ==
    ASSUME IInv, Running, op' = "delete", doubly' = doubly, deleted' = TRUE,
           NEW index \in 2..(Size + 1), index <= mem.count,
           IF Target(index) \notin mem.live THEN Fail(Reading(mem, Target(index)))
           ELSE Done(Deleted(index))
    PROVE  Kept
  <1>1. /\ mem \in Memory /\ mem.live \subseteq Cells /\ fault = "none"
        /\ index \in 1..(Size + 1) /\ index \in Nat /\ index >= 2
    BY SizeIsNatural, MemoryType DEF IInv, TypeOK, Running
  <1>2. CASE ~Sound
    <2>1. IInv'
      <3>1. CASE Target(index) \notin mem.live
        <4>1. /\ Reading(mem, Target(index)) \in Faults /\ Reading(mem, Target(index)) # "none"
              /\ Fail(Reading(mem, Target(index)))
          BY <3>1 DEF Reading, Faults
        <4>. QED
          BY <4>1, FailKeeps
      <3>2. CASE Target(index) \in mem.live
        <4>1. Deleted(index) \in Memory
          BY <1>1, <3>2, DeletedType
        <4>2. \A t : ~Lists(Deleted(index), t)
          BY <1>1, <1>2, <3>2, WasList, NoOtherList
        <4>3. Done(Deleted(index))
          BY <3>2
        <4>. QED
          BY <4>1, <4>2, <4>3, DoneToNone
      <3>. QED
        BY <3>1, <3>2
    <2>2. LosesOnlyThen /\ Refined!Next
      BY <1>2, Promised DEF LosesOnlyThen
    <2>. QED
      BY <2>1, <2>2 DEF Kept
  <1>3. CASE Sound
    <2>. DEFINE s == List
                t == RemoveAt(s, index)
                d == Deleted(index)
    <2>1. /\ Lists(mem, s) /\ s \in Seq(Cells) /\ Len(s) \in Nat
          /\ Items = NumbersOf(mem, s) /\ Items \in Seq(Int) /\ Len(Items) = Len(s)
          /\ mem.count \in Nat /\ mem.count <= Len(s)
      BY <1>3, SoundList
    <2>. HIDE DEF s
    <2>2. index \in 2..Len(s) /\ index \in 1..Len(s) /\ index \in 2..mem.count
      BY <1>1, <2>1
    <2>3. /\ Target(index) = s[index] /\ s[index] \in mem.live
          /\ Lists(d, t) /\ NumbersOf(d, t) = RemoveAt(Items, index)
      BY <1>1, <2>1, <2>2, Deletes
    <2>4. Done(d)
      BY <2>3
    <2>5. /\ d \in Memory /\ d.count = mem.count - 1
          /\ d.live = mem.live \ {s[index]}
      BY <1>1, <2>3, DeletedType
    <2>6. /\ t \in Seq(Cells) /\ Len(t) = Len(s) - 1
          /\ \A i \in 1..(Len(s) - 1) : t[i] = IF i < index THEN s[i] ELSE s[i + 1]
      BY <2>1, <2>2, RemoveAtIs
    <2>. HIDE DEF d, t
    <2>7. d.count \in 0..Len(t)
      BY <2>1, <2>2, <2>5, <2>6, SMTT(30)
    <2>8. /\ mem' = d /\ IInv' /\ Sound' /\ Items' = RemoveAt(Items, index)
          /\ Lost' = d.live \ Range(t)
          /\ shown' = IF doubly THEN shown ELSE Refined!Listing(Items', mem'.count)
      BY <2>3, <2>4, <2>5, <2>7, DoneToList
    <2>9. ASSUME NEW i \in 1..Len(s), i # index
          PROVE  \E j \in 1..Len(t) : t[j] = s[i]
      <3>1. CASE i < index
        <4>1. i \in 1..(Len(s) - 1)
          BY <2>2, <3>1
        <4>. QED
          BY <2>6, <3>1, <4>1
      <3>2. CASE i > index
        <4>1. i - 1 \in 1..(Len(s) - 1) /\ ~(i - 1 < index) /\ (i - 1) + 1 = i
          BY <2>1, <2>2, <3>2
        <4>2. t[i - 1] = s[i]
          BY <2>6, <4>1
        <4>. QED
          BY <2>6, <4>1, <4>2
      <3>. QED
        BY <2>2, <2>9, <3>1, <3>2
    <2>10. Lost' \subseteq Lost
      <3>1. DOMAIN s = 1..Len(s) /\ DOMAIN t = 1..Len(t)
        BY <2>1, <2>6
      <3>2. ASSUME NEW x \in Range(s), x # s[index] PROVE x \in Range(t)
        BY <2>9, <3>1, <3>2 DEF Range
      <3>. QED
        BY <2>5, <2>8, <3>2 DEF Lost, s
    <2>11. Refined!TakeOut
      <3>1. \E i \in 2..mem.count : Items' = Refined!RemoveAt(Items, i)
        BY <2>2, <2>8, SameOperators
      <3>2. Refined!Display
        BY <2>8 DEF Refined!Display, Items
      <3>3. mem'.count = mem.count - 1
        BY <2>5, <2>8
      <3>. QED
        BY <3>1, <3>2, <3>3 DEF Refined!TakeOut, Items
    <2>12. Refined!Next
      BY <2>11, Promised
    <2>. QED
      BY <2>8, <2>10, <2>12 DEF Kept, LosesOnlyThen
  <1>. QED
    BY <1>2, <1>3

LEMMA DeleteNodeKeeps ==
    ASSUME IInv, DeleteNode
    PROVE  Kept
  <1>1. Running /\ doubly' = doubly
    BY DEF DeleteNode
  <1>2. PICK index \in 1..(Size + 1) :
          IF index > mem.count /\ index # 1
          THEN /\ op' = "refuse"
               /\ Done(mem)
               /\ UNCHANGED deleted
          ELSE /\ op' = IF index = 1 THEN "delete first" ELSE "delete"
               /\ deleted' = TRUE
               /\ IF Target(index) \notin mem.live THEN Fail(Reading(mem, Target(index)))
                  ELSE Done(Deleted(index))
    BY DEF DeleteNode, Size
  <1>3. CASE index > mem.count /\ index # 1
    BY <1>1, <1>2, <1>3, RefuseKeeps
  <1>4. CASE index = 1
    BY <1>1, <1>2, <1>4, DeleteFirstKeeps
  <1>5. CASE ~(index > mem.count) /\ index # 1
    <2>1. mem.count \in Int
      BY MemoryType DEF IInv, TypeOK
    <2>2. index \in 2..(Size + 1) /\ index <= mem.count
      BY <1>5, <2>1, SizeIsNatural
    <2>. QED
      BY <1>1, <1>2, <1>5, <2>2, DeleteOtherKeeps
  <1>. QED
    BY <1>3, <1>4, <1>5

LEMMA AscShowKeeps ==
    ASSUME IInv, AscShow
    PROVE  Kept
  <1>1. /\ mem \in Memory /\ fault = "none" /\ shown \in Seq(Int)
        /\ doubly /\ doubly' = doubly /\ deleted' = deleted /\ mem' = mem
        /\ op' = "asc show" /\ Listing(mem, mem.next, mem.head)
    BY DEF IInv, TypeOK, AscShow, Running
  <1>2. mem.next \in [Cells -> Pointer] /\ mem.head \in Pointer
    BY <1>1, MemoryType
  <1>3. /\ fault' \in Faults /\ shown' \in Seq(Int)
        /\ \A t : Chain(mem, mem.next, mem.head, t) =>
              /\ fault' = "none"
              /\ shown' = Refined!Listing(NumbersOf(mem, t), mem.count)
    BY <1>1, <1>2, ListingShows
  <1>4. /\ IInv' /\ LosesOnlyThen
        /\ Items' = IF Sound /\ fault' = "none" THEN Items ELSE Undefined
    BY <1>1, <1>3, MemoryKept
  <1>5. ASSUME Sound PROVE Refined!Show
    <2>1. Lists(mem, List) /\ Items = NumbersOf(mem, List)
      BY <1>5, SoundList
    <2>2. fault' = "none" /\ shown' = Refined!Listing(Items, mem.count)
      BY <1>3, <2>1 DEF Lists
    <2>3. UNCHANGED <<Items, mem.count, deleted>>
      BY <1>1, <1>4, <1>5, <2>2
    <2>. QED
      BY <1>1, <2>2, <2>3 DEF Refined!Show, Items
  <1>6. Refined!Next
    BY <1>1, <1>5, Promised
  <1>. QED
    BY <1>4, <1>6 DEF Kept

\* The links backwards lead through the list from its end.
LEMMA BackIsChain ==
    ASSUME NEW m \in Memory, NEW s, Lists(m, s), s # <<>>, Back(m, s)
    PROVE  /\ Chain(m, m.pre, Last(s), Reverse(s))
           /\ NumbersOf(m, Reverse(s)) = Reverse(NumbersOf(m, s))
           /\ Last(s) \in m.live
  <1>. DEFINE l == Len(s)
              r == Reverse(s)
  <1>1. /\ s \in Seq(m.live) /\ m.live \subseteq Cells
        /\ \A i \in 1..l : s[i] \in m.live
        /\ \A i, j \in 1..l : s[i] = s[j] => i = j
    BY ListType, MemoryType
  <1>2. l \in Nat /\ l >= 1
    BY <1>1, EmptySeq
  <1>3. /\ Len(r) = l /\ r = [i \in 1..l |-> s[(l - i) + 1]]
    BY <1>2 DEF Reverse
  <1>4. \A i \in 1..l : (l - i) + 1 \in 1..l
    BY <1>2
  <1>5. r \in Seq(m.live)
    BY <1>1, <1>2, <1>3, <1>4
  <1>6. Last(s) = s[l] /\ 1 \in 1..l /\ l \in 1..l
    BY <1>2 DEF Last
  <1>. HIDE DEF l, r
  <1>7. \A i \in 1..l : r[i] = s[(l - i) + 1]
    BY <1>3
  <1>8. ASSUME NEW i \in 1..l, NEW j \in 1..l, r[i] = r[j] PROVE i = j
    <2>1. (l - i) + 1 = (l - j) + 1
      BY <1>1, <1>4, <1>7, <1>8
    <2>. QED
      BY <1>2, <2>1
  <1>9. Last(s) = IF r = <<>> THEN Null ELSE r[1]
    <2>1. (l - 1) + 1 = l
      BY <1>2
    <2>2. r[1] = s[l]
      BY <1>6, <1>7, <2>1
    <2>3. r # <<>>
      <3>1. Len(r) # 0
        BY <1>2, <1>3
      <3>. QED
        BY <3>1
    <2>. QED
      BY <1>6, <2>2, <2>3
  <1>10. ASSUME NEW i \in 1..l
         PROVE  m.pre[r[i]] = IF i = l THEN Null ELSE r[i + 1]
    <2>1. m.pre[s[(l - i) + 1]] = IF (l - i) + 1 = 1 THEN Null ELSE s[((l - i) + 1) - 1]
      BY <1>4 DEF Back, l
    <2>2. (l - i) + 1 = 1 <=> i = l
      BY <1>2
    <2>3. i # l => i + 1 \in 1..l /\ (l - (i + 1)) + 1 = ((l - i) + 1) - 1
      BY <1>2
    <2>4. i # l => r[i + 1] = s[((l - i) + 1) - 1]
      BY <1>7, <2>3
    <2>. QED
      BY <1>7, <2>1, <2>2, <2>4
  <1>11. Chain(m, m.pre, Last(s), r)
    BY <1>3, <1>5, <1>8, <1>9, <1>10 DEF Chain
  <1>12. NumbersOf(m, r) = Reverse(NumbersOf(m, s))
    <2>1. NumbersOf(m, r) = [i \in 1..l |-> m.num[s[(l - i) + 1]]]
      BY <1>3, <1>7 DEF NumbersOf
    <2>2. NumbersOf(m, s) = [i \in 1..l |-> m.num[s[i]]]
      BY DEF NumbersOf, l
    <2>3. Len(NumbersOf(m, s)) = l
      BY <1>2, <2>2
    <2>4. Reverse(NumbersOf(m, s)) = [i \in 1..l |-> NumbersOf(m, s)[(l - i) + 1]]
      BY <2>3 DEF Reverse
    <2>5. \A i \in 1..l : NumbersOf(m, s)[(l - i) + 1] = m.num[s[(l - i) + 1]]
      BY <1>4, <2>2
    <2>. QED
      BY <2>1, <2>4, <2>5
  <1>. QED
    BY <1>1, <1>6, <1>11, <1>12 DEF r

LEMMA DescShowKeeps ==
    ASSUME IInv, DescShow
    PROVE  Kept
  <1>1. /\ mem \in Memory /\ fault = "none" /\ shown \in Seq(Int)
        /\ doubly /\ doubly' = doubly /\ deleted' = deleted /\ deleted \in BOOLEAN
        /\ mem' = mem /\ op' = "desc show"
        /\ IF TailFault # "none" THEN Fail(TailFault) ELSE Listing(mem, mem.pre, GetTail)
    BY DEF IInv, TypeOK, DescShow, Running
  <1>2. CASE TailFault # "none"
    <2>1. TailFault \in Faults /\ Fail(TailFault)
      BY <1>1, <1>2, NoTail
    <2>2. IInv' /\ Items' = Undefined /\ LosesOnlyThen
      BY <1>1, <1>2, <2>1, FailKeeps
    <2>3. ASSUME Sound PROVE Refined!Misuse
      <3>1. Items = <<>>
        BY <1>1, <1>2, <2>3, NoTail
      <3>. QED
        BY <1>1, <2>2, <3>1 DEF Refined!Misuse, Items
    <2>4. Refined!Next
      BY <1>1, <2>3, Promised
    <2>. QED
      BY <2>2, <2>4 DEF Kept
  <1>3. CASE TailFault = "none"
    <2>1. Sound /\ List # <<>>
      BY <1>1, <1>3, NoTail
    <2>2. /\ Lists(mem, List) /\ List \in Seq(Cells) /\ Len(List) \in Nat
          /\ Items = NumbersOf(mem, List) /\ Items \in Seq(Int) /\ Len(Items) = Len(List)
          /\ ~deleted => Back(mem, List)
      BY <1>1, <2>1, SoundList
    <2>3. Items # <<>>
      <3>1. Len(List) # 0
        BY <2>1, <2>2, EmptySeq
      <3>. QED
        BY <2>2, <3>1
    <2>4. GetTail = Last(List) /\ GetTail \in Pointer
      <3>1. GetTail = List[Len(List)]
        BY DEF GetTail, List, Last
      <3>2. Len(List) \in 1..Len(List)
        BY <2>1, <2>2, EmptySeq
      <3>. QED
        BY <2>2, <3>1, <3>2 DEF Pointer, Last
    <2>5. Listing(mem, mem.pre, GetTail) /\ mem.pre \in [Cells -> Pointer]
      BY <1>1, <1>3, MemoryType
    <2>6. /\ fault' \in Faults /\ shown' \in Seq(Int)
          /\ \A t : Chain(mem, mem.pre, GetTail, t) =>
                /\ fault' = "none"
                /\ shown' = Refined!Listing(NumbersOf(mem, t), mem.count)
      BY <1>1, <2>4, <2>5, ListingShows
    <2>7. /\ IInv' /\ LosesOnlyThen
          /\ Items' = IF fault' = "none" THEN Items ELSE Undefined
      BY <1>1, <2>1, <2>6, MemoryKept
    <2>8. ~deleted => /\ fault' = "none"
                      /\ shown' = Refined!Listing(Reverse(Items), mem.count)
      BY <1>1, <2>1, <2>2, <2>4, <2>6, BackIsChain
    <2>9. Refined!Show \/ Refined!Misuse
      <3>1. CASE fault' = "none"
        <4>1. UNCHANGED <<Items, mem.count, deleted>>
          BY <1>1, <2>7, <3>1
        <4>2. ~deleted => shown' = Refined!Listing(Refined!Reverse(Items), mem.count)
          BY <2>8, SameOperators
        <4>. QED
          BY <1>1, <2>3, <4>1, <4>2 DEF Refined!Show, Items
      <3>2. CASE fault' # "none"
        <4>1. deleted /\ Items' = Undefined
          BY <1>1, <2>7, <2>8, <3>2
        <4>. QED
          BY <1>1, <4>1 DEF Refined!Misuse, Items
      <3>. QED
        BY <3>1, <3>2
    <2>10. Refined!Next
      BY <1>1, <2>9, Promised
    <2>. QED
      BY <2>7, <2>10 DEF Kept
  <1>. QED
    BY <1>2, <1>3

LEMMA ExitKeeps ==
    ASSUME IInv, Exit
    PROVE  Kept
  <1>1. /\ mem \in Memory /\ fault = "none" /\ Running /\ fault \in Faults
        /\ shown \in Seq(Int) /\ op' = "exit"
        /\ doubly' = doubly /\ deleted' = deleted /\ deleted \in BOOLEAN
    BY DEF IInv, TypeOK, Exit, Running
  <1>2. Sound => FreeFault(mem) = "none"
    BY DEF Sound, FreeFault
  <1>3. CASE FreeFault(mem) # "none"
    <2>1. Fail(FreeFault(mem)) /\ FreeFault(mem) \in Faults
      BY <1>3 DEF Exit, FreeFault, Faults
    <2>2. IInv' /\ LosesOnlyThen
      BY <1>1, <1>3, <2>1, FailKeeps
    <2>3. Refined!Next
      BY <1>1, <1>2, <1>3, Promised
    <2>. QED
      BY <2>2, <2>3 DEF Kept
  <1>4. CASE FreeFault(mem) = "none"
    <2>1. mem' = FreeLinkList(mem) /\ fault' = fault /\ shown' = shown
      BY <1>4 DEF Exit
    <2>2. Refined!Next
      <3>1. Refined!Leave
        BY <1>1, <2>1 DEF Refined!Leave
      <3>. QED
        BY <1>1, <3>1, Promised
    <2>3. CASE Keeps(mem)
      <3>1. mem' = mem
        BY <1>1, <1>4, <2>1, <2>3, FreeLinkListType
      <3>2. IInv' /\ LosesOnlyThen
        BY <1>1, <2>1, <3>1, MemoryKept
      <3>. QED
        BY <2>2, <3>2 DEF Kept
    <2>4. CASE ~Keeps(mem)
      <3>. DEFINE s == Nodes(mem, mem.next, mem.head)
                  m == FreeLinkList(mem)
      <3>1. Lists(mem, s)
        BY <1>1, <1>4, <2>4, WalkedIsList DEF FreeFault
      <3>2. /\ m \in Memory /\ m.head = mem.head /\ m.live = mem.live \ Range(s)
        BY <1>1, <1>4, <2>4, <3>1, FreeLinkListType
      <3>3. s \in Seq(mem.live) /\ mem.head = IF s = <<>> THEN Null ELSE s[1]
        BY <1>1, <3>1, ListType
      <3>. HIDE DEF s, m
      <3>4. s # <<>> /\ mem.head = s[1]
        BY <2>4, <3>3 DEF Keeps
      <3>5. s[1] \in Range(s) /\ s[1] \in mem.live
        <4>1. 1 \in 1..Len(s) /\ DOMAIN s = 1..Len(s)
          BY <3>3, <3>4, EmptySeq
        <4>. QED
          BY <3>3, <4>1 DEF Range
      <3>6. ASSUME NEW t, Lists(m, t) PROVE FALSE
        <4>1. t \in Seq(m.live) /\ m.head = IF t = <<>> THEN Null ELSE t[1]
          BY <3>2, <3>6, ListType
        <4>2. m.head # Null
          BY <1>1, <3>2, <3>4, <3>5, MemoryType, CellAssumption
        <4>3. t # <<>> /\ m.head = t[1]
          BY <4>1, <4>2
        <4>4. 1 \in 1..Len(t)
          BY <4>1, <4>3, EmptySeq
        <4>5. m.head \in m.live
          BY <4>1, <4>3, <4>4
        <4>. QED
          BY <3>2, <3>4, <3>5, <4>5
      <3>7. TypeOK'
        BY <1>1, <2>1, <3>2 DEF IInv, TypeOK, m
      <3>8. IInv'
        <4>1. \A t : ~Lists(mem', t)
          BY <2>1, <3>6 DEF m
        <4>. QED
          BY <3>7, <4>1, ToNone
      <3>9. LosesOnlyThen
        <4>. SUFFICES ASSUME Sound PROVE Lost' \subseteq Lost
          BY DEF LosesOnlyThen
        <4>1. Lost = mem.live \ Range(s)
          BY DEF Lost, List, s
        <4>2. mem'.live = mem.live \ Range(s)
          BY <2>1, <3>2 DEF m
        <4>. QED
          BY <4>1, <4>2 DEF Lost
      <3>. QED
        BY <2>2, <3>8, <3>9 DEF Kept
    <2>. QED
      BY <2>3, <2>4
  <1>. QED
    BY <1>3, <1>4

LEMMA NextKeeps ==
    ASSUME IInv, Next
    PROVE  Kept
  BY CreateKeeps, BulkCreateKeeps, HeadInsertNodeKeeps, TailInsertNodeKeeps,
     DeleteNodeKeeps, AscShowKeeps, DescShowKeeps, ExitKeeps
     DEF Next

\* A turn in which nothing happens.
LEMMA StutterKeeps ==
    ASSUME IInv, UNCHANGED vars
    PROVE  IInv' /\ UNCHANGED Refined!vars
  BY DEF vars, Refined!vars, IInv, TypeOK, CountWithinList, BackLinks, Sound, List

\* At first there is an empty list, or, where p_head points anywhere, none.
LEMMA InitKeeps ==
    ASSUME Init
    PROVE  IInv /\ Refined!Init
  <1>1. PICK p \in {Null, Wild} :
          mem = [head |-> p, count |-> 0, live |-> {}, next |-> [c \in Cells |-> Null],
                 pre |-> [c \in Cells |-> Null], num |-> [c \in Cells |-> 0]]
    BY DEF Init
  <1>2. mem \in Memory
    BY <1>1 DEF Memory, Pointer
  <1>3. TypeOK
    <2>1. <<>> \in Seq(Int)
      BY EmptySeq
    <2>. QED
      BY <1>2, <2>1 DEF Init, TypeOK, Faults
  <1>4. ASSUME Sound PROVE List = <<>> /\ NumbersOf(mem, List) = <<>>
    <2>1. Lists(mem, List)
      BY <1>2, <1>4, WalkedIsList DEF Sound, List
    <2>2. List \in Seq({})
      BY <1>1, <1>2, <2>1, ListType
    <2>3. List = <<>>
      <3>1. List # <<>> => 1 \in 1..Len(List)
        BY <2>2, EmptySeq
      <3>. QED
        BY <2>2, <3>1
    <2>. QED
      BY <2>3 DEF NumbersOf
  <1>5. mem.count = 0
    BY <1>1
  <1>6. CountWithinList
    BY <1>4, <1>5 DEF CountWithinList
  <1>7. BackLinks
    BY <1>4 DEF BackLinks, Back
  <1>8. Refined!Init
    BY <1>4, <1>5 DEF Init, Refined!Init
  <1>. QED
    BY <1>3, <1>6, <1>7, <1>8 DEF IInv

--------------------------------------------------------------------------
(* What holds of every run.                                                *)

\* The invariant that the theorems rest on: types, the count within the list,
\* and links backwards that mirror the list of doubly_link_list.c until a node
\* is deleted.
THEOREM InductiveInvariant == Spec => []IInv
  <1>1. IInv /\ [Next]_vars => IInv'
    BY NextKeeps, StutterKeeps DEF Kept
  <1>. QED
    BY <1>1, InitKeeps, PTL DEF Spec

\* Whatever the order of the operations, in both programs, the pointers and
\* the count are ones that the next operation can use: as long as the list can
\* be walked to its end it has at least as many nodes as it counts, so the
\* loop of delete_node stays inside it.
THEOREM ListInvariant == Spec => []ListInv
  <1>1. IInv => ListInv
    BY DEF IInv, ListInv
  <1>. QED
    BY <1>1, InductiveInvariant, PTL

\* No operation on a list that can be walked loses a node, except the deletion
\* of the first and the release of a list whose count is zero (free_link_list
\* returns early).
THEOREM TracksNodes == Spec => KeepsTrack
  <1>1. IInv /\ [Next]_vars => [LosesOnlyThen]_vars
    BY NextKeeps DEF Kept
  <1>. QED
    BY <1>1, InductiveInvariant, PTL DEF Spec, KeepsTrack

\* Both programs implement a sequence of numbers, forwards and (until
\* something is deleted) backwards, as long as none of the misuses NumberList
\* names happens.
THEOREM ImplementsNumberList == Spec => IsNumberList
  <1>1. IInv /\ [Next]_vars => [Refined!Next]_(Refined!vars)
    BY NextKeeps, StutterKeeps DEF Kept
  <1>2. Init => Refined!Init
    BY InitKeeps
  <1>. QED
    BY <1>1, <1>2, InductiveInvariant, PTL DEF Spec, IsNumberList, Refined!Spec
=============================================================================

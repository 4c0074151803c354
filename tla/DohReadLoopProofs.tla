--------------------------- MODULE DohReadLoopProofs ---------------------------
(***************************************************************************)
(* Proofs about DohReadLoop: for messages of any length and reads of any   *)
(* size, the file holds bytes of the message in order and once each, and   *)
(* an answer read in long pieces is written whole.                         *)
(***************************************************************************)
EXTENDS DohReadLoop, SequenceTheorems, WellFoundedInduction, TLAPS

-----------------------------------------------------------------------------
(* Induction over the naturals as statements about sets and functions, for *)
(* the recursive functions that model the loops of the code: what such a   *)
(* function computes is proved from the equations RecursionExists gives    *)
(* it.                                                                     *)

\* A set of naturals that is not empty has a least one.
LEMMA LeastNatural ==
    ASSUME NEW T \in SUBSET Nat, T # {}
    PROVE  \E n \in T : \A m \in T : n <= m
  <1>. DEFINE R == OpToRel(<, Nat)
  <1>1. IsWellFoundedOn(R, Nat)
    BY NatLessThanWellFounded
  <1>2. \A x, y \in Nat : x < y => <<x, y>> \in R
    BY DEF OpToRel
  <1>. HIDE DEF R
  <1>3. \E x \in T : \A y \in T : ~(<<y, x>> \in R)
    BY <1>1, WFMin
  <1>4. PICK n \in T : \A y \in T : ~(<<y, n>> \in R)
    BY <1>3
  <1>5. ASSUME NEW m \in T PROVE n <= m
    <2>1. n \in Nat /\ m \in Nat
      OBVIOUS
    <2>2. ~(m < n)
      BY <1>2, <1>4, <2>1, Zenon
    <2>. QED
      BY <2>1, <2>2
  <1>. QED
    BY <1>4, <1>5

\* A set that has 0, and with a number its successor, has every natural.
LEMMA SetInduction ==
    ASSUME NEW S, 0 \in S, \A n \in Nat : n \in S => n + 1 \in S
    PROVE  Nat \subseteq S
  <1>. SUFFICES ASSUME Nat \ S # {} PROVE FALSE
    OBVIOUS
  <1>1. PICK n \in Nat \ S : \A m \in Nat \ S : n <= m
    BY LeastNatural
  <1>2. n # 0 /\ n - 1 \in Nat /\ n - 1 \in S
    BY <1>1
  <1>. QED
    BY <1>1, <1>2

\* The same up to a bound.
LEMMA BoundedInduction ==
    ASSUME NEW N \in Nat, NEW S, 0 \in S,
           \A n \in 0..(N - 1) : n \in S => n + 1 \in S
    PROVE  0..N \subseteq S
  <1>. DEFINE T == {n \in Nat : n \in 0..N => n \in S}
  <1>1. 0 \in T
    OBVIOUS
  <1>2. \A n \in Nat : n \in T => n + 1 \in T
    OBVIOUS
  <1>. HIDE DEF T
  <1>3. Nat \subseteq T
    BY <1>1, <1>2, SetInduction
  <1>. QED
    BY <1>3 DEF T

\* f starts with v at 0 and goes on to N by step, in V.
Recursion(f, V, v, N, step) ==
    /\ f \in [0..N -> V]
    /\ f[0] = v
    /\ \A k \in 1..N : f[k] = step[<<f[k - 1], k>>]

\* A first value and a step define a function on an interval from 0.
LEMMA RecursionExists ==
    ASSUME NEW V, NEW v, NEW N, NEW step,
           v \in V, N \in Nat, step \in [V \X (1..N) -> V]
    PROVE  \E f : Recursion(f, V, v, N, step)
  <1>. DEFINE Upto(n, f) == f[0] = v /\ \A k \in 1..n : f[k] = step[<<f[k - 1], k>>]
              S == {n \in 0..N : \E f \in [0..N -> V] : Upto(n, f)}
  <1>1. 0 \in S
    <2>1. PICK g : g = [k \in 0..N |-> v]
      OBVIOUS
    <2>2. g \in [0..N -> V] /\ Upto(0, g)
      BY <2>1
    <2>. QED
      BY <2>2
  <1>2. ASSUME NEW n \in 0..(N - 1), n \in S PROVE n + 1 \in S
    <2>1. PICK f \in [0..N -> V] : Upto(n, f)
      BY <1>2
    <2>2. PICK u : u = step[<<f[n], n + 1>>]
      OBVIOUS
    <2>3. u \in V
      <3>1. f[n] \in V /\ n + 1 \in 1..N
        OBVIOUS
      <3>. QED
        BY <2>2, <3>1
    <2>. DEFINE g == [k \in 0..N |-> IF k = n + 1 THEN u ELSE f[k]]
    <2>4. g \in [0..N -> V]
      BY <2>3
    <2>5. Upto(n + 1, g)
      <3>1. g[0] = v
        BY <2>1
      <3>2. ASSUME NEW k \in 1..(n + 1) PROVE g[k] = step[<<g[k - 1], k>>]
        <4>1. k \in 0..N /\ k - 1 \in 0..N /\ g[k - 1] = f[k - 1]
          OBVIOUS
        <4>2. CASE k = n + 1
          <5>1. k - 1 = n /\ g[k] = u
            BY <4>1, <4>2
          <5>. QED
            BY <2>2, <4>1, <4>2, <5>1
        <4>3. CASE k # n + 1
          <5>1. k \in 1..n /\ g[k] = f[k]
            BY <4>1, <4>3
          <5>2. f[k] = step[<<f[k - 1], k>>]
            BY <2>1, <5>1
          <5>. QED
            BY <4>1, <5>1, <5>2
        <4>. QED
          BY <4>2, <4>3
      <3>. QED
        BY <3>1, <3>2
    <2>. HIDE DEF g
    <2>. QED
      BY <2>4, <2>5
  <1>. HIDE DEF S
  <1>3. N \in S
    BY <1>1, <1>2, BoundedInduction
  <1>. QED
    BY <1>3 DEF S, Recursion

\* Filtered, of the bytes of the message m.
PrintableOf(m, p) == p # NUL /\ m[p] # "\n"

FilteredOf(m, bytes) ==
    LET written[i \in 0..Len(bytes)] ==
            IF i = 0 THEN <<>>
            ELSE IF PrintableOf(m, bytes[i]) THEN Append(written[i - 1], bytes[i])
            ELSE written[i - 1]
    IN  written[Len(bytes)]

\* The positions after m and up to n.
Run(m, n) == [k \in 1..(n - m) |-> m + k]

-----------------------------------------------------------------------------
(* What the loop that writes computes.                                     *)

\* w[k] is what has been written after k of the bytes s, all of them in P.
Writing(w, m, P, s) ==
    /\ w \in [0..Len(s) -> Seq(P)]
    /\ w[0] = <<>>
    /\ \A k \in 1..Len(s) :
          w[k] = IF PrintableOf(m, s[k]) THEN Append(w[k - 1], s[k]) ELSE w[k - 1]
    /\ FilteredOf(m, s) = w[Len(s)]

\* The recursive function in FilteredOf is that.
LEMMA FilteredEquations ==
    ASSUME NEW m, NEW P, NEW s \in Seq(P)
    PROVE  \E w : Writing(w, m, P, s)
  <1>. DEFINE N == Len(s)
              V == Seq(P)
              step == [x \in V \X (1..N) |->
                         IF PrintableOf(m, s[x[2]]) THEN Append(x[1], s[x[2]]) ELSE x[1]]
              Body(f, i) == IF i = 0 THEN <<>>
                            ELSE IF PrintableOf(m, s[i]) THEN Append(f[i - 1], s[i])
                            ELSE f[i - 1]
              g == CHOOSE f : f = [i \in 0..N |-> Body(f, i)]
  <1>1. N \in Nat /\ <<>> \in V
    OBVIOUS
  <1>2. step \in [V \X (1..N) -> V]
    <2>1. ASSUME NEW x \in V \X (1..N)
          PROVE  (IF PrintableOf(m, s[x[2]]) THEN Append(x[1], s[x[2]]) ELSE x[1]) \in V
      <3>1. x[1] \in Seq(P) /\ x[2] \in 1..Len(s)
        BY <2>1
      <3>2. s[x[2]] \in P
        BY <3>1
      <3>3. Append(x[1], s[x[2]]) \in Seq(P)
        BY <3>1, <3>2
      <3>. QED
        BY <3>1, <3>3
    <2>. QED
      BY <2>1
  <1>3. \A y \in V, k \in 1..N :
           step[<<y, k>>] = IF PrintableOf(m, s[k]) THEN Append(y, s[k]) ELSE y
    OBVIOUS
  <1>. HIDE DEF step
  <1>4. PICK f : /\ f \in [0..N -> V]
                 /\ f[0] = <<>>
                 /\ \A k \in 1..N : f[k] = step[<<f[k - 1], k>>]
    <2>. DEFINE Start == <<>>
    <2>1. \E f : Recursion(f, V, Start, N, step)
      <3>. HIDE DEF V, N, Start
      <3>. QED
        BY <1>1, <1>2, RecursionExists DEF Start
    <2>. QED
      BY <2>1 DEF Recursion
  <1>5. \A k \in 1..N : f[k] = IF PrintableOf(m, s[k]) THEN Append(f[k - 1], s[k])
                               ELSE f[k - 1]
    <2>. TAKE k \in 1..N
    <2>1. f[k - 1] \in V
      <3>1. f \in [0..N -> V]
        BY <1>4, Zenon
      <3>2. k - 1 \in 0..N
        BY <1>1
      <3>. HIDE DEF V, N
      <3>. QED
        BY <3>1, <3>2
    <2>. QED
      BY <1>3, <1>4, <2>1
  <1>6. f = [i \in 0..N |-> Body(f, i)]
    <2>1. ASSUME NEW i \in 0..N PROVE f[i] = Body(f, i)
      <3>1. CASE i = 0
        BY <1>4, <3>1
      <3>2. CASE i # 0
        <4>1. i \in 1..N
          BY <1>1, <3>2
        <4>. QED
          BY <1>5, <3>2, <4>1
      <3>. QED
        BY <3>1, <3>2
    <2>. HIDE DEF Body, N, V
    <2>. QED
      BY <1>4, <2>1
  <1>7. g = [i \in 0..N |-> Body(g, i)]
    <2>. HIDE DEF Body, N
    <2>. QED
      BY <1>6
  <1>8. FilteredOf(m, s) = g[N]
    BY DEF FilteredOf
  <1>. HIDE DEF g
  <1>9. \A i \in 0..N : g[i] = Body(g, i)
    <2>. HIDE DEF Body
    <2>. QED
      BY <1>7
  <1>. DEFINE S == {i \in 0..N : g[i] = f[i]}
  <1>10. 0 \in S
    BY <1>1, <1>4, <1>9
  <1>11. ASSUME NEW n \in 0..(N - 1), n \in S PROVE n + 1 \in S
    <2>1. n + 1 \in 1..N /\ n + 1 \in 0..N /\ (n + 1) - 1 = n /\ n + 1 # 0
      BY <1>1
    <2>2. g[n] = f[n]
      BY <1>11
    <2>3. g[n + 1] = Body(g, n + 1)
      BY <1>9, <2>1
    <2>4. g[n + 1] = f[n + 1]
      BY <1>5, <2>1, <2>2, <2>3
    <2>. QED
      BY <2>1, <2>4
  <1>12. N \in S
    <2>1. 0..N \subseteq S
      <3>. HIDE DEF S, N
      <3>. QED
        BY <1>1, <1>10, <1>11, BoundedInduction
    <2>. QED
      BY <1>1, <2>1
  <1>13. FilteredOf(m, s) = f[N]
    BY <1>8, <1>12
  <1>. QED
    BY <1>4, <1>5, <1>13 DEF Writing

\* The loop writes nothing of no bytes.
LEMMA FilteredEmpty == ASSUME NEW m PROVE FilteredOf(m, <<>>) = <<>>
  <1>1. <<>> \in Seq({}) /\ Len(<<>>) = 0
    OBVIOUS
  <1>2. PICK w : Writing(w, m, {}, <<>>)
    BY <1>1, FilteredEquations
  <1>. QED
    BY <1>1, <1>2 DEF Writing

\* What the loop writes are bytes it was given.
LEMMA FilteredType ==
    ASSUME NEW m, NEW P, NEW s \in Seq(P)
    PROVE  FilteredOf(m, s) \in Seq(P)
  <1>1. PICK w : Writing(w, m, P, s)
    BY FilteredEquations
  <1>2. Len(s) \in 0..Len(s)
    OBVIOUS
  <1>. QED
    BY <1>1, <1>2 DEF Writing

\* One more byte is written after the others, or left out.
LEMMA FilteredAppend ==
    ASSUME NEW m, NEW P, NEW s \in Seq(P), NEW x \in P
    PROVE  FilteredOf(m, Append(s, x)) =
              IF PrintableOf(m, x) THEN Append(FilteredOf(m, s), x)
              ELSE FilteredOf(m, s)
  <1>1. PICK l : l = Len(s)
    OBVIOUS
  <1>2. PICK t : t = Append(s, x)
    OBVIOUS
  <1>3. /\ l \in Nat
        /\ t \in Seq(P) /\ Len(t) = l + 1
        /\ t[l + 1] = x
        /\ \A k \in 1..l : t[k] = s[k]
    BY <1>1, <1>2
  <1>4. PICK w : Writing(w, m, P, s)
    BY FilteredEquations
  <1>5. PICK z : Writing(z, m, P, t)
    BY <1>3, FilteredEquations
  <1>. DEFINE S == {i \in 0..l : z[i] = w[i]}
  <1>6. 0 \in S
    BY <1>1, <1>3, <1>4, <1>5 DEF Writing
  <1>7. ASSUME NEW n \in 0..(l - 1), n \in S PROVE n + 1 \in S
    <2>1. n + 1 \in 1..l /\ n + 1 \in 1..(l + 1) /\ n + 1 \in 0..l /\ (n + 1) - 1 = n
      BY <1>3
    <2>2. z[n] = w[n] /\ t[n + 1] = s[n + 1]
      BY <1>3, <1>7, <2>1
    <2>3. z[n + 1] = IF PrintableOf(m, t[n + 1]) THEN Append(z[n], t[n + 1]) ELSE z[n]
      BY <1>3, <1>5, <2>1 DEF Writing
    <2>4. w[n + 1] = IF PrintableOf(m, s[n + 1]) THEN Append(w[n], s[n + 1]) ELSE w[n]
      BY <1>1, <1>4, <2>1 DEF Writing
    <2>. QED
      BY <2>1, <2>2, <2>3, <2>4
  <1>8. z[l] = w[l]
    <2>1. 0..l \subseteq S
      <3>. HIDE DEF S
      <3>. QED
        BY <1>3, <1>6, <1>7, BoundedInduction
    <2>. QED
      BY <1>3, <2>1
  <1>9. l + 1 \in 1..(l + 1) /\ (l + 1) - 1 = l
    BY <1>3
  <1>10. z[l + 1] = IF PrintableOf(m, t[l + 1]) THEN Append(z[l], t[l + 1]) ELSE z[l]
    BY <1>3, <1>5, <1>9 DEF Writing
  <1>. QED
    BY <1>1, <1>2, <1>3, <1>4, <1>5, <1>8, <1>10 DEF Writing

-----------------------------------------------------------------------------
(* Runs of positions.                                                      *)

\* A run is a sequence of its positions, and one longer by one ends with the next.
LEMMA RunFacts ==
    ASSUME NEW m \in Nat, NEW n \in Nat, m <= n
    PROVE  /\ Run(m, n) \in Seq((m + 1)..n)
           /\ Run(m, n) \in Seq(Nat)
           /\ Run(m, n + 1) = Append(Run(m, n), n + 1)
           /\ Run(m, m) = <<>>
  <1>1. PICK l \in Nat : l = n - m
    OBVIOUS
  <1>2. ASSUME NEW k \in 1..l PROVE m + k \in (m + 1)..n /\ m + k \in Nat
    BY <1>1
  <1>3. PICK r : r = [k \in 1..l |-> m + k]
    OBVIOUS
  <1>4. r \in Seq((m + 1)..n) /\ r \in Seq(Nat) /\ Len(r) = l
    BY <1>2, <1>3
  <1>5. Run(m, n) = r
    BY <1>1, <1>3 DEF Run
  <1>6. Run(m, n + 1) = Append(r, n + 1)
    <2>1. (n + 1) - m = l + 1 /\ m + (l + 1) = n + 1
      BY <1>1
    <2>2. 1..(l + 1) = 1..l \cup {l + 1}
      OBVIOUS
    <2>3. Run(m, n + 1) = [k \in 1..(l + 1) |-> m + k]
      BY <2>1 DEF Run
    <2>4. PICK a : a = Append(r, n + 1)
      OBVIOUS
    <2>5. /\ a \in Seq(Nat) /\ Len(a) = l + 1
          /\ a[l + 1] = n + 1
          /\ \A k \in 1..l : a[k] = r[k]
      BY <1>4, <2>4
    <2>6. \A k \in 1..(l + 1) : a[k] = m + k
      BY <1>3, <2>1, <2>2, <2>5
    <2>. QED
      BY <2>3, <2>4, <2>5, <2>6
  <1>7. Run(m, m) = <<>>
    BY DEF Run
  <1>. QED
    BY <1>4, <1>5, <1>6, <1>7

\* Of a run the loop writes bytes of it, in their order.
LEMMA FilteredRun ==
    ASSUME NEW b, NEW m \in Nat, NEW n \in Nat, m <= n
    PROVE  /\ FilteredOf(b, Run(m, n)) \in Seq((m + 1)..n)
           /\ \A i, j \in DOMAIN FilteredOf(b, Run(m, n)) :
                 i < j => FilteredOf(b, Run(m, n))[i] < FilteredOf(b, Run(m, n))[j]
  <1>. DEFINE F(d) == FilteredOf(b, Run(m, m + d))
              Rising(s) == \A i, j \in DOMAIN s : i < j => s[i] < s[j]
              S == {d \in Nat : Rising(F(d))}
  <1>1. ASSUME NEW d \in Nat PROVE F(d) \in Seq((m + 1)..(m + d))
    <2>1. m + d \in Nat /\ m <= m + d
      OBVIOUS
    <2>2. Run(m, m + d) \in Seq((m + 1)..(m + d))
      BY <2>1, RunFacts
    <2>. QED
      BY <2>2, FilteredType
  <1>2. 0 \in S
    <2>1. F(0) = <<>>
      BY RunFacts, FilteredEmpty
    <2>. QED
      BY <2>1
  <1>3. ASSUME NEW d \in Nat, d \in S PROVE d + 1 \in S
    <2>1. m + d \in Nat /\ m <= m + d /\ m + (d + 1) = (m + d) + 1
      OBVIOUS
    <2>2. F(d + 1) = FilteredOf(b, Append(Run(m, m + d), (m + d) + 1))
      BY <2>1, RunFacts
    <2>3. F(d + 1) = IF PrintableOf(b, (m + d) + 1) THEN Append(F(d), (m + d) + 1)
                     ELSE F(d)
      <3>1. (m + d) + 1 \in Nat
        BY <2>1
      <3>2. Run(m, m + d) \in Seq(Nat)
        BY <2>1, RunFacts
      <3>. QED
        BY <2>2, <3>1, <3>2, FilteredAppend
    <2>4. PICK f : f = F(d)
      OBVIOUS
    <2>5. f \in Seq((m + 1)..(m + d)) /\ Rising(f)
      BY <1>1, <1>3, <2>4
    <2>6. Rising(Append(f, (m + d) + 1))
      <3>1. PICK l \in Nat : l = Len(f)
        BY <2>5
      <3>2. PICK a : a = Append(f, (m + d) + 1)
        OBVIOUS
      <3>3. /\ DOMAIN a = 1..(l + 1) /\ DOMAIN f = 1..l
            /\ a[l + 1] = (m + d) + 1
            /\ \A k \in 1..l : a[k] = f[k] /\ a[k] \in (m + 1)..(m + d)
        BY <2>5, <3>1, <3>2
      <3>4. ASSUME NEW i \in 1..(l + 1), NEW j \in 1..(l + 1), i < j
            PROVE  a[i] < a[j]
        <4>1. i \in 1..l
          BY <3>4
        <4>2. CASE j = l + 1
          BY <3>3, <4>1, <4>2
        <4>3. CASE j # l + 1
          <5>1. j \in 1..l
            BY <4>3
          <5>. QED
            BY <2>5, <3>3, <3>4, <4>1, <5>1
        <4>. QED
          BY <4>2, <4>3
      <3>. QED
        BY <3>2, <3>3, <3>4
    <2>. HIDE DEF F, Rising
    <2>7. Rising(F(d + 1))
      BY <2>3, <2>4, <2>5, <2>6
    <2>. QED
      BY <2>7
  <1>4. Nat \subseteq S
    <2>. HIDE DEF S
    <2>. QED
      BY <1>2, <1>3, SetInduction
  <1>5. PICK d \in Nat : d = n - m
    OBVIOUS
  <1>6. m + d = n
    BY <1>5
  <1>. HIDE DEF Rising
  <1>7. F(d) = FilteredOf(b, Run(m, n)) /\ F(d) \in Seq((m + 1)..n) /\ Rising(F(d))
    BY <1>1, <1>4, <1>6
  <1>. QED
    BY <1>7 DEF Rising

\* What the loop writes of two runs, one after the other, it writes of the two
\* together.
LEMMA FilteredSplit ==
    ASSUME NEW b, NEW l \in Nat, NEW m \in Nat, NEW n \in Nat, l <= m, m <= n
    PROVE  FilteredOf(b, Run(l, m)) \o FilteredOf(b, Run(m, n)) =
              FilteredOf(b, Run(l, n))
  <1>1. PICK f : f = FilteredOf(b, Run(l, m))
    OBVIOUS
  <1>2. f \in Seq(Nat)
    BY <1>1, RunFacts, FilteredType
  <1>. DEFINE F(d) == FilteredOf(b, Run(m, m + d))
              G(d) == FilteredOf(b, Run(l, m + d))
              S == {d \in Nat : f \o F(d) = G(d)}
  <1>3. ASSUME NEW d \in Nat PROVE F(d) \in Seq(Nat)
    <2>1. m + d \in Nat /\ m <= m + d
      OBVIOUS
    <2>2. Run(m, m + d) \in Seq(Nat)
      BY <2>1, RunFacts
    <2>. QED
      BY <2>2, FilteredType
  <1>4. 0 \in S
    <2>1. F(0) = <<>> /\ G(0) = f
      BY <1>1, RunFacts, FilteredEmpty
    <2>. HIDE DEF F, G
    <2>. QED
      BY <1>2, <2>1
  <1>5. ASSUME NEW d \in Nat, d \in S PROVE d + 1 \in S
    <2>1. PICK x : x = (m + d) + 1
      OBVIOUS
    <2>2. /\ x \in Nat /\ m + d \in Nat /\ m <= m + d /\ l <= m + d
          /\ m + (d + 1) = (m + d) + 1
      BY <2>1
    <2>3. /\ Run(m, m + d) \in Seq(Nat) /\ Run(l, m + d) \in Seq(Nat)
          /\ Run(m, (m + d) + 1) = Append(Run(m, m + d), x)
          /\ Run(l, (m + d) + 1) = Append(Run(l, m + d), x)
      BY <2>1, <2>2, RunFacts
    <2>4. F(d + 1) = IF PrintableOf(b, x) THEN Append(F(d), x) ELSE F(d)
      <3>1. F(d + 1) = FilteredOf(b, Append(Run(m, m + d), x))
        BY <2>2, <2>3
      <3>. QED
        BY <2>2, <2>3, <3>1, FilteredAppend
    <2>5. G(d + 1) = IF PrintableOf(b, x) THEN Append(G(d), x) ELSE G(d)
      <3>1. G(d + 1) = FilteredOf(b, Append(Run(l, m + d), x))
        BY <2>2, <2>3
      <3>. QED
        BY <2>2, <2>3, <3>1, FilteredAppend
    <2>6. F(d) \in Seq(Nat) /\ f \o F(d) = G(d)
      BY <1>3, <1>5
    <2>. HIDE DEF F, G
    <2>7. f \o Append(F(d), x) = Append(f \o F(d), x)
      <3>1. PICK h \in Seq(Nat) : h = F(d)
        BY <2>6
      <3>2. <<x>> \in Seq(Nat) /\ f \o h \in Seq(Nat)
        BY <1>2, <2>2
      <3>3. (f \o h) \o <<x>> = f \o (h \o <<x>>)
        BY <1>2, <3>2, ConcatAssociative
      <3>4. Append(h, x) = h \o <<x>> /\ Append(f \o h, x) = (f \o h) \o <<x>>
        BY <2>2, <3>2, AppendIsConcat
      <3>. QED
        BY <3>1, <3>3, <3>4
    <2>8. f \o F(d + 1) = G(d + 1)
      BY <2>4, <2>5, <2>6, <2>7
    <2>. QED
      BY <2>8
  <1>6. Nat \subseteq S
    <2>. HIDE DEF S
    <2>. QED
      BY <1>4, <1>5, SetInduction
  <1>7. PICK d \in Nat : d = n - m
    OBVIOUS
  <1>8. m + d = n
    BY <1>7
  <1>9. f \o F(d) = G(d)
    BY <1>6
  <1>. QED
    BY <1>1, <1>8, <1>9

-----------------------------------------------------------------------------
(* Messages.                                                               *)

Symbols == HeaderBytes \cup BodyBytes \cup {"<", "?xml"}

\* m has its one declaration after h bytes.
Shape(m, h) ==
    /\ h \in Nat /\ m \in Seq(Symbols)
    /\ h + 2 <= Len(m)
    /\ m[h + 1] = "<"
    /\ \A k \in 1..Len(m) : m[k] = "?xml" <=> k = h + 2

\* Every message is a header, the declaration and a body without another one.
LEMMA MessagesHaveShape == \A m \in Messages : \E h \in Nat : Shape(m, h)
  <1>. SUFFICES ASSUME NEW m \in Messages PROVE \E h \in Nat : Shape(m, h)
    OBVIOUS
  <1>1. PICK head \in BoundedSeq(HeaderBytes, MaxHeader),
             body \in BoundedSeq(BodyBytes, MaxBody) : m = head \o Declaration \o body
    BY DEF Messages
  <1>2. \A S, N : N \in Nat => BoundedSeq(S, N) \subseteq Seq(S)
    BY DEF BoundedSeq, SeqOf
  <1>3. head \in Seq(HeaderBytes) /\ body \in Seq(BodyBytes)
    BY <1>1, <1>2, BufferAssumption
  <1>4. PICK h \in Nat : h = Len(head)
    BY <1>3
  <1>5. PICK l \in Nat : l = Len(body)
    BY <1>3
  <1>6. head \in Seq(Symbols) /\ body \in Seq(Symbols) /\ Declaration \in Seq(Symbols)
    <2>1. HeaderBytes \subseteq Symbols /\ BodyBytes \subseteq Symbols
      BY DEF Symbols
    <2>2. \A S, T : S \subseteq T => Seq(S) \subseteq Seq(T)
      OBVIOUS
    <2>3. Declaration \in Seq(Symbols)
      BY DEF Declaration, Symbols
    <2>. QED
      BY <1>3, <2>1, <2>2, <2>3
  <1>7. /\ \A k \in 1..h : head[k] # "?xml"
        /\ \A k \in 1..l : body[k] # "?xml"
    BY <1>3, <1>4, <1>5 DEF HeaderBytes, BodyBytes
  <1>8. PICK d : d = head \o Declaration
    OBVIOUS
  <1>9. /\ d \in Seq(Symbols) /\ Len(d) = h + 2
        /\ \A k \in 1..h : d[k] = head[k]
        /\ d[h + 1] = "<" /\ d[h + 2] = "?xml"
    <2>1. Len(Declaration) = 2 /\ Declaration[1] = "<" /\ Declaration[2] = "?xml"
      BY DEF Declaration
    <2>2. /\ d \in Seq(Symbols) /\ Len(d) = h + 2
          /\ \A k \in 1..(h + 2) :
                d[k] = IF k <= h THEN head[k] ELSE Declaration[k - h]
      <3>1. /\ d \in Seq(Symbols)
            /\ Len(d) = Len(head) + Len(Declaration)
            /\ \A k \in 1..(Len(head) + Len(Declaration)) :
                  d[k] = IF k <= Len(head) THEN head[k] ELSE Declaration[k - Len(head)]
        BY <1>6, <1>8, ConcatProperties
      <3>. QED
        BY <1>4, <2>1, <3>1
    <2>. QED
      BY <2>1, <2>2
  <1>10. /\ m \in Seq(Symbols)
         /\ Len(m) = (h + 2) + l
         /\ \A k \in 1..(h + 2) : m[k] = d[k]
         /\ \A k \in ((h + 2) + 1)..((h + 2) + l) : m[k] = body[k - (h + 2)]
    <2>1. m = d \o body
      BY <1>1, <1>8
    <2>2. /\ m \in Seq(Symbols) /\ Len(m) = (h + 2) + l
          /\ \A k \in 1..((h + 2) + l) :
                m[k] = IF k <= h + 2 THEN d[k] ELSE body[k - (h + 2)]
      <3>1. /\ m \in Seq(Symbols)
            /\ Len(m) = Len(d) + Len(body)
            /\ \A k \in 1..(Len(d) + Len(body)) :
                  m[k] = IF k <= Len(d) THEN d[k] ELSE body[k - Len(d)]
        BY <1>6, <1>9, <2>1, ConcatProperties
      <3>. QED
        BY <1>5, <1>9, <3>1
    <2>. QED
      BY <2>2
  <1>11. ASSUME NEW k \in 1..Len(m) PROVE m[k] = "?xml" <=> k = h + 2
    <2>1. CASE k \in 1..h
      <3>1. m[k] = head[k] /\ k # h + 2
        BY <1>9, <1>10, <2>1
      <3>. QED
        BY <1>7, <2>1, <3>1
    <2>2. CASE k = h + 1
      BY <1>9, <1>10, <2>2
    <2>3. CASE k = h + 2
      BY <1>9, <1>10, <2>3
    <2>4. CASE k > h + 2
      <3>1. k \in ((h + 2) + 1)..((h + 2) + l) /\ k - (h + 2) \in 1..l
        BY <1>10, <2>4
      <3>2. m[k] = body[k - (h + 2)]
        BY <1>10, <3>1
      <3>. QED
        BY <1>7, <2>4, <3>1, <3>2
    <2>. QED
      BY <1>10, <2>1, <2>2, <2>3, <2>4
  <1>12. h + 2 <= Len(m) /\ m[h + 1] = "<"
    BY <1>9, <1>10
  <1>. QED
    BY <1>10, <1>11, <1>12 DEF Shape

\* HeaderLength is where that declaration is.
LEMMA HeaderLengthIs ==
    ASSUME message \in Messages
    PROVE  HeaderLength \in Nat /\ Shape(message, HeaderLength)
  <1>1. PICK h \in Nat : Shape(message, h)
    BY MessagesHaveShape
  <1>2. ASSUME NEW k \in 1..(Len(message) - 1)
        PROVE  SubSeq(message, k, k + 1) = Declaration <=> k = h + 1
    <2>1. /\ k \in 1..Len(message) /\ k + 1 \in 1..Len(message) /\ (k + 1) - k + 1 = 2
          /\ message \in Seq(Symbols) /\ Len(message) \in Nat
      BY <1>1 DEF Shape
    <2>2. PICK p : p = SubSeq(message, k, k + 1)
      OBVIOUS
    <2>3. p \in Seq(Symbols) /\ Len(p) = 2 /\ p[1] = message[k] /\ p[2] = message[k + 1]
      BY <2>1, <2>2
    <2>4. p = Declaration <=> (message[k] = "<" /\ message[k + 1] = "?xml")
      BY <2>3 DEF Declaration
    <2>5. message[k + 1] = "?xml" <=> k + 1 = h + 2
      BY <1>1, <2>1 DEF Shape
    <2>. QED
      BY <1>1, <2>1, <2>2, <2>4, <2>5 DEF Shape
  <1>3. h + 1 \in 1..(Len(message) - 1)
    BY <1>1 DEF Shape
  <1>4. HeaderLength = (h + 1) - 1
    BY <1>2, <1>3 DEF HeaderLength
  <1>. QED
    BY <1>1, <1>4

-----------------------------------------------------------------------------
(* One read.                                                               *)

\* The least of a set of naturals is in it.
LEMMA MinOfNaturals ==
    ASSUME NEW T \in SUBSET Nat, T # {}
    PROVE  Min(T) \in T /\ \A m \in T : Min(T) <= m
  BY LeastNatural DEF Min

\* Writing starts in the buffer, at a declaration if there is one.
LEMMA StartInBuffer ==
    ASSUME NEW b
    PROVE  /\ StartOfText(b) \in 1..(BufferSize - 1)
           /\ Found(b) = {} => StartOfText(b) = 1
           /\ Found(b) # {} => StartOfText(b) \in Found(b)
  <1>1. Found(b) \in SUBSET Nat /\ Found(b) \subseteq 1..(BufferSize - 1)
    BY BufferAssumption DEF Found
  <1>2. BufferSize \in Nat /\ BufferSize > 1
    BY BufferAssumption
  <1>3. CASE Found(b) = {}
    BY <1>2, <1>3 DEF StartOfText
  <1>4. CASE Found(b) # {}
    <2>1. Min(Found(b)) \in Found(b)
      BY <1>1, <1>4, MinOfNaturals
    <2>. HIDE DEF Found
    <2>. QED
      BY <1>1, <1>4, <2>1 DEF StartOfText
  <1>. QED
    BY <1>3, <1>4

\* What the server may still send is what Receive chooses from.
LEMMA ReceiveBounds ==
    ASSUME TypeOK, NEW n \in 1..Min({MaxRecord, Len(message) - sent})
    PROVE  n \in 1..MaxRecord /\ sent + n <= Len(message)
  <1>1. message \in Messages /\ sent \in 0..Len(message)
    BY DEF TypeOK
  <1>2. Len(message) \in Nat
    BY <1>1, HeaderLengthIs DEF Shape
  <1>3. PICK l : l = Len(message) - sent
    OBVIOUS
  <1>4. l \in Nat /\ MaxRecord \in Nat
    BY <1>1, <1>2, <1>3, BufferAssumption
  <1>5. PICK x : x = Min({MaxRecord, l})
    OBVIOUS
  <1>6. x \in {MaxRecord, l} /\ x <= MaxRecord /\ x <= l
    BY <1>4, <1>5, MinOfNaturals
  <1>7. n \in 1..x
    BY <1>3, <1>5
  <1>. QED
    BY <1>1, <1>2, <1>3, <1>4, <1>6, <1>7

\* A read of n bytes writes the printable ones of them, from the start of the
\* text on: whatever the buffer holds of earlier reads is not written again.
LEMMA ReadWrites ==
    ASSUME TypeOK, NEW n \in Nat, n < BufferSize, NEW b, b = BufferAfter(n)
    PROVE  Written(n, b) =
              IF StartOfText(b) <= n
              THEN FilteredOf(message, Run(sent + (StartOfText(b) - 1), sent + n))
              ELSE <<>>
  <1>1. PICK s \in 1..(BufferSize - 1) : s = StartOfText(b)
    BY StartInBuffer
  <1>2. sent \in Nat /\ BufferSize \in Nat
    BY BufferAssumption DEF TypeOK
  <1>3. s + LeftToWrite(n, b) - 1 = n
    BY <1>1 DEF LeftToWrite
  <1>4. Written(n, b) = Filtered(SubSeq(b, s, n))
    BY <1>1, <1>3 DEF Written
  <1>5. Filtered(SubSeq(b, s, n)) = FilteredOf(message, SubSeq(b, s, n))
    BY DEF Filtered, FilteredOf, Printable, PrintableOf
  <1>6. /\ b \in [1..BufferSize -> Nat]
        /\ \A k \in 1..n : b[k] = sent + k
    <2>1. Len(message) \in Nat
      BY HeaderLengthIs DEF Shape, TypeOK
    <2>2. \A k \in 1..BufferSize : buffer[k] \in Nat
      BY <2>1 DEF TypeOK
    <2>. QED
      BY <1>2, <2>2 DEF BufferAfter
  <1>7. b \in Seq(Nat) /\ Len(b) = BufferSize
    BY <1>2, <1>6
  <1>8. CASE s <= n
    <2>1. \A i \in s..n : b[i] \in Nat
      BY <1>2, <1>6
    <2>2. PICK p : p = SubSeq(b, s, n)
      OBVIOUS
    <2>3. /\ p \in Seq(Nat) /\ Len(p) = (n - s) + 1
          /\ \A k \in 1..((n - s) + 1) : p[k] = b[(s + k) - 1]
      BY <1>8, <2>1, <2>2, SubSeqProperties
    <2>4. ASSUME NEW k \in 1..((n - s) + 1) PROVE p[k] = (sent + (s - 1)) + k
      <3>1. (s + k) - 1 \in 1..n /\ sent + ((s + k) - 1) = (sent + (s - 1)) + k
        BY <1>2, <1>8
      <3>. QED
        BY <1>6, <2>3, <3>1
    <2>5. (sent + n) - (sent + (s - 1)) = (n - s) + 1 /\ (n - s) + 1 \in Nat
      BY <1>2, <1>8
    <2>6. p = Run(sent + (s - 1), sent + n)
      BY <2>3, <2>4, <2>5 DEF Run
    <2>. QED
      BY <1>1, <1>4, <1>5, <1>8, <2>2, <2>6
  <1>9. CASE n < s
    <2>1. SubSeq(b, s, n) = <<>>
      BY <1>1, <1>7, <1>9
    <2>. QED
      BY <1>1, <1>4, <1>5, <1>9, <2>1, FilteredEmpty
  <1>. QED
    BY <1>1, <1>8, <1>9

-----------------------------------------------------------------------------
(* The inductive invariant.                                                *)

\* Before the first read everything is as it was cleared.
NothingRead ==
    chunks = <<>> => /\ sent = 0
                     /\ file = <<>>
                     /\ \A k \in 1..BufferSize : buffer[k] = NUL

\* The declaration that comes first has arrived.
DeclarationArrived == DeclarationInFirstRead => sent >= HeaderLength + 2

LongReads ==
    /\ DeclarationInFirstRead
    /\ \A i \in 2..Len(chunks) : chunks[i] >= HeaderLength + 2

\* While every read is long the file holds what has arrived after the header, and
\* the declaration is in the buffer only where the first read left it.
WrittenSoFar ==
    LongReads =>
        /\ file = FilteredOf(message, Run(HeaderLength, sent))
        /\ \A k \in 1..BufferSize : buffer[k] = HeaderLength + 2 =>
              Len(chunks) = 1 /\ k = HeaderLength + 2
        /\ pc = "done" => closed

Inv ==
    /\ TypeOK
    /\ WrittenInOrder
    /\ HeaderSkipped
    /\ NothingRead
    /\ DeclarationArrived
    /\ WrittenSoFar

\* A sequence over a set is one over every larger set.
LEMMA SeqOfSubset ==
    ASSUME NEW A, NEW B, A \subseteq B, NEW s \in Seq(A)
    PROVE  s \in Seq(B)
  OBVIOUS

\* A read of n bytes from state to state, with s where writing starts in the
\* buffer b and w what is written.
ReadFrom(n, b, s, w) ==
    /\ n \in 0..MaxRecord /\ sent + n <= Len(message)
    /\ b \in [1..BufferSize -> 0..Len(message)]
    /\ \A k \in 1..n : b[k] = sent + k
    /\ \A k \in (n + 1)..BufferSize : b[k] = buffer[k]
    /\ s \in 1..(BufferSize - 1)
    /\ Found(b) = {} => s = 1
    /\ Found(b) # {} => s \in Found(b)
    /\ w = IF s <= n THEN FilteredOf(message, Run(sent + (s - 1), sent + n)) ELSE <<>>
    /\ w \in Seq((sent + s)..(sent + n))
    /\ \A i, j \in DOMAIN w : i < j => w[i] < w[j]
    /\ pc = "read"
    /\ buffer' = b
    /\ sent' = sent + n
    /\ chunks' = IF n > 0 THEN Append(chunks, n) ELSE chunks
    /\ closed' = (n = 0)
    /\ received' = n - (s - 1)
    /\ file' = file \o w
    /\ pc' = IF n - (s - 1) > 0 THEN "read" ELSE "done"
    /\ message' = message

\* Every read is one: what it writes are bytes it brings, in their order.
LEMMA ReadIs ==
    ASSUME TypeOK, NEW n \in 0..MaxRecord, sent + n <= Len(message), ReadChunk(n)
    PROVE  \E b, s, w : ReadFrom(n, b, s, w)
  <1>1. PICK L \in Nat : L = Len(message)
    BY HeaderLengthIs DEF Shape, TypeOK
  <1>2. sent \in 0..L /\ n \in Nat /\ n < BufferSize /\ BufferSize \in Nat /\ sent + n <= L
    BY <1>1, BufferAssumption DEF TypeOK
  <1>3. PICK b : b = BufferAfter(n)
    OBVIOUS
  <1>4. /\ b \in [1..BufferSize -> 0..L]
        /\ \A k \in 1..n : b[k] = sent + k
        /\ \A k \in (n + 1)..BufferSize : b[k] = buffer[k]
    <2>1. buffer \in [1..BufferSize -> 0..L]
      BY <1>1 DEF TypeOK
    <2>. QED
      BY <1>2, <1>3, <2>1 DEF BufferAfter
  <1>5. PICK s : s = StartOfText(b)
    OBVIOUS
  <1>6. /\ s \in 1..(BufferSize - 1)
        /\ Found(b) = {} => s = 1
        /\ Found(b) # {} => s \in Found(b)
    BY <1>5, StartInBuffer
  <1>7. PICK w : w = Written(n, b)
    OBVIOUS
  <1>8. w = IF s <= n THEN FilteredOf(message, Run(sent + (s - 1), sent + n)) ELSE <<>>
    BY <1>2, <1>3, <1>5, <1>7, ReadWrites
  <1>9. /\ w \in Seq((sent + s)..(sent + n))
        /\ \A i, j \in DOMAIN w : i < j => w[i] < w[j]
    <2>1. CASE s <= n
      <3>1. PICK o : o = sent + (s - 1)
        OBVIOUS
      <3>2. o \in Nat /\ sent + n \in Nat /\ o <= sent + n /\ o + 1 = sent + s
        BY <1>2, <1>6, <2>1, <3>1
      <3>3. w = FilteredOf(message, Run(o, sent + n))
        BY <1>8, <2>1, <3>1
      <3>. QED
        BY <3>2, <3>3, FilteredRun
    <2>2. CASE ~(s <= n)
      BY <1>8, <2>2
    <2>. QED
      BY <2>1, <2>2
  <1>10. /\ pc = "read"
         /\ buffer' = b
         /\ sent' = sent + n
         /\ chunks' = IF n > 0 THEN Append(chunks, n) ELSE chunks
         /\ closed' = (n = 0)
         /\ received' = LeftToWrite(n, b)
         /\ file' = file \o w
         /\ pc' = IF GoesOn(received') THEN "read" ELSE "done"
         /\ message' = message
    BY <1>3, <1>7 DEF ReadChunk
  <1>11. LeftToWrite(n, b) = n - (s - 1)
    BY <1>5 DEF LeftToWrite
  <1>12. pc' = IF n - (s - 1) > 0 THEN "read" ELSE "done"
    BY <1>10, <1>11 DEF GoesOn
  <1>13. ReadFrom(n, b, s, w)
    BY <1>1, <1>2, <1>4, <1>6, <1>8, <1>9, <1>10, <1>11, <1>12 DEF ReadFrom
  <1>. QED
    BY <1>13

\* A read leaves every variable in its range.
LEMMA ReadTypes ==
    ASSUME TypeOK, NEW n, NEW b, NEW s, NEW w, ReadFrom(n, b, s, w)
    PROVE  TypeOK'
  <1>1. PICK L \in Nat : L = Len(message)
    BY HeaderLengthIs DEF Shape, TypeOK
  <1>2. /\ sent \in 0..L /\ n \in 0..MaxRecord /\ sent + n <= L
        /\ MaxRecord \in Nat /\ BufferSize \in Nat
        /\ MaxRecord < BufferSize /\ s \in 1..(BufferSize - 1)
    BY <1>1, BufferAssumption DEF TypeOK, ReadFrom
  <1>3. message' \in Messages /\ Len(message') = L
    BY <1>1 DEF TypeOK, ReadFrom
  <1>4. sent' \in 0..L
    BY <1>2 DEF ReadFrom
  <1>5. buffer' \in [1..BufferSize -> 0..L]
    BY <1>1 DEF ReadFrom
  <1>6. received' \in -BufferSize..BufferSize
    <2>1. received' = n - (s - 1)
      BY DEF ReadFrom
    <2>. QED
      BY <1>2, <2>1
  <1>7. file' \in Seq(1..L)
    <2>1. w \in Seq((sent + s)..(sent + n)) /\ file' = file \o w
      BY DEF ReadFrom
    <2>2. (sent + s)..(sent + n) \subseteq 1..L
      BY <1>2
    <2>3. w \in Seq(1..L)
      BY <2>1, <2>2, SeqOfSubset
    <2>4. file \in Seq(1..L)
      BY <1>1 DEF TypeOK
    <2>. QED
      BY <2>1, <2>3, <2>4
  <1>8. chunks' \in Seq(1..MaxRecord)
    <2>1. chunks' = IF n > 0 THEN Append(chunks, n) ELSE chunks
      BY DEF ReadFrom
    <2>2. n > 0 => n \in 1..MaxRecord
      BY <1>2
    <2>3. chunks \in Seq(1..MaxRecord)
      BY DEF TypeOK
    <2>4. CASE n > 0
      BY <2>1, <2>2, <2>3, <2>4
    <2>5. CASE ~(n > 0)
      BY <2>1, <2>3, <2>5
    <2>. QED
      BY <2>4, <2>5
  <1>9. closed' \in BOOLEAN /\ pc' \in {"read", "done", "failed"}
    BY DEF ReadFrom
  <1>10. pc' = "read" => received' > 0
    BY DEF ReadFrom
  <1>. QED
    BY <1>3, <1>4, <1>5, <1>6, <1>7, <1>8, <1>9, <1>10 DEF TypeOK

\* A read writes after what the file holds, and only what has arrived.
LEMMA ReadInOrder ==
    ASSUME TypeOK, WrittenInOrder,
           NEW n, NEW b, NEW s, NEW w, ReadFrom(n, b, s, w)
    PROVE  WrittenInOrder'
  <1>1. PICK f : f = file
    OBVIOUS
  <1>2. PICK g : g = file'
    OBVIOUS
  <1>3. PICK t : t = sent
    OBVIOUS
  <1>4. /\ f \in Seq(Nat)
        /\ \A i, j \in DOMAIN f : i < j => f[i] < f[j]
        /\ \A i \in DOMAIN f : f[i] <= t
        /\ t \in Nat /\ n \in Nat /\ s \in Nat /\ s >= 1
    <2>1. file \in Seq(Nat)
      <3>1. PICK L \in Nat : L = Len(message)
        BY HeaderLengthIs DEF Shape, TypeOK
      <3>2. file \in Seq(1..L) /\ 1..L \subseteq Nat
        BY <3>1 DEF TypeOK
      <3>. QED
        BY <3>2
    <2>2. sent \in Nat /\ n \in Nat /\ s \in Nat /\ s >= 1
      BY BufferAssumption DEF TypeOK, ReadFrom
    <2>. QED
      BY <1>1, <1>3, <2>1, <2>2 DEF WrittenInOrder
  <1>5. /\ w \in Seq((t + s)..(t + n))
        /\ \A i, j \in DOMAIN w : i < j => w[i] < w[j]
        /\ g = f \o w
        /\ sent' = t + n
    BY <1>1, <1>2, <1>3 DEF ReadFrom
  <1>6. w \in Seq(Nat) /\ \A i \in DOMAIN w : w[i] > t /\ w[i] <= t + n
    <2>1. PICK A : A = (t + s)..(t + n)
      OBVIOUS
    <2>2. A \subseteq Nat /\ \A x \in A : x > t /\ x <= t + n
      BY <1>4, <2>1
    <2>3. w \in Seq(A)
      BY <1>5, <2>1
    <2>4. w \in Seq(Nat)
      BY <2>2, <2>3, SeqOfSubset
    <2>5. \A i \in DOMAIN w : w[i] \in A
      BY <2>3
    <2>. QED
      BY <2>2, <2>4, <2>5
  <1>7. PICK l \in Nat : l = Len(f)
    BY <1>4
  <1>8. PICK r \in Nat : r = Len(w)
    BY <1>6
  <1>9. /\ g \in Seq(Nat) /\ Len(g) = l + r
        /\ \A i \in 1..(l + r) : g[i] = IF i <= l THEN f[i] ELSE w[i - l]
    <2>1. /\ g \in Seq(Nat) /\ Len(g) = Len(f) + Len(w)
          /\ \A i \in 1..(Len(f) + Len(w)) : g[i] = IF i <= Len(f) THEN f[i] ELSE w[i - Len(f)]
      BY <1>4, <1>5, <1>6, ConcatProperties
    <2>. QED
      BY <1>7, <1>8, <2>1
  <1>10. /\ DOMAIN f = 1..l /\ DOMAIN w = 1..r /\ DOMAIN g = 1..(l + r)
    BY <1>4, <1>6, <1>7, <1>8, <1>9
  <1>11. ASSUME NEW i \in 1..(l + r) PROVE g[i] <= t + n
    <2>1. CASE i <= l
      <3>1. i \in 1..l /\ g[i] = f[i] /\ f[i] \in Nat
        BY <1>4, <1>7, <1>9, <2>1
      <3>2. f[i] <= t
        BY <1>4, <1>10, <3>1
      <3>. QED
        BY <1>4, <3>1, <3>2
    <2>2. CASE ~(i <= l)
      <3>1. i - l \in 1..r /\ g[i] = w[i - l]
        BY <1>7, <1>8, <1>9, <2>2
      <3>. QED
        BY <1>6, <1>10, <3>1
    <2>. QED
      BY <2>1, <2>2
  <1>12. ASSUME NEW i \in 1..(l + r), NEW j \in 1..(l + r), i < j
         PROVE  g[i] < g[j]
    <2>1. CASE j <= l
      <3>1. i \in 1..l /\ j \in 1..l /\ g[i] = f[i] /\ g[j] = f[j]
        BY <1>7, <1>8, <1>9, <1>12, <2>1
      <3>. QED
        BY <1>4, <1>10, <1>12, <3>1
    <2>2. CASE i <= l /\ ~(j <= l)
      <3>1. i \in 1..l /\ j - l \in 1..r /\ g[i] = f[i] /\ g[j] = w[j - l]
        <4>1. i \in 1..l /\ j - l \in 1..r
          BY <1>7, <1>8, <2>2
        <4>2. g[i] = f[i]
          BY <1>9, <2>2
        <4>3. g[j] = w[j - l]
          BY <1>9, <2>2
        <4>. QED
          BY <4>1, <4>2, <4>3
      <3>2. f[i] \in Nat /\ w[j - l] \in Nat
        BY <1>4, <1>6, <1>7, <1>8, <3>1, SMTT(30)
      <3>3. f[i] <= t /\ w[j - l] > t
        BY <1>4, <1>6, <1>10, <3>1
      <3>. QED
        BY <1>4, <3>1, <3>2, <3>3
    <2>3. CASE ~(i <= l)
      <3>1. /\ i - l \in 1..r /\ j - l \in 1..r /\ i - l < j - l
            /\ g[i] = w[i - l] /\ g[j] = w[j - l]
        <4>1. i - l \in 1..r /\ j - l \in 1..r /\ i - l < j - l
          BY <1>7, <1>8, <1>12, <2>3
        <4>2. g[i] = w[i - l]
          BY <1>9, <2>3
        <4>3. ~(j <= l)
          BY <1>7, <1>12, <2>3
        <4>4. g[j] = w[j - l]
          BY <1>9, <4>3
        <4>. QED
          BY <4>1, <4>2, <4>4
      <3>. QED
        BY <1>5, <1>10, <3>1
    <2>. QED
      BY <2>1, <2>2, <2>3
  <1>. QED
    BY <1>2, <1>5, <1>10, <1>11, <1>12 DEF WrittenInOrder

\* The header is as long after a step that keeps the message.
LEMMA HeaderLengthKept == ASSUME message' = message PROVE HeaderLength' = HeaderLength
  BY DEF HeaderLength

\* A declaration found in the buffer ends at a copy of the only one there is.
LEMMA FoundWhere ==
    ASSUME message \in Messages,
           NEW b \in [1..BufferSize -> 0..Len(message)], NEW k \in Found(b)
    PROVE  k \in 1..(BufferSize - 1) /\ b[k + 1] = HeaderLength + 2
  <1>1. PICK h \in Nat : h = HeaderLength /\ Shape(message, h)
    BY HeaderLengthIs
  <1>2. PICK L \in Nat : L = Len(message)
    BY <1>1 DEF Shape
  <1>3. /\ k \in 1..(BufferSize - 1) /\ k + 1 \in 1..BufferSize /\ b[k + 1] # NUL
        /\ <<message[b[k]], message[b[k + 1]]>> = Declaration
    BY BufferAssumption DEF Found
  <1>4. message[b[k + 1]] = "?xml"
    BY <1>3 DEF Declaration
  <1>5. b[k + 1] \in 1..L
    BY <1>2, <1>3 DEF NUL
  <1>6. b[k + 1] = h + 2
    BY <1>1, <1>2, <1>4, <1>5 DEF Shape
  <1>. QED
    BY <1>1, <1>3, <1>6

\* The first read finds the declaration it has brought: writing starts there.
LEMMA FirstReadFinds ==
    ASSUME TypeOK, NothingRead, NEW n, NEW b, NEW s, NEW w, ReadFrom(n, b, s, w),
           chunks = <<>>, n >= HeaderLength + 2
    PROVE  s = HeaderLength + 1
  <1>1. PICK h \in Nat : h = HeaderLength /\ Shape(message, h)
    BY HeaderLengthIs DEF TypeOK
  <1>2. PICK L \in Nat : L = Len(message)
    BY <1>1 DEF Shape
  <1>3. /\ n \in Nat /\ n < BufferSize /\ BufferSize \in Nat /\ h + 2 <= n
        /\ b \in [1..BufferSize -> 0..L]
    BY <1>1, <1>2, BufferAssumption DEF ReadFrom
  <1>4. /\ \A j \in 1..n : b[j] = j
        /\ \A j \in (n + 1)..BufferSize : b[j] = NUL
    <2>1. sent = 0 /\ \A j \in 1..BufferSize : buffer[j] = NUL
      BY DEF NothingRead
    <2>2. /\ \A j \in 1..n : b[j] = sent + j
          /\ \A j \in (n + 1)..BufferSize : b[j] = buffer[j]
      BY DEF ReadFrom
    <2>3. ASSUME NEW j \in (n + 1)..BufferSize PROVE j \in 1..BufferSize
      BY <1>3
    <2>. QED
      BY <1>3, <2>1, <2>2, <2>3
  <1>5. h + 1 \in Found(b)
    <2>1. /\ h + 1 \in 1..(BufferSize - 1) /\ h + 1 \in 1..n /\ h + 2 \in 1..n
          /\ (h + 1) + 1 = h + 2
          /\ b[h + 1] = h + 1 /\ b[h + 2] = h + 2
      BY <1>3, <1>4
    <2>2. \A j \in 1..(h + 2) : b[j] # NUL
      BY <1>3, <1>4 DEF NUL
    <2>3. message[h + 1] = "<" /\ message[h + 2] = "?xml"
      BY <1>1 DEF Shape
    <2>4. <<message[b[h + 1]], message[b[(h + 1) + 1]]>> = Declaration
      BY <2>1, <2>3 DEF Declaration
    <2>. QED
      BY <2>1, <2>2, <2>4 DEF Found
  <1>6. s \in Found(b)
    BY <1>5 DEF ReadFrom
  <1>7. s \in 1..(BufferSize - 1) /\ b[s + 1] = h + 2
    BY <1>1, <1>2, <1>3, <1>6, FoundWhere DEF TypeOK
  <1>8. s + 1 \in 1..n
    BY <1>3, <1>4, <1>7 DEF NUL
  <1>. QED
    BY <1>1, <1>4, <1>7, <1>8

\* What SSL_read has returned, after one more read.
LEMMA ReadChunks ==
    ASSUME TypeOK, NEW n, NEW b, NEW s, NEW w, ReadFrom(n, b, s, w)
    PROVE  /\ chunks = <<>> => /\ n = 0 => chunks' = <<>>
                               /\ n > 0 => Len(chunks') = 1 /\ chunks'[1] = n
           /\ chunks # <<>> =>
                 /\ Len(chunks) >= 1 /\ Len(chunks') >= 1 /\ chunks'[1] = chunks[1]
                 /\ n = 0 => chunks' = chunks
                 /\ n > 0 => /\ Len(chunks') = Len(chunks) + 1
                             /\ chunks'[Len(chunks) + 1] = n
                             /\ \A i \in 1..Len(chunks) : chunks'[i] = chunks[i]
  <1>1. PICK c : c = chunks
    OBVIOUS
  <1>2. PICK d : d = chunks'
    OBVIOUS
  <1>3. /\ c \in Seq(1..MaxRecord) /\ n \in 0..MaxRecord /\ MaxRecord \in Nat
        /\ d = IF n > 0 THEN Append(c, n) ELSE c
    BY <1>1, <1>2, BufferAssumption DEF TypeOK, ReadFrom
  <1>4. c # <<>> => Len(c) >= 1
    BY <1>3
  <1>5. CASE n = 0
    <2>1. d = c
      BY <1>3, <1>5
    <2>. QED
      BY <1>1, <1>2, <1>4, <1>5, <2>1
  <1>6. CASE n > 0
    <2>1. n \in 1..MaxRecord /\ d = Append(c, n)
      BY <1>3, <1>6
    <2>2. /\ Len(d) = Len(c) + 1 /\ d[Len(c) + 1] = n
          /\ \A i \in 1..Len(c) : d[i] = c[i]
          /\ Len(c) \in Nat
      BY <1>3, <2>1
    <2>3. c = <<>> => Len(c) = 0
      OBVIOUS
    <2>4. c # <<>> => d[1] = c[1] /\ Len(d) >= 1
      BY <1>4, <2>2
    <2>. QED
      BY <1>1, <1>2, <1>4, <1>6, <2>2, <2>3, <2>4
  <1>. QED
    BY <1>3, <1>5, <1>6

\* Once the declaration has come with the first read, what is written comes after
\* the header.
LEMMA ReadSkipsHeader ==
    ASSUME TypeOK, HeaderSkipped, NothingRead, DeclarationArrived,
           NEW n, NEW b, NEW s, NEW w, ReadFrom(n, b, s, w)
    PROVE  HeaderSkipped' /\ NothingRead' /\ DeclarationArrived'
  <1>1. PICK h \in Nat : h = HeaderLength
    BY HeaderLengthIs DEF TypeOK
  <1>2. HeaderLength' = h
    BY <1>1, HeaderLengthKept DEF ReadFrom
  <1>3. PICK t \in Nat : t = sent
    BY DEF TypeOK
  <1>4. /\ n \in Nat /\ s \in Nat /\ s >= 1
        /\ w \in Seq((t + s)..(t + n))
        /\ file' = file \o w
        /\ sent' = t + n
    BY <1>3, BufferAssumption DEF ReadFrom
  <1>5. PICK f : f = file
    OBVIOUS
  <1>6. f \in Seq(Nat)
    <2>1. PICK L \in Nat : L = Len(message)
      BY HeaderLengthIs DEF Shape, TypeOK
    <2>2. f \in Seq(1..L) /\ 1..L \subseteq Nat
      BY <1>5, <2>1 DEF TypeOK
    <2>. QED
      BY <2>2, SeqOfSubset
  <1>7. w \in Seq(Nat) /\ \A i \in DOMAIN w : w[i] >= t + s
    <2>1. PICK A : A = (t + s)..(t + n)
      OBVIOUS
    <2>2. A \subseteq Nat /\ \A x \in A : x >= t + s
      BY <1>4, <2>1
    <2>3. w \in Seq(A)
      BY <1>4, <2>1
    <2>4. w \in Seq(Nat)
      BY <2>2, <2>3, SeqOfSubset
    <2>5. \A i \in DOMAIN w : w[i] \in A
      BY <2>3
    <2>. QED
      BY <2>2, <2>4, <2>5
  <1>8. NothingRead'
    <2>1. chunks' = <<>> => chunks = <<>> /\ n = 0
      <3>1. Len(<<>>) = 0
        OBVIOUS
      <3>2. chunks \in Seq(1..MaxRecord)
        BY DEF TypeOK
      <3>. QED
        BY <1>4, <3>1, <3>2, ReadChunks
    <2>2. ASSUME chunks' = <<>>
          PROVE  sent' = 0 /\ file' = <<>> /\ \A k \in 1..BufferSize : buffer'[k] = NUL
      <3>1. n = 0 /\ sent = 0 /\ file = <<>> /\ \A k \in 1..BufferSize : buffer[k] = NUL
        BY <2>1, <2>2 DEF NothingRead
      <3>2. w = <<>>
        BY <1>4, <3>1 DEF ReadFrom
      <3>3. \A k \in 1..BufferSize : buffer'[k] = NUL
        BY <3>1 DEF ReadFrom
      <3>. QED
        BY <1>3, <1>4, <3>1, <3>2, <3>3
    <2>. QED
      BY <2>2 DEF NothingRead
  <1>9. ASSUME DeclarationInFirstRead'
        PROVE  /\ sent' >= h + 2
               /\ \A i \in DOMAIN f : f[i] > h
               /\ \A i \in DOMAIN w : w[i] > h
    <2>1. CASE chunks = <<>>
      <3>1. n # 0
        BY <1>9, <2>1, ReadChunks DEF DeclarationInFirstRead
      <3>2. n >= h + 2
        <4>1. chunks'[1] = n
          BY <1>4, <2>1, <3>1, ReadChunks
        <4>2. chunks'[1] >= h + 2
          BY <1>2, <1>9 DEF DeclarationInFirstRead
        <4>. QED
          BY <4>1, <4>2
      <3>3. s = h + 1
        BY <1>1, <2>1, <3>2, FirstReadFinds
      <3>4. t = 0 /\ f = <<>>
        BY <1>3, <1>5, <2>1 DEF NothingRead
      <3>. QED
        BY <1>4, <1>7, <3>2, <3>3, <3>4
    <2>2. CASE chunks # <<>>
      <3>1. chunks'[1] = chunks[1] /\ Len(chunks) >= 1
        BY <2>2, ReadChunks
      <3>2. DeclarationInFirstRead
        BY <1>1, <1>2, <1>9, <3>1 DEF DeclarationInFirstRead, TypeOK
      <3>3. t >= h + 2 /\ \A i \in DOMAIN f : f[i] > h
        BY <1>1, <1>3, <1>5, <3>2 DEF DeclarationArrived, HeaderSkipped
      <3>4. ASSUME NEW i \in DOMAIN w PROVE w[i] > h
        <4>1. w[i] \in Nat /\ w[i] >= t + s
          BY <1>7
        <4>. QED
          BY <1>4, <3>3, <4>1
      <3>. QED
        BY <1>4, <3>3, <3>4
    <2>. QED
      BY <2>1, <2>2
  <1>10. HeaderSkipped'
    <2>. SUFFICES ASSUME DeclarationInFirstRead'
                  PROVE  \A i \in DOMAIN file' : file'[i] > h
      BY <1>2 DEF HeaderSkipped
    <2>1. PICK g : g = file'
      OBVIOUS
    <2>2. g = f \o w
      BY <1>4, <1>5, <2>1
    <2>3. ASSUME NEW i \in DOMAIN g PROVE g[i] > h
      <3>1. /\ Len(g) = Len(f) + Len(w) /\ g \in Seq(Nat)
            /\ \A k \in 1..(Len(f) + Len(w)) :
                  g[k] = IF k <= Len(f) THEN f[k] ELSE w[k - Len(f)]
        BY <1>6, <1>7, <2>2, ConcatProperties
      <3>2. PICK l \in Nat : l = Len(f)
        BY <1>6
      <3>3. PICK r \in Nat : r = Len(w)
        BY <1>7
      <3>4. i \in 1..(l + r) /\ DOMAIN f = 1..l /\ DOMAIN w = 1..r
        BY <1>6, <1>7, <3>1, <3>2, <3>3
      <3>5. g[i] = IF i <= l THEN f[i] ELSE w[i - l]
        BY <3>1, <3>2, <3>3, <3>4
      <3>6. CASE i <= l
        <4>1. i \in 1..l
          BY <3>2, <3>3, <3>4, <3>6
        <4>. QED
          BY <1>9, <3>4, <3>5, <3>6, <4>1
      <3>7. CASE ~(i <= l)
        <4>1. i - l \in 1..r
          BY <3>2, <3>3, <3>4, <3>7
        <4>. QED
          BY <1>9, <3>4, <3>5, <3>7, <4>1
      <3>. QED
        BY <3>6, <3>7
    <2>. QED
      BY <2>1, <2>3
  <1>11. DeclarationArrived'
    BY <1>2, <1>9 DEF DeclarationArrived
  <1>. QED
    BY <1>8, <1>10, <1>11

\* While the reads are long, what is written goes on from what has been.
LEMMA ReadGoesOn ==
    ASSUME Inv, NEW n, NEW b, NEW s, NEW w, ReadFrom(n, b, s, w)
    PROVE  WrittenSoFar'
  <1>. USE DEF Inv
  <1>1. PICK h \in Nat : h = HeaderLength
    BY HeaderLengthIs DEF TypeOK
  <1>2. HeaderLength' = h /\ message' = message
    BY <1>1, HeaderLengthKept DEF ReadFrom
  <1>3. PICK t \in Nat : t = sent
    BY DEF TypeOK
  <1>4. /\ n \in Nat /\ s \in Nat /\ s >= 1
        /\ BufferSize \in Nat /\ n < BufferSize
        /\ w = IF s <= n THEN FilteredOf(message, Run(t + (s - 1), t + n)) ELSE <<>>
        /\ file' = file \o w
        /\ sent' = t + n
        /\ buffer' = b
        /\ closed' = (n = 0)
        /\ pc' = IF n - (s - 1) > 0 THEN "read" ELSE "done"
    BY <1>3, BufferAssumption DEF ReadFrom
  <1>5. /\ \A k \in 1..n : b[k] = t + k
        /\ \A k \in (n + 1)..BufferSize : b[k] = buffer[k]
    BY <1>3 DEF ReadFrom
  <1>6. PICK M : M = message
    OBVIOUS
  <1>. SUFFICES ASSUME LongReads'
                PROVE  /\ file' = FilteredOf(M, Run(h, t + n))
                       /\ \A k \in 1..BufferSize : b[k] = h + 2 =>
                             Len(chunks') = 1 /\ k = h + 2
                       /\ pc' = "done" => closed'
    BY <1>2, <1>4, <1>6 DEF WrittenSoFar
  <1>7. /\ Len(chunks') > 0 /\ chunks'[1] >= h + 2
        /\ \A i \in 2..Len(chunks') : chunks'[i] >= h + 2
    BY <1>2 DEF LongReads, DeclarationInFirstRead
  <1>8. CASE chunks = <<>>
    <2>1. n # 0 /\ n > 0
      BY <1>4, <1>7, <1>8, ReadChunks
    <2>2. Len(chunks') = 1 /\ n >= h + 2
      BY <1>7, <1>8, <2>1, ReadChunks
    <2>3. s = h + 1
      BY <1>1, <1>8, <2>2, FirstReadFinds
    <2>4. t = 0 /\ file = <<>> /\ \A k \in 1..BufferSize : buffer[k] = NUL
      BY <1>3, <1>8 DEF NothingRead
    <2>5. file' = FilteredOf(M, Run(h, t + n))
      <3>1. s <= n /\ t + (s - 1) = h
        BY <1>4, <2>2, <2>3, <2>4
      <3>2. w = FilteredOf(M, Run(h, t + n))
        BY <1>4, <1>6, <3>1
      <3>3. w \in Seq(Nat)
        <4>1. t + n \in Nat /\ h <= t + n
          BY <1>4, <2>2
        <4>. QED
          BY <3>2, <4>1, RunFacts, FilteredType
      <3>4. file' = <<>> \o w
        BY <1>4, <2>4
      <3>. QED
        BY <3>2, <3>3, <3>4
    <2>6. ASSUME NEW k \in 1..BufferSize, b[k] = h + 2
          PROVE  k = h + 2
      <3>1. k \in 1..n
        <4>1. CASE k \in (n + 1)..BufferSize
          BY <1>5, <2>4, <2>6, <4>1 DEF NUL
        <4>. QED
          BY <1>4, <4>1
      <3>2. b[k] = t + k
        BY <1>5, <3>1
      <3>. QED
        BY <2>4, <2>6, <3>2
    <2>7. pc' = "read"
      BY <1>4, <2>2, <2>3
    <2>. QED
      BY <2>2, <2>5, <2>6, <2>7
  <1>9. CASE chunks # <<>>
    <2>1. PICK l \in Nat : l = Len(chunks)
      BY DEF TypeOK
    <2>2. /\ l >= 1 /\ chunks'[1] = chunks[1]
          /\ n = 0 => chunks' = chunks
          /\ n > 0 => /\ Len(chunks') = l + 1
                      /\ chunks'[l + 1] = n
                      /\ \A i \in 1..l : chunks'[i] = chunks[i]
      BY <1>9, <2>1, ReadChunks
    <2>3. LongReads
      <3>1. DeclarationInFirstRead
        BY <1>1, <1>7, <2>1, <2>2 DEF DeclarationInFirstRead
      <3>2. ASSUME NEW i \in 2..l PROVE chunks[i] >= h + 2
        <4>1. CASE n = 0
          BY <1>7, <2>1, <2>2, <4>1
        <4>2. CASE n > 0
          <5>1. i \in 2..(l + 1) /\ i \in 1..l
            BY <3>2
          <5>. QED
            BY <1>7, <2>2, <4>2, <5>1
        <4>. QED
          BY <1>4, <4>1, <4>2
      <3>. QED
        BY <1>1, <2>1, <3>1, <3>2 DEF LongReads
    <2>4. /\ file = FilteredOf(M, Run(h, t))
          /\ \A k \in 1..BufferSize : buffer[k] = h + 2 => Len(chunks) = 1 /\ k = h + 2
          /\ t >= h + 2
      BY <1>1, <1>3, <1>6, <2>3 DEF WrittenSoFar, LongReads, DeclarationArrived
    <2>5. FilteredOf(M, Run(h, t)) \in Seq(Nat)
      <3>1. Run(h, t) \in Seq(Nat)
        <4>1. h <= t
          BY <2>4
        <4>. QED
          BY <4>1, RunFacts
      <3>. QED
        BY <3>1, FilteredType
    <2>6. CASE n = 0
      <3>1. w = <<>>
        BY <1>4, <2>6
      <3>2. file' = file
        BY <1>4, <2>4, <2>5, <3>1
      <3>3. t + n = t /\ chunks' = chunks
        BY <2>2, <2>6
      <3>4. \A k \in 1..BufferSize : b[k] = buffer[k]
        BY <1>5, <2>6
      <3>5. closed'
        <4>1. closed' = (n = 0)
          BY <1>4
        <4>. QED
          BY <2>6, <4>1, Zenon
      <3>. QED
        BY <2>4, <3>2, <3>3, <3>4, <3>5
    <2>7. CASE n > 0
      <3>1. n >= h + 2
        <4>1. l + 1 \in 2..(l + 1)
          BY <2>2
        <4>. QED
          BY <1>7, <2>2, <2>7, <4>1
      <3>2. ASSUME NEW k \in 1..BufferSize PROVE b[k] # h + 2
        <4>1. CASE k \in 1..n
          <5>1. b[k] = t + k
            BY <1>5, <4>1
          <5>. QED
            BY <2>4, <4>1, <5>1
        <4>2. CASE k \in (n + 1)..BufferSize
          <5>1. b[k] = buffer[k]
            BY <1>5, <4>2
          <5>2. buffer[k] = h + 2 => k = h + 2
            BY <2>4
          <5>. QED
            BY <1>4, <3>1, <4>2, <5>1, <5>2
        <4>. QED
          BY <1>4, <4>1, <4>2
      <3>3. Found(b) = {}
        <4>. SUFFICES ASSUME NEW k \in Found(b) PROVE FALSE
          OBVIOUS
        <4>1. k \in 1..(BufferSize - 1) /\ b[k + 1] = h + 2
          BY <1>1, FoundWhere DEF ReadFrom, TypeOK
        <4>2. k + 1 \in 1..BufferSize
          BY <1>4, <4>1
        <4>. QED
          BY <3>2, <4>1, <4>2
      <3>4. s = 1
        BY <3>3 DEF ReadFrom
      <3>5. w = FilteredOf(M, Run(t, t + n))
        <4>1. s <= n /\ t + (s - 1) = t
          BY <1>4, <2>7, <3>4
        <4>. QED
          BY <1>4, <1>6, <4>1
      <3>6. file' = FilteredOf(M, Run(h, t + n))
        <4>1. t + n \in Nat /\ h <= t /\ t <= t + n
          BY <1>4, <2>4
        <4>2. file' = FilteredOf(M, Run(h, t)) \o FilteredOf(M, Run(t, t + n))
          BY <1>4, <2>4, <3>5
        <4>. QED
          BY <4>1, <4>2, FilteredSplit
      <3>7. pc' = "read"
        BY <1>4, <2>7, <3>4
      <3>. QED
        BY <3>2, <3>6, <3>7
    <2>. QED
      BY <1>4, <2>6, <2>7
  <1>. QED
    BY <1>8, <1>9

\* The invariant holds at first and every step keeps it.
LEMMA InitInv == Init => Inv
  <1>. SUFFICES ASSUME Init PROVE Inv
    OBVIOUS
  <1>1. PICK L \in Nat : L = Len(message) /\ HeaderLength \in Nat
    BY HeaderLengthIs DEF Init, Shape
  <1>2. Len(chunks) = 0 /\ DOMAIN file = {}
    BY DEF Init
  <1>3. TypeOK
    <2>1. message \in Messages /\ sent \in 0..Len(message)
      BY <1>1 DEF Init
    <2>2. buffer \in [1..BufferSize -> 0..Len(message)]
      BY <1>1 DEF Init, NUL
    <2>3. received \in -BufferSize..BufferSize /\ received > 0
      BY BufferAssumption DEF Init
    <2>4. file \in Seq(1..Len(message)) /\ chunks \in Seq(1..MaxRecord)
      BY DEF Init
    <2>5. closed \in BOOLEAN /\ pc \in {"read", "done", "failed"}
      BY DEF Init
    <2>. QED
      BY <2>1, <2>2, <2>3, <2>4, <2>5 DEF TypeOK
  <1>4. ~DeclarationInFirstRead
    BY <1>2 DEF DeclarationInFirstRead
  <1>5. NothingRead
    BY DEF Init, NothingRead
  <1>6. WrittenInOrder
    BY <1>2 DEF WrittenInOrder
  <1>. QED
    BY <1>3, <1>4, <1>5, <1>6
       DEF Inv, HeaderSkipped, DeclarationArrived, WrittenSoFar, LongReads

LEMMA NextInv == Inv /\ [Next]_vars => Inv'
  <1>. SUFFICES ASSUME Inv, [Next]_vars PROVE Inv'
    OBVIOUS
  <1>1. ASSUME NEW n \in 0..MaxRecord, sent + n <= Len(message), ReadChunk(n)
        PROVE  Inv'
    <2>1. PICK b, s, w : ReadFrom(n, b, s, w)
      BY <1>1, ReadIs DEF Inv
    <2>2. TypeOK'
      BY <2>1, ReadTypes DEF Inv
    <2>3. WrittenInOrder'
      BY <2>1, ReadInOrder DEF Inv
    <2>4. HeaderSkipped' /\ NothingRead' /\ DeclarationArrived'
      BY <2>1, ReadSkipsHeader DEF Inv
    <2>5. WrittenSoFar'
      BY <2>1, ReadGoesOn
    <2>. QED
      BY <2>2, <2>3, <2>4, <2>5 DEF Inv
  <1>2. CASE Receive
    <2>1. PICK n \in 1..Min({MaxRecord, Len(message) - sent}) : ReadChunk(n)
      BY <1>2 DEF Receive
    <2>2. n \in 1..MaxRecord /\ sent + n <= Len(message)
      BY <2>1, ReceiveBounds DEF Inv
    <2>3. n \in 0..MaxRecord
      BY <2>2, BufferAssumption
    <2>. QED
      BY <1>1, <2>1, <2>2, <2>3
  <1>3. CASE Closed
    <2>1. PICK L \in Nat : L = Len(message)
      BY HeaderLengthIs DEF Shape, Inv, TypeOK
    <2>2. 0 \in 0..MaxRecord /\ sent + 0 <= Len(message)
      BY <2>1, BufferAssumption DEF Inv, TypeOK
    <2>. QED
      BY <1>1, <1>3, <2>2 DEF Closed
  <1>4. CASE ReadError
    <2>1. /\ message' = message /\ sent' = sent /\ buffer' = buffer /\ file' = file
          /\ chunks' = chunks /\ closed' = closed
          /\ pc' = "failed" /\ received' = -1
      BY <1>4 DEF ReadError
    <2>2. BufferSize \in Nat /\ BufferSize > 0
      BY BufferAssumption
    <2>3. TypeOK'
      BY <2>1, <2>2 DEF Inv, TypeOK
    <2>4. WrittenInOrder'
      BY <2>1 DEF Inv, WrittenInOrder
    <2>5. HeaderLength' = HeaderLength
      BY <2>1, HeaderLengthKept
    <2>6. DeclarationInFirstRead' = DeclarationInFirstRead
      BY <2>1, <2>5 DEF DeclarationInFirstRead
    <2>7. HeaderSkipped' /\ NothingRead' /\ DeclarationArrived'
      BY <2>1, <2>5, <2>6 DEF Inv, HeaderSkipped, NothingRead, DeclarationArrived
    <2>8. WrittenSoFar'
      BY <2>1, <2>5, <2>6 DEF Inv, WrittenSoFar, LongReads
    <2>. QED
      BY <2>3, <2>4, <2>7, <2>8 DEF Inv
  <1>5. CASE UNCHANGED vars
    <2>1. /\ message' = message /\ sent' = sent /\ buffer' = buffer /\ file' = file
          /\ chunks' = chunks /\ closed' = closed /\ pc' = pc /\ received' = received
      BY <1>5 DEF vars
    <2>2. HeaderLength' = HeaderLength
      BY <2>1, HeaderLengthKept
    <2>3. DeclarationInFirstRead' = DeclarationInFirstRead
      BY <2>1, <2>2 DEF DeclarationInFirstRead
    <2>4. TypeOK' /\ WrittenInOrder' /\ NothingRead'
      BY <2>1 DEF Inv, TypeOK, WrittenInOrder, NothingRead
    <2>5. HeaderSkipped' /\ DeclarationArrived'
      BY <2>1, <2>2, <2>3 DEF Inv, HeaderSkipped, DeclarationArrived
    <2>6. WrittenSoFar'
      BY <2>1, <2>2, <2>3 DEF Inv, WrittenSoFar, LongReads
    <2>. QED
      BY <2>4, <2>5, <2>6 DEF Inv
  <1>. QED
    BY <1>2, <1>3, <1>4, <1>5 DEF Next

\* The invariant, of the specification.
LEMMA Invariance == Spec => []Inv
  BY InitInv, NextInv, PTL DEF Spec

-----------------------------------------------------------------------------
(* The theorems.                                                           *)

\* Whatever earlier reads have left in the buffer, the file that process_doh_request
\* writes holds bytes of the answer in order and once each, only bytes that have
\* arrived, and none of the header when the declaration comes with the first read:
\* for messages of any length and every split of them into reads.
THEOREM InOrder == Spec => []FileIsInOrder
  <1>1. Inv => FileIsInOrder
    BY DEF Inv, FileIsInOrder
  <1>. QED
    BY Invariance, <1>1, PTL

\* When the declaration comes with the first read and every read after it, the last
\* included, covers the header and the declaration, the loop ends only at the
\* server's close, and if all was sent the file is then the printable part of the
\* whole answer after its header.
THEOREM Entirety == Spec => []LongReadsAreEntire
  <1>1. ASSUME Inv PROVE LongReadsAreEntire
    <2>. SUFFICES ASSUME pc = "done", LongReads
                  PROVE  closed /\ (sent = Len(message) => file = Entire)
      BY DEF LongReadsAreEntire, LongReads
    <2>1. /\ file = FilteredOf(message, Run(HeaderLength, sent))
          /\ closed
      BY <1>1 DEF Inv, WrittenSoFar
    <2>2. Entire = FilteredOf(message, Run(HeaderLength, Len(message)))
      BY DEF Entire, Filtered, FilteredOf, Printable, PrintableOf, Run
    <2>. QED
      BY <2>1, <2>2
  <1>. QED
    BY Invariance, <1>1, PTL

=============================================================================

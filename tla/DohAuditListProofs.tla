-------------------------- MODULE DohAuditListProofs --------------------------
(***************************************************************************)
(* Proofs about DohAuditList: the audit table is a sound list whatever the *)
(* messages are, and a sorted log to its reader.                           *)
(***************************************************************************)
EXTENDS DohAuditList, DohLogListProofs

AuditNodes == NodesOf(AuditTags \cup {"response", "audit", "error"}, 0..MaxValue)

\* The entry that is in the making: only a call that has not returned has one.
Making == IF pc \in {"read", "link", "crashed"} THEN Unfinished ELSE {}

\* The walk to the entry's place in the list cs is at its k-th cell.
Walking(cs) == \E k : Place(cs, k, loop, prev, rec, entry)

\* The inductive invariant.
CallInv ==
    /\ message \in Seq(AuditNodes)
    /\ at \in 0..Len(message)
    /\ status \in {-2, -1, 0, 1}
    /\ in_audit \in BOOLEAN
    /\ pc = "link" => in_audit /\ entry # NULL

TableIs(cs) ==
    /\ Heap(cs, next, table, used, Making, leaked)
    /\ pc = "link" => Walking(cs)

Inv == ListTypeOK /\ CallInv /\ \E cs : TableIs(cs)

-----------------------------------------------------------------------------
(* The messages.                                                           *)

Values == 0..MaxValue

\* An answer is an element of audits, which are elements of fields.
Audit(r) == Element("audit", 0, Fields(r))
Audits(rs) == [n \in DOMAIN rs |-> Audit(rs[n])]

\* Where in it the n-th audit begins, and where its first i fields end.
Begin(rs, n) == 2 + Offset(Audits(rs), n - 1)
FieldAt(rs, n, i) == Begin(rs, n) + Offset(Fields(rs[n]), i)

TagsOf(r) == {r[i].tag : i \in DOMAIN r}

\* The nodes of a record, ...
LEMMA FieldsIn ==
    ASSUME NEW r \in Records
    PROVE  /\ r \in Seq([tag : AuditTags, value : {SelfClosed, Hollow} \cup 1..MaxValue])
           /\ Fields(r) \in Seq(Seq(NodesOf(TagsOf(r), Values)))
           /\ TagsOf(r) \subseteq AuditTags
           /\ Len(Fields(r)) = Len(r)
           /\ \A n \in 1..Len(r) : Fields(r)[n] = Field(r[n].tag, r[n].value)
  <1>. DEFINE F == [tag : AuditTags, value : {SelfClosed, Hollow} \cup 1..MaxValue]
  <1>1. r \in Seq(F)
    BY RecordAssumption
  <1>2. PICK N \in Nat : N = Len(r)
    BY <1>1
  <1>3. DOMAIN r = 1..N
    BY <1>1, <1>2
  <1>4. ASSUME NEW n \in 1..N PROVE Field(r[n].tag, r[n].value) \in Seq(NodesOf(TagsOf(r), Values))
    <2>1. r[n] \in F
      <3>. HIDE DEF F
      <3>. QED
        BY <1>1, <1>2
    <2>2. r[n].tag \in AuditTags /\ r[n].value \in Values \cup {SelfClosed, Hollow} /\ 0 \in Values
      BY <2>1, CellAssumption DEF Values
    <2>3. r[n].tag \in TagsOf(r)
      BY <1>3 DEF TagsOf
    <2>. HIDE DEF Values
    <2>. QED
      BY <2>2, <2>3, FieldIn
  <1>5. PICK W : W = Seq(NodesOf(TagsOf(r), Values))
    OBVIOUS
  <1>6. Fields(r) = [n \in 1..N |-> Field(r[n].tag, r[n].value)]
    BY <1>3 DEF Fields
  <1>7. \A n \in 1..N : Field(r[n].tag, r[n].value) \in W
    BY <1>4, <1>5
  <1>8. Fields(r) \in Seq(W) /\ Len(Fields(r)) = N
    BY <1>6, <1>7
  <1>9. ASSUME NEW n \in 1..N PROVE r[n].tag \in AuditTags
    <2>1. r[n] \in F
      <3>. HIDE DEF F
      <3>. QED
        BY <1>1, <1>2
    <2>. QED
      BY <2>1
  <1>10. TagsOf(r) \subseteq AuditTags
    BY <1>3, <1>9 DEF TagsOf
  <1>. QED
    BY <1>1, <1>2, <1>5, <1>6, <1>8, <1>10

\* ... each with a known tag, ...
LEMMA FieldOf ==
    ASSUME NEW r \in Records, NEW i \in 1..Len(r)
    PROVE  r[i] \in [tag : AuditTags, value : {SelfClosed, Hollow} \cup 1..MaxValue]
  <1>. DEFINE F == [tag : AuditTags, value : {SelfClosed, Hollow} \cup 1..MaxValue]
  <1>1. r \in Seq(F)
    BY FieldsIn
  <1>. HIDE DEF F
  <1>2. r[i] \in F
    BY <1>1
  <1>. QED
    BY <1>2 DEF F

\* ... and of the audit around it, ...
LEMMA AuditIs ==
    ASSUME NEW r \in Records
    PROVE  /\ Audit(r) \in Seq(AuditNodes)
           /\ Len(Audit(r)) = Len(FlattenSeq(Fields(r))) + 2
           /\ Len(FlattenSeq(Fields(r))) \in Nat
           /\ Audit(r)[1] = Node("audit", "start", 0)
           /\ Audit(r)[Len(Audit(r))] = Node("audit", "end", 0)
           /\ \A p \in 1..Len(FlattenSeq(Fields(r))) :
                 Audit(r)[1 + p] = FlattenSeq(Fields(r))[p]
           /\ FlattenSeq(Fields(r)) \in Seq(NodesOf(TagsOf(r), Values))
  <1>1. Fields(r) \in Seq(Seq(NodesOf(TagsOf(r), Values)))
    BY FieldsIn
  <1>2. NodesOf(TagsOf(r), Values) \subseteq AuditNodes
    BY FieldsIn DEF NodesOf, AuditNodes, Values
  <1>3. Fields(r) \in Seq(Seq(AuditNodes))
    BY <1>1, <1>2, SeqMono
  <1>4. Node("audit", "start", 0) \in AuditNodes /\ Node("audit", "end", 0) \in AuditNodes
    BY CellAssumption DEF Node, NodesOf, AuditNodes
  <1>5. FlattenSeq(Fields(r)) \in Seq(NodesOf(TagsOf(r), Values))
    BY <1>1, FlattenPlaces
  <1>. HIDE DEF AuditNodes
  <1>6. /\ Audit(r) \in Seq(AuditNodes)
        /\ Len(Audit(r)) = Len(FlattenSeq(Fields(r))) + 2
        /\ Audit(r)[1] = Node("audit", "start", 0)
        /\ Audit(r)[Len(FlattenSeq(Fields(r))) + 2] = Node("audit", "end", 0)
        /\ \A p \in 1..Len(FlattenSeq(Fields(r))) :
              Audit(r)[1 + p] = FlattenSeq(Fields(r))[p]
    BY <1>3, <1>4, ElementIs DEF Audit
  <1>. QED
    BY <1>5, <1>6

\* ... and of an answer.
LEMMA AnswerIs ==
    ASSUME NEW rs \in Seq(Records)
    PROVE  /\ Audits(rs) \in Seq(Seq(AuditNodes))
           /\ Len(Audits(rs)) = Len(rs)
           /\ \A n \in 1..Len(rs) : Audits(rs)[n] = Audit(rs[n])
           /\ FlattenSeq(Audits(rs)) \in Seq(AuditNodes)
           /\ Answer(rs) \in Seq(AuditNodes)
           /\ Len(Answer(rs)) = Len(FlattenSeq(Audits(rs))) + 2
           /\ Answer(rs)[1] = Node("response", "start", 0)
           /\ Answer(rs)[Len(Answer(rs))] = Node("response", "end", 0)
           /\ \A p \in 1..Len(FlattenSeq(Audits(rs))) :
                 Answer(rs)[1 + p] = FlattenSeq(Audits(rs))[p]
  <1>1. PICK N \in Nat : N = Len(rs)
    OBVIOUS
  <1>2. DOMAIN rs = 1..N /\ \A n \in 1..N : rs[n] \in Records
    BY <1>1
  <1>3. PICK W : W = Seq(AuditNodes)
    OBVIOUS
  <1>4. \A n \in 1..N : Audit(rs[n]) \in W
    BY <1>2, <1>3, AuditIs
  <1>5. Audits(rs) = [n \in 1..N |-> Audit(rs[n])]
    BY <1>2 DEF Audits
  <1>6. Audits(rs) \in Seq(W) /\ Len(Audits(rs)) = N
    BY <1>4, <1>5
  <1>7. Node("response", "start", 0) \in AuditNodes /\ Node("response", "end", 0) \in AuditNodes
    BY CellAssumption DEF Node, NodesOf, AuditNodes
  <1>. HIDE DEF AuditNodes
  <1>8. Answer(rs) = Element("response", 0, Audits(rs))
    BY DEF Answer, Audits, Audit
  <1>9. /\ Answer(rs) \in Seq(AuditNodes)
        /\ FlattenSeq(Audits(rs)) \in Seq(AuditNodes)
        /\ Len(Answer(rs)) = Len(FlattenSeq(Audits(rs))) + 2
        /\ Answer(rs)[1] = Node("response", "start", 0)
        /\ Answer(rs)[Len(FlattenSeq(Audits(rs))) + 2] = Node("response", "end", 0)
        /\ \A p \in 1..Len(FlattenSeq(Audits(rs))) :
              Answer(rs)[1 + p] = FlattenSeq(Audits(rs))[p]
    BY <1>3, <1>6, <1>7, <1>8, ElementIs
  <1>. QED
    BY <1>1, <1>3, <1>5, <1>6, <1>9

\* The ends of an answer, and where its audits begin and end.
LEMMA AnswerPlaces ==
    ASSUME NEW rs \in Seq(Records)
    PROVE  /\ Begin(rs, 1) = 2
           /\ Begin(rs, Len(rs) + 1) = Len(Answer(rs))
           /\ \A n \in 1..(Len(rs) + 1) : Begin(rs, n) \in 2..Len(Answer(rs))
           /\ \A n \in 1..Len(rs) :
                 Begin(rs, n + 1) = Begin(rs, n) + Len(FlattenSeq(Fields(rs[n]))) + 2
  <1>1. PICK N \in Nat : N = Len(rs)
    OBVIOUS
  <1>2. PICK ss : ss = Audits(rs)
    OBVIOUS
  <1>3. /\ ss \in Seq(Seq(AuditNodes)) /\ Len(ss) = N
        /\ \A n \in 1..N : ss[n] = Audit(rs[n])
        /\ Len(Answer(rs)) = Len(FlattenSeq(ss)) + 2
        /\ FlattenSeq(ss) \in Seq(AuditNodes)
    BY <1>1, <1>2, AnswerIs
  <1>4. /\ Offset(ss, 0) = 0
        /\ Offset(ss, N) = Len(FlattenSeq(ss))
        /\ \A k \in 0..N : Offset(ss, k) \in 0..Len(FlattenSeq(ss))
        /\ \A k \in 1..N : Offset(ss, k) = Offset(ss, k - 1) + Len(ss[k])
    <2>. HIDE DEF AuditNodes
    <2>1. /\ Offset(ss, 0) = 0
          /\ Offset(ss, Len(ss)) = Len(FlattenSeq(ss))
          /\ \A k \in 0..Len(ss) : Offset(ss, k) \in 0..Len(FlattenSeq(ss))
          /\ \A k \in 1..Len(ss) : Offset(ss, k) = Offset(ss, k - 1) + Len(ss[k])
      BY <1>3, FlattenPlaces, ZenonT(30)
    <2>. QED
      BY <1>3, <2>1
  <1>5. PICK L \in Nat : L = Len(FlattenSeq(ss))
    BY <1>3
  <1>6. \A n \in 1..N : rs[n] \in Records
    BY <1>1
  <1>7. Begin(rs, 1) = 2 /\ Begin(rs, N + 1) = Len(Answer(rs))
    BY <1>2, <1>3, <1>4, <1>5 DEF Begin
  <1>8. ASSUME NEW n \in 1..(N + 1) PROVE Begin(rs, n) \in 2..Len(Answer(rs))
    <2>1. n - 1 \in 0..N
      OBVIOUS
    <2>2. Offset(ss, n - 1) \in 0..L
      BY <1>4, <1>5, <2>1
    <2>. QED
      BY <1>2, <1>3, <1>5, <2>2 DEF Begin
  <1>9. ASSUME NEW n \in 1..N
        PROVE  Begin(rs, n + 1) = Begin(rs, n) + Len(FlattenSeq(Fields(rs[n]))) + 2
    <2>1. n - 1 \in 0..N /\ (n + 1) - 1 = n
      OBVIOUS
    <2>2. Offset(ss, n) = Offset(ss, n - 1) + Len(Audit(rs[n]))
      BY <1>3, <1>4
    <2>3. /\ Len(Audit(rs[n])) = Len(FlattenSeq(Fields(rs[n]))) + 2
          /\ Len(FlattenSeq(Fields(rs[n]))) \in Nat
      BY <1>6, AuditIs
    <2>4. Offset(ss, n - 1) \in Nat
      BY <1>4, <1>5, <2>1
    <2>. QED
      BY <1>2, <2>1, <2>2, <2>3, <2>4 DEF Begin
  <1>. QED
    BY <1>1, <1>7, <1>8, <1>9

\* The nodes of the n-th audit in an answer.
LEMMA AuditPlaces ==
    ASSUME NEW rs \in Seq(Records), NEW n \in 1..Len(rs), NEW p \in 1..Len(Audit(rs[n]))
    PROVE  Answer(rs)[Begin(rs, n) + (p - 1)] = Audit(rs[n])[p]
  <1>1. PICK N \in Nat : N = Len(rs)
    OBVIOUS
  <1>2. PICK ss : ss = Audits(rs)
    OBVIOUS
  <1>3. /\ ss \in Seq(Seq(AuditNodes)) /\ Len(ss) = N
        /\ ss[n] = Audit(rs[n])
        /\ FlattenSeq(ss) \in Seq(AuditNodes)
        /\ \A q \in 1..Len(FlattenSeq(ss)) : Answer(rs)[1 + q] = FlattenSeq(ss)[q]
    BY <1>1, <1>2, AnswerIs
  <1>4. /\ \A k \in 0..N : Offset(ss, k) \in 0..Len(FlattenSeq(ss))
        /\ Offset(ss, n) = Offset(ss, n - 1) + Len(ss[n])
        /\ \A j \in 1..Len(ss[n]) : FlattenSeq(ss)[Offset(ss, n - 1) + j] = ss[n][j]
    <2>. HIDE DEF AuditNodes
    <2>. QED
      BY <1>1, <1>3, FlattenPlaces, SMTT(30)
  <1>5. PICK L \in Nat : L = Len(FlattenSeq(ss))
    BY <1>3
  <1>6. PICK l \in Nat : l = Len(ss[n]) /\ p \in 1..l
    <2>1. rs[n] \in Records
      OBVIOUS
    <2>. QED
      BY <1>3, <2>1, AuditIs
  <1>7. PICK o \in 0..L : o = Offset(ss, n - 1) /\ Offset(ss, n) = o + l /\ o + l <= L
    <2>1. n - 1 \in 0..N /\ n \in 0..N
      BY <1>1
    <2>2. Offset(ss, n - 1) \in 0..L /\ Offset(ss, n) \in 0..L
      BY <1>4, <1>5, <2>1
    <2>. QED
      BY <1>4, <1>6, <2>2
  <1>8. o + p \in 1..L
    BY <1>6, <1>7
  <1>9. Answer(rs)[1 + (o + p)] = ss[n][p]
    BY <1>3, <1>4, <1>5, <1>6, <1>7, <1>8
  <1>10. Begin(rs, n) + (p - 1) = 1 + (o + p)
    BY <1>2, <1>7 DEF Begin
  <1>. QED
    BY <1>3, <1>9, <1>10

\* The ends of the n-th audit, and its fields.
LEMMA FieldPlaces ==
    ASSUME NEW rs \in Seq(Records), NEW n \in 1..Len(rs)
    PROVE  /\ Answer(rs)[Begin(rs, n)] = Node("audit", "start", 0)
           /\ Answer(rs)[Begin(rs, n + 1) - 1] = Node("audit", "end", 0)
           /\ \A p \in (Begin(rs, n) + 1)..(Begin(rs, n + 1) - 2) :
                 Answer(rs)[p] \in NodesOf(TagsOf(rs[n]), Values)
           /\ FieldAt(rs, n, 0) = Begin(rs, n)
           /\ FieldAt(rs, n, Len(rs[n])) = Begin(rs, n + 1) - 2
           /\ \A i \in 0..Len(rs[n]) : FieldAt(rs, n, i) \in Begin(rs, n)..(Begin(rs, n + 1) - 2)
           /\ \A i \in 1..Len(rs[n]) :
                 LET field == Field(rs[n][i].tag, rs[n][i].value)
                 IN  /\ FieldAt(rs, n, i) = FieldAt(rs, n, i - 1) + Len(field)
                     /\ \A j \in 1..Len(field) :
                           Answer(rs)[FieldAt(rs, n, i - 1) + j] = field[j]
  <1>1. PICK r \in Records : r = rs[n]
    OBVIOUS
  <1>2. PICK fs : fs = Fields(r)
    OBVIOUS
  <1>3. /\ Audit(r)[1] = Node("audit", "start", 0)
        /\ Len(Audit(r)) = Len(FlattenSeq(fs)) + 2
        /\ Audit(r)[Len(Audit(r))] = Node("audit", "end", 0)
        /\ \A p \in 1..Len(FlattenSeq(fs)) : Audit(r)[1 + p] = FlattenSeq(fs)[p]
        /\ FlattenSeq(fs) \in Seq(NodesOf(TagsOf(r), Values))
    BY <1>2, AuditIs
  <1>4. PICK M \in Nat : M = Len(FlattenSeq(fs))
    BY <1>3
  <1>5. /\ Begin(rs, n) \in Nat
        /\ Begin(rs, n + 1) = Begin(rs, n) + M + 2
    <2>1. Begin(rs, n) \in 2..Len(Answer(rs)) /\ Begin(rs, n + 1) = Begin(rs, n) + M + 2
      BY <1>1, <1>2, <1>4, AnswerPlaces
    <2>. QED
      BY <2>1
  <1>6. \A p \in 1..(M + 2) : Answer(rs)[Begin(rs, n) + (p - 1)] = Audit(r)[p]
    BY <1>1, <1>3, <1>4, AuditPlaces
  <1>7. /\ Answer(rs)[Begin(rs, n)] = Node("audit", "start", 0)
        /\ Answer(rs)[Begin(rs, n + 1) - 1] = Node("audit", "end", 0)
    <2>1. 1 \in 1..(M + 2) /\ M + 2 \in 1..(M + 2)
      OBVIOUS
    <2>2. Begin(rs, n) + (1 - 1) = Begin(rs, n)
          /\ Begin(rs, n) + ((M + 2) - 1) = Begin(rs, n + 1) - 1
      BY <1>5
    <2>. QED
      BY <1>3, <1>4, <1>6, <2>1, <2>2
  <1>8. ASSUME NEW p \in 1..M PROVE Answer(rs)[Begin(rs, n) + p] = FlattenSeq(fs)[p]
    <2>1. 1 + p \in 1..(M + 2) /\ (1 + p) - 1 = p
      OBVIOUS
    <2>. QED
      BY <1>3, <1>4, <1>6, <2>1
  <1>9. ASSUME NEW p \in (Begin(rs, n) + 1)..(Begin(rs, n + 1) - 2)
        PROVE  Answer(rs)[p] \in NodesOf(TagsOf(r), Values)
    <2>1. p - Begin(rs, n) \in 1..M /\ Begin(rs, n) + (p - Begin(rs, n)) = p
      BY <1>5
    <2>2. FlattenSeq(fs)[p - Begin(rs, n)] \in NodesOf(TagsOf(r), Values)
      BY <1>3, <1>4, <2>1
    <2>. QED
      BY <1>8, <2>1, <2>2
  <1>10. /\ Len(fs) = Len(r) /\ Len(r) \in Nat
         /\ fs \in Seq(Seq(NodesOf(TagsOf(r), Values)))
         /\ \A i \in 1..Len(r) : fs[i] = Field(r[i].tag, r[i].value)
    <2>1. r \in Seq([tag : AuditTags, value : {SelfClosed, Hollow} \cup 1..MaxValue])
      BY FieldsIn
    <2>. QED
      BY <1>2, <2>1, FieldsIn
  <1>11. /\ Offset(fs, 0) = 0 /\ Offset(fs, Len(r)) = M
         /\ \A i \in 0..Len(r) : Offset(fs, i) \in 0..M
         /\ \A i \in 1..Len(r) :
               /\ Offset(fs, i) = Offset(fs, i - 1) + Len(fs[i])
               /\ \A j \in 1..Len(fs[i]) : FlattenSeq(fs)[Offset(fs, i - 1) + j] = fs[i][j]
    BY <1>4, <1>10, FlattenPlaces, SMTT(30)
  <1>12. \A i \in 0..Len(r) : FieldAt(rs, n, i) = Begin(rs, n) + Offset(fs, i)
    BY <1>1, <1>2 DEF FieldAt
  <1>13. /\ FieldAt(rs, n, 0) = Begin(rs, n)
         /\ FieldAt(rs, n, Len(r)) = Begin(rs, n + 1) - 2
         /\ \A i \in 0..Len(r) : FieldAt(rs, n, i) \in Begin(rs, n)..(Begin(rs, n + 1) - 2)
    <2>1. 0 \in 0..Len(r) /\ Len(r) \in 0..Len(r)
      BY <1>10
    <2>. QED
      BY <1>5, <1>11, <1>12, <2>1, SMTT(30)
  <1>14. ASSUME NEW i \in 1..Len(r)
         PROVE  /\ FieldAt(rs, n, i) = FieldAt(rs, n, i - 1) + Len(fs[i])
                /\ \A j \in 1..Len(fs[i]) : Answer(rs)[FieldAt(rs, n, i - 1) + j] = fs[i][j]
    <2>1. i - 1 \in 0..Len(r) /\ i \in 0..Len(r)
      BY <1>10
    <2>2. PICK o \in 0..M : o = Offset(fs, i - 1)
      BY <1>11, <2>1
    <2>3. PICK l \in Nat : l = Len(fs[i])
      <3>1. fs[i] \in Seq(NodesOf(TagsOf(r), Values))
        BY <1>10
      <3>. QED
        BY <3>1
    <2>4. Offset(fs, i) = o + l /\ o + l \in 0..M
      BY <1>11, <2>1, <2>2, <2>3
    <2>5. FieldAt(rs, n, i - 1) = Begin(rs, n) + o /\ FieldAt(rs, n, i) = Begin(rs, n) + (o + l)
      BY <1>12, <2>1, <2>2, <2>4
    <2>6. ASSUME NEW j \in 1..l PROVE Answer(rs)[FieldAt(rs, n, i - 1) + j] = fs[i][j]
      <3>1. o + j \in 1..M
        BY <2>4
      <3>2. FlattenSeq(fs)[o + j] = fs[i][j]
        BY <1>11, <2>2, <2>3
      <3>3. Answer(rs)[Begin(rs, n) + (o + j)] = fs[i][j]
        BY <1>8, <3>1, <3>2
      <3>4. (Begin(rs, n) + o) + j = Begin(rs, n) + (o + j)
        BY <1>5
      <3>. QED
        BY <2>5, <3>3, <3>4
    <2>. QED
      BY <1>5, <2>3, <2>5, <2>6
  <1>. QED
    BY <1>1, <1>7, <1>9, <1>10, <1>13, <1>14

\* Every message is made of the nodes of audits, as far as it arrived.
LEMMA MessageIn ==
    ASSUME NEW m,
           \/ \E rs \in Seq(Records) : m \in Prefixes(Answer(rs))
           \/ \E text \in {LoginRequired, OtherError} : m \in Prefixes(Refusal(text))
    PROVE  m \in Seq(AuditNodes)
  <1>. DEFINE T == AuditTags \cup {"response", "audit", "error"}
              V == 0..MaxValue
  <1>1. 0 \in V /\ 1..MaxValue \subseteq V
    BY CellAssumption
  <1>2. "response" \in T /\ "error" \in T
    OBVIOUS
  <1>3. AuditNodes = NodesOf(T, V)
    BY DEF AuditNodes
  <1>. HIDE DEF T, V
  <1>4. ASSUME NEW rs \in Seq(Records) PROVE Answer(rs) \in Seq(AuditNodes)
    BY AnswerIs
  <1>5. ASSUME NEW text \in {LoginRequired, OtherError} PROVE Refusal(text) \in Seq(AuditNodes)
    <2>1. text \in V
      BY <1>1, <1>5, RecordAssumption
    <2>2. Field("error", text) \in Seq(NodesOf(T, V))
      BY <1>1, <1>2, <2>1, FieldIn
    <2>3. PICK W : W = Seq(NodesOf(T, V))
      OBVIOUS
    <2>4. <<Field("error", text)>> \in Seq(W)
      BY <2>2, <2>3
    <2>5. Element("response", 0, <<Field("error", text)>>) \in Seq(NodesOf(T, V))
      BY <1>1, <1>2, <2>3, <2>4, ElementIn
    <2>. QED
      BY <1>3, <2>5 DEF Refusal
  <1>. HIDE DEF AuditNodes
  <1>6. CASE \E rs \in Seq(Records) : m \in Prefixes(Answer(rs))
    <2>1. PICK s : s \in Seq(AuditNodes) /\ m \in Prefixes(s)
      BY <1>4, <1>6
    <2>. QED
      BY <2>1, PrefixOf
  <1>7. CASE \E text \in {LoginRequired, OtherError} : m \in Prefixes(Refusal(text))
    <2>1. PICK s : s \in Seq(AuditNodes) /\ m \in Prefixes(s)
      BY <1>5, <1>7
    <2>. QED
      BY <2>1, PrefixOf
  <1>. QED
    BY <1>6, <1>7

-----------------------------------------------------------------------------
(* Each step keeps the table a list, and is one of the log or none.        *)

\* What a step leads to, when the table's list was cs.
Kept(cs) ==
    /\ ListTypeOK'
    /\ CallInv'
    /\ \E ds : TableIs(ds)' /\ LogStep(Entries, RecordsOf(cs, rec), RecordsOf(ds, rec'))

\* A step that leaves the list alone, keeps its records and does not walk along it.
LEMMA Aside ==
    ASSUME NEW cs, TableIs(cs), ListTypeOK', CallInv', UNCHANGED <<table, next, used>>,
           \A c \in CellsOf(cs) : rec'[c] = rec[c],
           \/ Making' = Making /\ leaked' = leaked
           \/ Making' = {} /\ leaked' = leaked \cup Making,
           pc' # "link"
    PROVE  Kept(cs)
  <1>1. Heap(cs, next, table, used, Making, leaked)
    BY DEF TableIs
  <1>2. Heap(cs, next', table', used', Making', leaked')
    <2>1. Heap(cs, next, table, used, Making', leaked')
      BY <1>1, LeakStep
    <2>. QED
      BY <2>1
  <1>3. TableIs(cs)'
    BY <1>2 DEF TableIs
  <1>4. RecordsOf(cs, rec') = RecordsOf(cs, rec)
    BY SameRecords
  <1>. QED
    BY <1>3, <1>4 DEF Kept, LogStep

\* A call keeps the list of the last one, until it is freed.
LEMMA KeptByPopulate ==
    ASSUME ListTypeOK, CallInv, NEW cs, TableIs(cs), Populate
    PROVE  Kept(cs)
  <1>1. /\ pc = "idle" /\ pc' = "free" /\ at' = 0
        /\ UNCHANGED <<table, next, rec, used, loop, prev, in_audit, status, leaked>>
        /\ entry' = NULL
    BY DEF Populate, heapVars, linkVars
  <1>2. message' \in Seq(AuditNodes)
    <2>1. CASE /\ records' \in BoundedSeq(Records, MaxRecords - total)
               /\ message' \in Prefixes(Answer(records'))
      <3>1. records' \in Seq(Records)
        BY <2>1 DEF BoundedSeq, SeqOf
      <3>. QED
        BY <2>1, <3>1, MessageIn
    <2>2. CASE \E text \in {LoginRequired, OtherError} : message' \in Prefixes(Refusal(text))
      BY <2>2, MessageIn
    <2>. QED
      BY <2>1, <2>2 DEF Populate
  <1>3. ListTypeOK'
    BY <1>1 DEF ListTypeOK
  <1>4. CallInv'
    <2>1. Len(message') \in Nat
      BY <1>2
    <2>. QED
      BY <1>1, <1>2, <2>1 DEF CallInv
  <1>5. Making = {} /\ Making' = {}
    BY <1>1 DEF Making
  <1>. QED
    BY <1>1, <1>3, <1>4, <1>5, Aside

\* Freeing the head leaves the tail.
LEMMA KeptByFree ==
    ASSUME ListTypeOK, CallInv, NEW cs, TableIs(cs), Free
    PROVE  Kept(cs)
  <1>1. /\ pc = "free" /\ FreeHead
        /\ UNCHANGED <<pc, in_audit, at, leaked, message, status>>
    BY DEF Free, FreeHead, callVars
  <1>2. Making = {} /\ Making' = {}
    BY <1>1 DEF Making
  <1>3. Heap(cs, next, table, used, {}, leaked)
    BY <1>2 DEF TableIs
  <1>4. /\ ListTypeOK'
        /\ cs # <<>>
        /\ Heap(Tail(cs), next', table', used', {}, leaked)
        /\ rec' = rec
    BY <1>1, <1>3, FreeHeadStep
  <1>5. TableIs(Tail(cs))'
    BY <1>1, <1>2, <1>4 DEF TableIs
  <1>6. cs \in Seq(Cells) /\ rec \in [Cells -> Entries]
    BY <1>3 DEF Heap, IsList, ListTypeOK
  <1>7. LogStep(Entries, RecordsOf(cs, rec), RecordsOf(Tail(cs), rec'))
    BY <1>4, <1>6, TailLogStep
  <1>8. CallInv'
    BY <1>1 DEF CallInv
  <1>. QED
    BY <1>4, <1>5, <1>7, <1>8 DEF Kept

\* The parse begins with no audit open, so with no entry in the making.
LEMMA KeptByStartReading ==
    ASSUME ListTypeOK, CallInv, NEW cs, TableIs(cs), StartReading
    PROVE  Kept(cs)
  <1>1. /\ pc = "free" /\ pc' = "read" /\ entry' = NULL /\ in_audit' = FALSE
        /\ UNCHANGED <<table, next, rec, used, loop, prev, at, leaked, message, status>>
    BY DEF StartReading, ResetsInAudit, heapVars, linkVars, callVars
  <1>2. ListTypeOK'
    BY <1>1 DEF ListTypeOK
  <1>3. CallInv'
    BY <1>1 DEF CallInv
  <1>4. Making = {} /\ Making' = {}
    BY <1>1 DEF Making, Unfinished
  <1>. QED
    BY <1>1, <1>2, <1>3, <1>4, Aside

\* Where the parse ends, the entry in the making is lost; an error passed over
\* changes nothing.
LEMMA KeptByReturns ==
    ASSUME ListTypeOK, CallInv, NEW cs, TableIs(cs), EndOfMessage \/ ReadError
    PROVE  Kept(cs)
  <1>1. /\ pc = "read" /\ pc' \in {"idle", "read"}
        /\ UNCHANGED <<table, next, rec, used, entry, loop, prev, in_audit, message>>
    BY DEF EndOfMessage, ReadError, More, Return, heapVars, linkVars
  <1>2. ListTypeOK'
    BY <1>1 DEF ListTypeOK
  <1>3. status' \in {-2, -1, 0, 1}
    BY DEF EndOfMessage, ReadError, Return, CallInv
  <1>4. at' \in 0..Len(message)
    <2>1. CASE at' = at
      BY <2>1 DEF CallInv
    <2>2. CASE More /\ at' = ErrorText.at
      <3>1. message \in Seq(AuditNodes) /\ at + 1 \in 1..Len(message) /\ 0 \in 0..MaxValue
        BY <2>2, CellAssumption DEF CallInv, More
      <3>2. ErrorText.at \in (at + 1)..Len(message)
        BY <3>1, GetTagValueIn DEF ErrorText, AuditNodes
      <3>. QED
        BY <2>2, <3>1, <3>2
    <2>. QED
      BY <2>1, <2>2 DEF EndOfMessage, ReadError
  <1>5. CallInv'
    BY <1>1, <1>3, <1>4 DEF CallInv
  <1>6. \/ Making' = Making /\ leaked' = leaked
        \/ Making' = {} /\ leaked' = leaked \cup Making
    <2>1. CASE pc' = "idle" /\ leaked' = leaked \cup Unfinished
      BY <1>1, <2>1 DEF Making
    <2>2. CASE UNCHANGED <<pc, leaked>>
      BY <1>1, <2>2 DEF Making, Unfinished
    <2>. QED
      BY <2>1, <2>2 DEF EndOfMessage, ReadError, Return
  <1>. QED
    BY <1>1, <1>2, <1>5, <1>6, Aside

\* The entry of an audit is a new cell.
LEMMA KeptByEnterAudit ==
    ASSUME ListTypeOK, CallInv, NEW cs, TableIs(cs), EnterAudit
    PROVE  Kept(cs)
  <1>1. /\ pc = "read" /\ ~in_audit /\ in_audit' = TRUE /\ at < Len(message) /\ at' = at + 1
        /\ NewEntry(Zeroed)
        /\ UNCHANGED <<pc, table, linkVars, leaked, message, status>>
    BY DEF EnterAudit, More, callVars
  <1>2. Making = {}
    BY <1>1 DEF Making, Unfinished
  <1>3. Heap(cs, next, table, used, {}, leaked)
    BY <1>2 DEF TableIs
  <1>4. Zeroed \in Entries
    BY CellAssumption DEF Zeroed, Entries, NULL
  <1>5. /\ ListTypeOK'
        /\ entry' \in Cells
        /\ Heap(cs, next', table', used', {entry'}, leaked)
        /\ \A c \in CellsOf(cs) : rec'[c] = rec[c]
    BY <1>1, <1>3, <1>4, NewEntryStep
  <1>6. Making' = {entry'}
    BY <1>1, <1>5 DEF Making, Unfinished, Cells, NULL
  <1>7. TableIs(cs)'
    BY <1>1, <1>5, <1>6 DEF TableIs
  <1>8. RecordsOf(cs, rec') = RecordsOf(cs, rec)
    BY <1>5, SameRecords
  <1>9. CallInv'
    BY <1>1 DEF CallInv
  <1>. QED
    BY <1>5, <1>7, <1>8, <1>9 DEF Kept, LogStep

\* An entry without an index is freed; in_audit stays, but there is no entry.
LEMMA KeptByLeaveUnusable ==
    ASSUME ListTypeOK, CallInv, NEW cs, TableIs(cs), LeaveUnusable
    PROVE  Kept(cs)
  <1>1. /\ pc = "read" /\ in_audit /\ entry # NULL /\ at < Len(message) /\ at' = at + 1
        /\ FreeEntry
        /\ UNCHANGED <<pc, table, next, rec, linkVars, in_audit, leaked, message, status>>
    BY DEF LeaveUnusable, More, callVars
  <1>2. Making = {entry}
    BY <1>1 DEF Making, Unfinished
  <1>3. Heap(cs, next, table, used, {entry}, leaked)
    BY <1>2 DEF TableIs
  <1>4. ListTypeOK' /\ Heap(cs, next', table', used', {}, leaked)
    BY <1>1, <1>3, FreeEntryStep
  <1>5. Making' = {}
    BY <1>1 DEF Making, Unfinished, FreeEntry
  <1>6. TableIs(cs)'
    BY <1>1, <1>4, <1>5 DEF TableIs
  <1>7. CallInv'
    BY <1>1 DEF CallInv
  <1>. QED
    BY <1>1, <1>4, <1>6, <1>7 DEF Kept, LogStep

\* The walk begins at the head of the list.
LEMMA KeptByLeaveAudit ==
    ASSUME ListTypeOK, CallInv, NEW cs, TableIs(cs), LeaveAudit
    PROVE  Kept(cs)
  <1>1. /\ pc = "read" /\ in_audit /\ entry # NULL /\ at < Len(message) /\ at' = at + 1
        /\ pc' = "link" /\ loop' = table /\ prev' = NULL
        /\ UNCHANGED <<table, next, rec, used, entry, in_audit, leaked, message, status>>
    BY DEF LeaveAudit, More, StartLink, heapVars, callVars
  <1>2. Making' = Making
    BY <1>1 DEF Making, Unfinished
  <1>3. Heap(cs, next', table', used', Making', leaked')
    BY <1>1, <1>2 DEF TableIs
  <1>4. Place(cs, 1, table, NULL, rec, entry)
    BY WalkBegins DEF TableIs, Heap
  <1>5. TableIs(cs)'
    BY <1>1, <1>3, <1>4 DEF TableIs, Walking
  <1>6. ListTypeOK'
    BY <1>1 DEF ListTypeOK
  <1>7. CallInv'
    BY <1>1 DEF CallInv
  <1>. QED
    BY <1>1, <1>5, <1>6, <1>7 DEF Kept, LogStep

\* The walk goes on where the entry's key is not less.
LEMMA KeptByWalkOn ==
    ASSUME ListTypeOK, CallInv, NEW cs, TableIs(cs), WalkOn
    PROVE  Kept(cs)
  <1>1. /\ pc = "link" /\ Walk /\ loop # NULL /\ prev' = loop /\ loop' = next[loop]
        /\ UNCHANGED <<pc, table, next, rec, used, entry, in_audit, at, leaked, message, status>>
    BY DEF WalkOn, Walk, heapVars, callVars
  <1>2. Making' = Making
    BY <1>1 DEF Making, Unfinished
  <1>3. Heap(cs, next', table', used', Making', leaked')
    BY <1>1, <1>2 DEF TableIs
  <1>4. PICK k : Place(cs, k, loop, prev, rec, entry)
    BY <1>1 DEF TableIs, Walking
  <1>5. entry \in Cells /\ IsList(cs, next, table)
    BY <1>1 DEF CallInv, ListTypeOK, TableIs, Heap
  <1>6. Place(cs, k + 1, loop', prev', rec, entry)
    BY <1>1, <1>4, <1>5, WalkStep
  <1>7. TableIs(cs)'
    BY <1>1, <1>3, <1>6 DEF TableIs, Walking
  <1>8. ListTypeOK'
    <2>1. next[loop] \in Cells \cup {NULL}
      BY <1>1 DEF ListTypeOK
    <2>. QED
      BY <1>1, <2>1 DEF ListTypeOK
  <1>9. CallInv'
    BY <1>1 DEF CallInv
  <1>. QED
    BY <1>1, <1>7, <1>8, <1>9 DEF Kept, LogStep

\* Linking the entry in is an insertion of the log.
LEMMA KeptByLinkEntry ==
    ASSUME ListTypeOK, CallInv, NEW cs, TableIs(cs), LinkEntry
    PROVE  Kept(cs)
  <1>1. /\ pc = "link" /\ pc' = "read" /\ Link /\ in_audit' = FALSE
        /\ UNCHANGED <<at, leaked, message, status>>
    BY DEF LinkEntry, Link, LinkFirst, LinkBefore, LinkLast, callVars
  <1>2. in_audit /\ entry # NULL /\ entry \in Cells
    BY <1>1 DEF CallInv, ListTypeOK
  <1>3. Making = {entry} /\ Making' = {}
    BY <1>1, <1>2 DEF Making, Unfinished
  <1>4. Heap(cs, next, table, used, {entry}, leaked)
    BY <1>3 DEF TableIs
  <1>5. PICK k : Place(cs, k, loop, prev, rec, entry)
    BY <1>1 DEF TableIs, Walking
  <1>6. /\ ListTypeOK'
        /\ k - 1 \in 0..Len(cs)
        /\ Heap(Inserted(cs, k - 1, entry), next', table', used', {}, leaked)
        /\ \A m \in 1..(k - 1) : Key(rec[cs[m]]) <= Key(rec[entry])
        /\ k - 1 < Len(cs) => Key(rec[cs[(k - 1) + 1]]) > Key(rec[entry])
        /\ rec' = rec
    BY <1>1, <1>2, <1>4, <1>5, LinkHeapStep
  <1>. PICK ds : ds = Inserted(cs, k - 1, entry)
    OBVIOUS
  <1>7. TableIs(ds)'
    BY <1>1, <1>3, <1>6 DEF TableIs
  <1>8. cs \in Seq(Cells) /\ rec \in [Cells -> Entries]
    BY <1>4 DEF Heap, IsList, ListTypeOK
  <1>9. LogStep(Entries, RecordsOf(cs, rec), RecordsOf(ds, rec))
    BY <1>2, <1>6, <1>8, LinkLogStep
  <1>10. CallInv'
    BY <1>1 DEF CallInv
  <1>. QED
    BY <1>6, <1>7, <1>9, <1>10 DEF Kept

\* The address of a text is in an entry's range.
LEMMA HostIn == \A text \in 1..MaxValue : Host(text) \in 1..MaxValue
  BY RecordAssumption DEF Host, Localhost, NoAddress, LoginRequired

\* A field is written to the entry in the making, which the list does not have.
LEMMA WritesEntry ==
    ASSUME ListTypeOK, CallInv, NEW cs, TableIs(cs), pc = "read", in_audit, entry # NULL,
           NEW tag \in Tags, NEW value \in 0..MaxValue,
           rec' = [rec EXCEPT ![entry][tag] = value],
           UNCHANGED <<pc, table, next, used, entry, loop, prev, in_audit, leaked>>, CallInv'
    PROVE  Kept(cs)
  <1>1. entry \in Cells
    BY DEF ListTypeOK
  <1>2. rec' \in [Cells -> Entries]
    BY <1>1 DEF ListTypeOK, Entries
  <1>3. ListTypeOK'
    BY <1>2 DEF ListTypeOK
  <1>4. Making = {entry} /\ Making' = Making
    BY DEF Making, Unfinished
  <1>5. CellsOf(cs) \subseteq Cells /\ entry \notin CellsOf(cs)
    <2>1. Heap(cs, next, table, used, {entry}, leaked)
      BY <1>4 DEF TableIs
    <2>. QED
      BY <2>1, ListIsShort DEF Heap
  <1>6. \A c \in CellsOf(cs) : rec'[c] = rec[c]
    BY <1>5 DEF ListTypeOK
  <1>. QED
    BY <1>3, <1>4, <1>6, Aside

LEMMA KeptByFields ==
    ASSUME ListTypeOK, CallInv, NEW cs, TableIs(cs), ReadField \/ ReadFieldOfNone
    PROVE  Kept(cs)
  <1>1. /\ pc = "read" /\ at < Len(message) /\ in_audit /\ at' = FieldValue.at
        /\ node.tag \in AuditTags
        /\ UNCHANGED <<pc, table, next, used, entry, loop, prev, in_audit, leaked, message,
                       status>>
    BY DEF ReadField, ReadFieldOfNone, More, Plain, FieldTag, listVars, heapVars, linkVars,
           callVars
  <1>2. message \in Seq(AuditNodes) /\ at + 1 \in 1..Len(message) /\ 0 \in 0..MaxValue
    BY <1>1, CellAssumption DEF CallInv
  <1>3. /\ FieldValue.at \in (at + 1)..Len(message)
        /\ FieldValue.value \in (0..MaxValue)
             \cup {IF entry = NULL THEN 0 ELSE rec[entry][node.tag]}
    BY <1>2, GetTagValueIn DEF FieldValue, AuditNodes
  <1>4. CallInv'
    BY <1>1, <1>2, <1>3 DEF CallInv
  <1>5. Making' = Making
    BY <1>1 DEF Making, Unfinished
  <1>6. CASE ReadField
    <2>1. entry # NULL /\ rec' = [rec EXCEPT ![entry][node.tag] = FieldValue.value]
      BY <1>6 DEF ReadField
    <2>2. entry \in Cells /\ node.tag \in Tags
      BY <1>1, <2>1, TagAssumption DEF ListTypeOK
    <2>3. FieldValue.value \in 0..MaxValue
      <3>1. rec[entry][node.tag] \in 0..MaxValue
        BY <2>2 DEF ListTypeOK, Entries
      <3>. QED
        BY <1>3, <2>1, <3>1
    <2>. QED
      BY <1>1, <1>4, <2>1, <2>2, <2>3, WritesEntry
  <1>7. CASE ReadFieldOfNone
    <2>1. UNCHANGED rec
      BY <1>7 DEF ReadFieldOfNone, listVars, heapVars
    <2>2. ListTypeOK'
      BY <1>1, <2>1 DEF ListTypeOK
    <2>. QED
      BY <1>1, <1>4, <1>5, <2>1, <2>2, Aside
  <1>. QED
    BY <1>6, <1>7

LEMMA KeptByHost ==
    ASSUME ListTypeOK, CallInv, NEW cs, TableIs(cs), ReadHost
    PROVE  Kept(cs)
  <1>1. /\ pc = "read" /\ at < Len(message) /\ in_audit /\ at' = HostText.at
        /\ HasText => entry # NULL
        /\ UNCHANGED <<pc, table, next, used, entry, loop, prev, in_audit, leaked, message,
                       status>>
    BY DEF ReadHost, More, OpensHost, FieldTag, linkVars
  <1>2. message \in Seq(AuditNodes) /\ at + 1 \in 1..Len(message) /\ 0 \in 0..MaxValue
    BY <1>1, CellAssumption DEF CallInv
  <1>3. /\ HostText.at \in (at + 1)..Len(message)
        /\ HostText.value \in (0..MaxValue) \cup {NULL}
    BY <1>2, GetTagValueIn DEF HostText, AuditNodes
  <1>4. CallInv'
    BY <1>1, <1>2, <1>3 DEF CallInv
  <1>5. CASE HasText
    <2>1. HostText.value \in 1..MaxValue
      BY <1>3, <1>5, CellAssumption DEF HasText, NULL
    <2>2. Host(HostText.value) \in 0..MaxValue
      BY <2>1, HostIn
    <2>3. rec' = [rec EXCEPT ![entry]["remotehost"] = Host(HostText.value)]
      BY <1>5 DEF ReadHost
    <2>4. "remotehost" \in Tags
      BY TagAssumption DEF AuditTags
    <2>. QED
      BY <1>1, <1>4, <1>5, <2>2, <2>3, <2>4, WritesEntry
  <1>6. CASE ~HasText
    <2>1. UNCHANGED rec
      BY <1>6 DEF ReadHost
    <2>2. ListTypeOK'
      BY <1>1, <2>1 DEF ListTypeOK
    <2>3. Making' = Making
      BY <1>1 DEF Making, Unfinished
    <2>. QED
      BY <1>1, <1>4, <2>1, <2>2, <2>3, Aside
  <1>. QED
    BY <1>5, <1>6

\* A parse that has come to grief, or passes a node over, changes nothing.
LEMMA KeptByOthers ==
    ASSUME ListTypeOK, CallInv, NEW cs, TableIs(cs), Crash \/ Skip
    PROVE  Kept(cs)
  <1>1. /\ pc = "read" /\ at < Len(message) /\ at' \in {at, at + 1} /\ pc' \in {"read", "crashed"}
        /\ UNCHANGED <<table, next, rec, used, entry, loop, prev, in_audit, leaked, message,
                       status>>
    BY DEF Crash, Skip, More, listVars, heapVars, linkVars, callVars
  <1>2. ListTypeOK'
    BY <1>1 DEF ListTypeOK
  <1>3. CallInv'
    BY <1>1 DEF CallInv
  <1>4. Making' = Making
    BY <1>1 DEF Making, Unfinished
  <1>. QED
    BY <1>1, <1>2, <1>3, <1>4, Aside

-----------------------------------------------------------------------------
(* The theorems.                                                           *)

\* The invariant holds to begin with.
LEMMA InitInv == Init => Inv
  <1>. SUFFICES ASSUME Init PROVE Inv
    OBVIOUS
  <1>1. /\ pc = "idle" /\ table = NULL /\ used = {} /\ entry = NULL /\ loop = NULL /\ prev = NULL
        /\ next = [c \in Cells |-> NULL] /\ rec = [c \in Cells |-> Zeroed]
        /\ in_audit = FALSE /\ message = <<>> /\ at = 0 /\ status = 0 /\ leaked = {}
    BY DEF Init, ListInit
  <1>2. ListTypeOK
    <2>1. Zeroed \in Entries
      BY CellAssumption DEF Zeroed, Entries, NULL
    <2>. QED
      BY <1>1, <2>1 DEF ListTypeOK
  <1>3. CallInv
    <2>1. message \in Seq(AuditNodes)
      BY <1>1
    <2>2. at \in 0..Len(message)
      <3>1. Len(message) = 0 /\ 0 \in 0..0
        BY <1>1
      <3>. QED
        BY <1>1, <3>1
    <2>3. status \in {-2, -1, 0, 1} /\ in_audit \in BOOLEAN /\ pc # "link"
      BY <1>1
    <2>. QED
      BY <2>1, <2>2, <2>3 DEF CallInv
  <1>4. Making = {}
    BY <1>1 DEF Making
  <1>5. IsList(<<>>, next, NULL) /\ CellsOf(<<>>) = {}
    BY EmptyList
  <1>6. Heap(<<>>, next, table, used, Making, leaked)
    BY <1>1, <1>4, <1>5 DEF Heap
  <1>7. TableIs(<<>>)
    BY <1>1, <1>6 DEF TableIs
  <1>. QED
    BY <1>2, <1>3, <1>7 DEF Inv

\* Every step keeps it, and is a step of the log or none.
LEMMA NextKeeps ==
    ASSUME ListTypeOK, CallInv, NEW cs, TableIs(cs), Next
    PROVE  Kept(cs)
  <1>1. CASE Populate
    BY <1>1, KeptByPopulate
  <1>2. CASE Free
    BY <1>2, KeptByFree
  <1>3. CASE StartReading
    BY <1>3, KeptByStartReading
  <1>4. CASE EndOfMessage \/ ReadError
    BY <1>4, KeptByReturns
  <1>5. CASE EnterAudit
    BY <1>5, KeptByEnterAudit
  <1>6. CASE LeaveUnusable
    BY <1>6, KeptByLeaveUnusable
  <1>7. CASE LeaveAudit
    BY <1>7, KeptByLeaveAudit
  <1>8. CASE WalkOn
    BY <1>8, KeptByWalkOn
  <1>9. CASE LinkEntry
    BY <1>9, KeptByLinkEntry
  <1>10. CASE ReadField \/ ReadFieldOfNone
    BY <1>10, KeptByFields
  <1>11. CASE ReadHost
    BY <1>11, KeptByHost
  <1>12. CASE Crash \/ Skip
    BY <1>12, KeptByOthers
  <1>. QED
    BY <1>1, <1>2, <1>3, <1>4, <1>5, <1>6, <1>7, <1>8, <1>9, <1>10, <1>11, <1>12
       DEF Next, Step

\* A step that changes nothing keeps it too.
LEMMA InvInductive == Inv /\ [Next]_vars => Inv'
  <1>. SUFFICES ASSUME Inv, [Next]_vars PROVE Inv'
    OBVIOUS
  <1>1. PICK cs : TableIs(cs)
    BY DEF Inv
  <1>2. ListTypeOK /\ CallInv
    BY DEF Inv
  <1>3. CASE Next
    <2>1. Kept(cs)
      BY <1>1, <1>2, <1>3, NextKeeps
    <2>. QED
      BY <2>1 DEF Kept, Inv
  <1>4. CASE UNCHANGED vars
    <2>1. /\ UNCHANGED <<pc, table, next, rec, used, entry, loop, prev>>
          /\ UNCHANGED <<in_audit, at, leaked, message, status>>
      BY <1>4 DEF vars, listVars, heapVars, linkVars, callVars
    <2>2. ListTypeOK'
      BY <1>2, <2>1 DEF ListTypeOK
    <2>3. CallInv'
      BY <1>2, <2>1 DEF CallInv
    <2>4. TableIs(cs)'
      BY <1>1, <2>1 DEF TableIs, Making, Unfinished, Walking
    <2>. QED
      BY <2>2, <2>3, <2>4 DEF Inv
  <1>. QED
    BY <1>3, <1>4

\* It is an invariant.
THEOREM TableIsAList == Spec => []Inv
  BY InitInv, InvInductive, PTL DEF Spec

\* The flag of temp_value is one.
UnsetIsFlag == unset \in BOOLEAN

LEMMA FlagStays == Spec => []UnsetIsFlag
  <1>1. Init => UnsetIsFlag
    BY DEF Init, UnsetIsFlag
  <1>2. UnsetIsFlag /\ [Next]_vars => UnsetIsFlag'
    BY DEF UnsetIsFlag, Next, Step, vars, callVars, Populate, Free, StartReading, EndOfMessage, ReadError,
           EnterAudit, LeaveUnusable, LeaveAudit, WalkOn, LinkEntry, ReadField,
           ReadFieldOfNone, ReadHost, Crash, Skip
  <1>. QED
    BY <1>1, <1>2, PTL DEF Spec

\* Populating the audit table neither links, loses nor reads a cell it should not,
\* whatever the messages are and wherever they break off.
THEOREM AuditMemory == Spec => []MemoryIsSound
  <1>1. Inv /\ UnsetIsFlag => MemoryIsSound
    <2>. SUFFICES ASSUME Inv, unset \in BOOLEAN PROVE MemoryIsSound
      BY DEF UnsetIsFlag
    <2>1. PICK cs : TableIs(cs)
      BY DEF Inv
    <2>2. ListTypeOK /\ CallInv
      BY DEF Inv
    <2>3. Heap(cs, next, table, used, Making, leaked)
      BY <2>1 DEF TableIs
    <2>4. /\ IsList(cs, next, table)
          /\ used = CellsOf(cs) \cup Making \cup leaked
          /\ leaked \subseteq Cells /\ Making \cap CellsOf(cs) = {}
      BY <2>3 DEF Heap
    <2>5. pc = "link" => entry \in Making
      BY <2>2 DEF CallInv, Making, Unfinished
    <2>6. TypeOK
      <3>1. ASSUME pc = "link"
            PROVE  /\ (prev = NULL) <=> (loop = table)
                   /\ prev # NULL => next[prev] = loop
        <4>1. PICK k : Place(cs, k, loop, prev, rec, entry)
          BY <2>1, <3>1 DEF TableIs, Walking
        <4>. QED
          BY <2>4, <4>1, PlaceIsLinked
      <3>. QED
        BY <2>2, <2>4, <3>1 DEF TypeOK, CallInv
    <2>7. ListIsSound
      BY <2>2, <2>4, <2>5, SoundList
    <2>8. NothingElseLeaks
      <3>1. ListedCells = CellsOf(cs)
        BY <2>2, <2>4, ListingIs
      <3>. QED
        BY <2>4, <3>1 DEF NothingElseLeaks, Making
    <2>. QED
      BY <2>6, <2>7, <2>8 DEF MemoryIsSound
  <1>. QED
    BY <1>1, TableIsAList, FlagStays, PTL

\* The audit table implements a sorted log: whatever the messages are, an entry goes
\* to its place, after its equals, and leaves it when the list is emptied from the
\* front.
THEOREM AuditLog == Spec => KeepsLog
  <1>1. Init => Log!Init
    <2>. SUFFICES ASSUME Init PROVE Log!Init
      OBVIOUS
    <2>1. Inv /\ table = NULL
      BY InitInv DEF Init, ListInit
    <2>2. PICK cs : TableIs(cs)
      BY <2>1 DEF Inv
    <2>3. IsList(cs, next, table) /\ ListTypeOK
      BY <2>1, <2>2 DEF TableIs, Heap, Inv
    <2>4. cs = <<>>
      BY <2>1, <2>3, EmptyIsNull
    <2>5. Listed = RecordsOf(<<>>, rec)
      BY <2>3, <2>4, ListingIs
    <2>6. RecordsOf(<<>>, rec) = <<>>
      BY DEF RecordsOf
    <2>. QED
      BY <2>5, <2>6 DEF Log!Init
  <1>2. Inv /\ [Next]_vars => [Log!Next]_Listed
    <2>. SUFFICES ASSUME Inv, [Next]_vars PROVE [Log!Next]_Listed
      OBVIOUS
    <2>1. PICK cs : TableIs(cs)
      BY DEF Inv
    <2>2. ListTypeOK /\ CallInv /\ IsList(cs, next, table)
      BY <2>1 DEF Inv, TableIs, Heap
    <2>3. Listed = RecordsOf(cs, rec)
      BY <2>2, ListingIs
    <2>4. CASE Next
      <3>1. Kept(cs)
        BY <2>1, <2>2, <2>4, NextKeeps
      <3>2. PICK ds : TableIs(ds)' /\ LogStep(Entries, RecordsOf(cs, rec), RecordsOf(ds, rec'))
        BY <3>1 DEF Kept
      <3>3. ListTypeOK' /\ IsList(ds, next', table')
        BY <3>1, <3>2 DEF Kept, TableIs, Heap
      <3>4. Listed' = RecordsOf(ds, rec')
        BY <3>3, ListingIsNext
      <3>5. LogStep(Entries, Listed, Listed')
        BY <2>3, <3>2, <3>4
      <3>. QED
        BY <3>5 DEF LogStep, Inserted, Log!Next, Log!Insert, Log!InsertAt, Log!Drop
    <2>5. CASE UNCHANGED vars
      <3>1. UNCHANGED <<table, next, rec>>
        BY <2>5 DEF vars, listVars, heapVars
      <3>2. UNCHANGED ListTypeOK
        BY <2>5 DEF vars, listVars, heapVars, linkVars, ListTypeOK
      <3>3. Listed' = RecordsOf(cs, rec')
        BY <2>2, <3>1, <3>2, ListingIsNext
      <3>. QED
        BY <2>3, <3>1, <3>3
    <2>. QED
      BY <2>4, <2>5
  <1>. QED
    BY <1>1, <1>2, TableIsAList, PTL DEF Spec, KeepsLog, Log!Spec

-----------------------------------------------------------------------------
(* Where the parse of an answer is.                                        *)

\* A field gives its tag a value.
Gives(field, g) == field.tag = g /\ field.value \in 1..MaxValue

\* The entry e holds what the first i fields of r give.
ReadSoFar(e, r, i) ==
    \A g \in Tags :
        \/ e[g] = NULL /\ \A n \in 1..i : ~Gives(r[n], g)
        \/ \E n \in 1..i : /\ Gives(r[n], g) /\ e[g] = Taken(g, r[n].value)
                           /\ \A m \in (n + 1)..i : ~Gives(r[m], g)

\* The table sorts the first n records.
SortsFirst(n) == Sorts(Listed, [m \in 1..n |-> EntryOf(records[m])])

Usable(r) == Indexed(r) /\ ~HollowDay(r)
Count == Len(records)
AllButLastUsable == \A n \in 1..(Count - 1) : Usable(records[n])
AllUsable == \A n \in 1..Count : Usable(records[n])

\* The message is as much as arrived of an answer, or is one without records.
NoAudits(m) == \A p \in 1..Len(m) : m[p].tag \in {"response", "error", "#text"}
MessageInv ==
    /\ records \in Seq(Records)
    /\ records = <<>> => NoAudits(message)
    /\ records # <<>> => message \in Prefixes(Answer(records))

\* As long as temp_value is not set, no field up to the i-th of the n-th record has
\* opened a remotehost.
NoHost(n, i) ==
    \A m \in DOMAIN records : \A j \in DOMAIN records[m] :
        m < n \/ (m = n /\ j <= i) => ~Opened(records[m][j])
HostInv(n, i) == unset => NoHost(n, i)

\* The parse has come to where the message breaks off; to before the answer; to before
\* the n-th audit; to the end of the i-th field of the n-th; past that audit; past the
\* answer; or somewhere in the last audit or beyond it, where that one is of no use.
BrokenOff == pc = "read" /\ at = Len(message) /\ Len(message) < Len(Answer(records))
BeforeAll == pc = "read" /\ ~in_audit /\ at = 0 /\ Listed = <<>>
Between(n) ==
    /\ pc = "read" /\ ~in_audit /\ at = Begin(records, n) - 1
    /\ SortsFirst(n - 1) /\ HostInv(n, 0)
Within(n, i) ==
    /\ pc = "read" /\ in_audit /\ entry # NULL /\ at = FieldAt(records, n, i)
    /\ ReadSoFar(rec[entry], records[n], i)
    /\ SortsFirst(n - 1) /\ HostInv(n, i)
Linking(n) ==
    /\ pc = "link" /\ at = Begin(records, n + 1) - 1
    /\ rec[entry] = EntryOf(records[n])
    /\ SortsFirst(n - 1) /\ HostInv(n, Len(records[n]))
PastAll == pc = "read" /\ ~in_audit /\ at = Len(Answer(records)) /\ SortsFirst(Count)
BeyondUse ==
    /\ pc \in {"read", "link"}
    /\ ~Usable(records[Count]) /\ at >= Begin(records, Count)
    /\ pc = "link" => at >= Begin(records, Count + 1) - 1
    /\ at < Begin(records, Count + 1) - 1 =>
          in_audit /\ entry # NULL /\ HollowDay(records[Count])

Where ==
    \/ BrokenOff
    \/ BeforeAll
    \/ \E n \in 1..(Count + 1) : Between(n)
    \/ \E n \in 1..Count : \E i \in 0..Len(records[n]) : Within(n, i)
    \/ \E n \in 1..Count : Linking(n)
    \/ PastAll
    \/ BeyondUse

\* What may befall temp_value.
Mishap ==
    \/ FirstHostIsHollow
    \/ \E n \in DOMAIN records : HollowDay(records[n]) /\ "remotehost" \in TagsOf(records[n])

\* Where the parse is, unless a record before the last is of no use.
ParseIs ==
    AllButLastUsable =>
        /\ pc = "crashed" => Mishap
        /\ pc \in {"read", "link"} =>
              /\ records = <<>> => pc = "read" /\ ~in_audit /\ Listed = <<>>
              /\ records # <<>> => Where

\* The inductive invariant: where the parse is, and what the table lists at its end.
ParseInv ==
    /\ MessageInv
    /\ stamped => pc = "idle"
    /\ pc = "free" => at = 0
    /\ ParseIs
    /\ Complete /\ AllUsable => ListsRecords

\* What the fields of a record amount to.
LEMMA NothingRead == \A r : ReadSoFar(Zeroed, r, 0)
  BY DEF ReadSoFar, Zeroed

LEMMA NothingGiven ==
    ASSUME NEW e, NEW r, NEW i \in Nat, ReadSoFar(e, r, i), r[i + 1].value \notin 1..MaxValue
    PROVE  ReadSoFar(e, r, i + 1)
  <1>1. \A n \in 1..(i + 1) : n \in 1..i \/ n = i + 1
    OBVIOUS
  <1>2. \A g \in Tags : ~Gives(r[i + 1], g)
    BY DEF Gives
  <1>3. ASSUME NEW g \in Tags
        PROVE  \/ e[g] = NULL /\ \A n \in 1..(i + 1) : ~Gives(r[n], g)
               \/ \E n \in 1..(i + 1) : /\ Gives(r[n], g) /\ e[g] = Taken(g, r[n].value)
                                        /\ \A m \in (n + 1)..(i + 1) : ~Gives(r[m], g)
    <2>1. CASE e[g] = NULL /\ \A n \in 1..i : ~Gives(r[n], g)
      BY <1>1, <1>2, <2>1
    <2>2. CASE \E n \in 1..i : /\ Gives(r[n], g) /\ e[g] = Taken(g, r[n].value)
                               /\ \A m \in (n + 1)..i : ~Gives(r[m], g)
      <3>1. PICK n \in 1..i : /\ Gives(r[n], g) /\ e[g] = Taken(g, r[n].value)
                              /\ \A m \in (n + 1)..i : ~Gives(r[m], g)
        BY <2>2
      <3>2. ASSUME NEW m \in (n + 1)..(i + 1) PROVE ~Gives(r[m], g)
        <4>1. m \in (n + 1)..i \/ m = i + 1
          OBVIOUS
        <4>. QED
          BY <1>2, <3>1, <4>1
      <3>3. n \in 1..(i + 1)
        OBVIOUS
      <3>. QED
        BY <3>1, <3>2, <3>3
    <2>. QED
      BY <2>1, <2>2 DEF ReadSoFar
  <1>. QED
    BY <1>3 DEF ReadSoFar

LEMMA ValueGiven ==
    ASSUME NEW e \in Entries, NEW r, NEW i \in Nat, ReadSoFar(e, r, i),
           r[i + 1].value \in 1..MaxValue, r[i + 1].tag \in Tags
    PROVE  ReadSoFar([e EXCEPT ![r[i + 1].tag] = Taken(r[i + 1].tag, r[i + 1].value)], r, i + 1)
  <1>. DEFINE d == [e EXCEPT ![r[i + 1].tag] = Taken(r[i + 1].tag, r[i + 1].value)]
  <1>1. /\ d[r[i + 1].tag] = Taken(r[i + 1].tag, r[i + 1].value)
        /\ \A g \in Tags : g # r[i + 1].tag => d[g] = e[g]
    BY DEF Entries
  <1>. HIDE DEF d
  <1>2. ASSUME NEW g \in Tags
        PROVE  \/ d[g] = NULL /\ \A n \in 1..(i + 1) : ~Gives(r[n], g)
               \/ \E n \in 1..(i + 1) : /\ Gives(r[n], g) /\ d[g] = Taken(g, r[n].value)
                                        /\ \A m \in (n + 1)..(i + 1) : ~Gives(r[m], g)
    <2>1. CASE g = r[i + 1].tag
      <3>1. Gives(r[i + 1], g) /\ d[g] = Taken(g, r[i + 1].value)
        BY <1>1, <2>1 DEF Gives
      <3>2. i + 1 \in 1..(i + 1) /\ ((i + 1) + 1)..(i + 1) = {}
        OBVIOUS
      <3>. QED
        BY <3>1, <3>2
    <2>2. CASE g # r[i + 1].tag
      <3>1. d[g] = e[g] /\ ~Gives(r[i + 1], g)
        BY <1>1, <2>2 DEF Gives
      <3>2. CASE e[g] = NULL /\ \A n \in 1..i : ~Gives(r[n], g)
        <4>1. \A n \in 1..(i + 1) : n \in 1..i \/ n = i + 1
          OBVIOUS
        <4>. QED
          BY <3>1, <3>2, <4>1
      <3>3. CASE \E n \in 1..i : /\ Gives(r[n], g) /\ e[g] = Taken(g, r[n].value)
                                 /\ \A m \in (n + 1)..i : ~Gives(r[m], g)
        <4>1. PICK n \in 1..i : /\ Gives(r[n], g) /\ e[g] = Taken(g, r[n].value)
                                /\ \A m \in (n + 1)..i : ~Gives(r[m], g)
          BY <3>3
        <4>2. ASSUME NEW m \in (n + 1)..(i + 1) PROVE ~Gives(r[m], g)
          <5>1. m \in (n + 1)..i \/ m = i + 1
            OBVIOUS
          <5>. QED
            BY <3>1, <4>1, <5>1
        <4>3. n \in 1..(i + 1)
          OBVIOUS
        <4>. QED
          BY <3>1, <4>1, <4>2, <4>3
      <3>. QED
        BY <3>2, <3>3 DEF ReadSoFar
    <2>. QED
      BY <2>1, <2>2
  <1>. QED
    BY <1>2 DEF ReadSoFar, d

LEMMA AllGiven ==
    ASSUME NEW r \in Records, NEW e \in Entries, ReadSoFar(e, r, Len(r))
    PROVE  e = EntryOf(r)
  <1>1. PICK N \in Nat : N = Len(r) /\ DOMAIN r = 1..N
    BY FieldsIn
  <1>2. ASSUME NEW g \in Tags PROVE ValueOf(r, g) = e[g]
    <2>. DEFINE given == {n \in DOMAIN r : r[n].tag = g /\ r[n].value \in 1..MaxValue}
    <2>1. given = {n \in 1..N : Gives(r[n], g)}
      BY <1>1 DEF Gives
    <2>2. ValueOf(r, g) = IF given = {} THEN NULL ELSE Taken(g, r[Max(given)].value)
      BY DEF ValueOf
    <2>. HIDE DEF given
    <2>3. CASE e[g] = NULL /\ \A n \in 1..N : ~Gives(r[n], g)
      <3>1. given = {}
        BY <2>1, <2>3
      <3>. QED
        BY <2>2, <2>3, <3>1
    <2>4. CASE \E n \in 1..N : /\ Gives(r[n], g) /\ e[g] = Taken(g, r[n].value)
                               /\ \A m \in (n + 1)..N : ~Gives(r[m], g)
      <3>1. PICK n \in 1..N : /\ Gives(r[n], g) /\ e[g] = Taken(g, r[n].value)
                              /\ \A m \in (n + 1)..N : ~Gives(r[m], g)
        BY <2>4
      <3>2. n \in given /\ \A m \in given : m \in Int /\ n >= m
        <4>1. n \in given
          BY <2>1, <3>1
        <4>2. ASSUME NEW m \in given PROVE m \in Int /\ n >= m
          <5>1. m \in 1..N /\ Gives(r[m], g)
            BY <2>1
          <5>. QED
            BY <3>1, <5>1
        <4>. QED
          BY <4>1, <4>2
      <3>3. Max(given) = n
        <4>1. PICK M : M = Max(given)
          OBVIOUS
        <4>2. M \in given /\ \A m \in given : M >= m
          BY <3>2, <4>1 DEF Max
        <4>3. M \in Int /\ n >= M /\ M >= n /\ n \in Int
          BY <3>2, <4>2
        <4>4. M = n
          BY <4>3
        <4>. QED
          BY <4>1, <4>4
      <3>. QED
        BY <2>2, <3>1, <3>2, <3>3
    <2>. QED
      BY <1>1, <2>3, <2>4 DEF ReadSoFar
  <1>3. EntryOf(r) = [g \in Tags |-> e[g]]
    BY <1>2 DEF EntryOf
  <1>. QED
    BY <1>3 DEF Entries

-----------------------------------------------------------------------------
(* How the table and the parse go on.                                      *)

\* The steps that read a node.
Reading == \/ ReadError \/ EnterAudit \/ LeaveUnusable \/ LeaveAudit
           \/ ReadField \/ ReadFieldOfNone \/ ReadHost \/ Crash \/ Skip

LEMMA ReadingIs ==
    ASSUME Reading
    PROVE  pc = "read" /\ at < Len(message) /\ UNCHANGED <<records, message, table>>
  <1>1. CASE ReadError
    BY <1>1 DEF ReadError, More, Return
  <1>2. CASE EnterAudit
    BY <1>2 DEF EnterAudit, More, callVars
  <1>3. CASE LeaveUnusable
    BY <1>3 DEF LeaveUnusable, More, callVars
  <1>4. CASE LeaveAudit
    BY <1>4 DEF LeaveAudit, More, heapVars, callVars
  <1>5. CASE ReadField
    BY <1>5 DEF ReadField, More, callVars
  <1>6. CASE ReadFieldOfNone \/ Skip
    BY <1>6 DEF ReadFieldOfNone, Skip, More, listVars, callVars
  <1>7. CASE Crash
    BY <1>7 DEF Crash, More, callVars
  <1>8. CASE ReadHost
    BY <1>8 DEF ReadHost, More
  <1>. QED
    BY <1>1, <1>2, <1>3, <1>4, <1>5, <1>6, <1>7, <1>8 DEF Reading

\* A tag that means nothing to the parse is skipped.
LEMMA AtOther ==
    ASSUME Reading, node.tag \notin {"audit", "error"} \cup AuditTags
    PROVE  Skip
  BY DEF Reading, ReadError, EnterAudit, LeaveUnusable, LeaveAudit, ReadField,
         ReadFieldOfNone, ReadHost, Crash, AuditTag, Plain, OpensHost, FieldTag, Is, AuditTags

\* An audit is entered or left.
LEMMA AtAudit ==
    ASSUME Reading, node.tag = "audit", node.part # "empty"
    PROVE  /\ ~in_audit => EnterAudit
           /\ in_audit /\ entry # NULL => LeaveUnusable \/ LeaveAudit
  <1>1. Is("audit") /\ ~Is("error") /\ AuditTag /\ ~FieldTag /\ ~Plain /\ ~OpensHost
    BY DEF Is, AuditTag, Plain, OpensHost, FieldTag, AuditTags
  <1>. QED
    BY <1>1 DEF Reading, ReadError, EnterAudit, LeaveUnusable, LeaveAudit, ReadField,
                ReadFieldOfNone, ReadHost, Crash, Skip

\* A field is skipped or read, or is a hollow remotehost that finds temp_value not set.
LEMMA AtField ==
    ASSUME Reading, node.tag \in AuditTags, in_audit, entry # NULL
    PROVE  /\ node.part = "empty" => Skip
           /\ node.part # "empty" /\ node.tag # "remotehost" => ReadField
           /\ node.part # "empty" /\ node.tag = "remotehost" =>
                 \/ ReadHost
                 \/ Crash /\ pc' = "crashed" /\ unset /\ HostText.ok /\ ~Writes
  <1>1. ~Is("audit") /\ ~Is("error") /\ ~AuditTag /\ FieldTag
    BY DEF Is, AuditTag, FieldTag, AuditTags
  <1>2. CASE Skip
    BY <1>1, <1>2 DEF Skip
  <1>3. CASE ReadField
    BY <1>3 DEF ReadField, Plain, Is
  <1>4. CASE ReadHost
    BY <1>4 DEF ReadHost, OpensHost, Is
  <1>5. CASE Crash
    BY <1>1, <1>5 DEF Crash, OpensHost, Is
  <1>6. ~(ReadError \/ EnterAudit \/ LeaveUnusable \/ LeaveAudit \/ ReadFieldOfNone)
    BY <1>1 DEF ReadError, EnterAudit, LeaveUnusable, LeaveAudit, ReadFieldOfNone
  <1>. QED
    BY <1>2, <1>3, <1>4, <1>5, <1>6 DEF Reading

\* What the table lists.
LEMMA ListedIs ==
    ASSUME Inv
    PROVE  Listed \in Seq(Entries) /\ (table = NULL => Listed = <<>>)
  <1>1. PICK cs : TableIs(cs)
    BY DEF Inv
  <1>2. IsList(cs, next, table) /\ ListTypeOK
    BY <1>1 DEF Inv, TableIs, Heap
  <1>3. Listed = RecordsOf(cs, rec)
    BY <1>2, ListingIs
  <1>4. cs \in Seq(Cells) /\ rec \in [Cells -> Entries]
    BY <1>2 DEF IsList, ListTypeOK
  <1>5. RecordsOf(cs, rec) \in Seq(Entries)
    <2>1. PICK N \in Nat : N = Len(cs)
      BY <1>4
    <2>2. DOMAIN cs = 1..N /\ \A k \in 1..N : rec[cs[k]] \in Entries
      BY <1>4, <2>1
    <2>3. RecordsOf(cs, rec) = [k \in 1..N |-> rec[cs[k]]]
      BY <2>2 DEF RecordsOf
    <2>. HIDE DEF Entries
    <2>. QED
      BY <2>2, <2>3
  <1>6. table = NULL => Listed = <<>>
    <2>1. RecordsOf(<<>>, rec) = <<>>
      BY DEF RecordsOf
    <2>. QED
      BY <1>2, <1>3, <2>1, EmptyIsNull
  <1>. QED
    BY <1>3, <1>5, <1>6

\* Only the cells of the list matter to it.
LEMMA ListedSame ==
    ASSUME Inv, ListTypeOK', table' = table,
           \A c \in used \ Making : rec'[c] = rec[c] /\ next'[c] = next[c]
    PROVE  Listed' = Listed
  <1>1. PICK cs : TableIs(cs)
    BY DEF Inv
  <1>2. Heap(cs, next, table, used, Making, leaked) /\ ListTypeOK
    BY <1>1 DEF Inv, TableIs
  <1>3. IsList(cs, next, table) /\ CellsOf(cs) \subseteq used \ Making
    BY <1>2 DEF Heap
  <1>4. IsList(cs, next', table')
    BY <1>3, OtherCells
  <1>5. RecordsOf(cs, rec') = RecordsOf(cs, rec)
    BY <1>3, SameRecords
  <1>. QED
    BY <1>2, <1>3, <1>4, <1>5, ListingIs, ListingIsNext

\* The entry is put to its place.
LEMMA ListedLinked ==
    ASSUME Inv, LinkEntry
    PROVE  /\ rec[entry] \in Entries
           /\ \E p \in 0..Len(Listed) :
                 /\ Listed' = Inserted(Listed, p, rec[entry])
                 /\ \A m \in 1..p : Key(Listed[m]) <= Key(rec[entry])
                 /\ p < Len(Listed) => Key(Listed[p + 1]) > Key(rec[entry])
  <1>1. PICK cs : TableIs(cs)
    BY DEF Inv
  <1>2. ListTypeOK /\ CallInv /\ pc = "link" /\ Link
    BY DEF Inv, LinkEntry, Link, LinkFirst, LinkBefore, LinkLast
  <1>3. in_audit /\ entry # NULL /\ entry \in Cells /\ rec \in [Cells -> Entries]
    BY <1>2 DEF CallInv, ListTypeOK
  <1>4. Making = {entry}
    BY <1>2, <1>3 DEF Making, Unfinished
  <1>5. Heap(cs, next, table, used, {entry}, leaked)
    BY <1>1, <1>4 DEF TableIs
  <1>6. PICK k : Place(cs, k, loop, prev, rec, entry)
    BY <1>1, <1>2 DEF TableIs, Walking
  <1>7. /\ ListTypeOK'
        /\ k - 1 \in 0..Len(cs)
        /\ Heap(Inserted(cs, k - 1, entry), next', table', used', {}, leaked)
        /\ \A m \in 1..(k - 1) : Key(rec[cs[m]]) <= Key(rec[entry])
        /\ k - 1 < Len(cs) => Key(rec[cs[(k - 1) + 1]]) > Key(rec[entry])
        /\ rec' = rec
    BY <1>2, <1>3, <1>5, <1>6, LinkHeapStep
  <1>8. cs \in Seq(Cells) /\ IsList(cs, next, table)
    BY <1>5 DEF Heap, IsList
  <1>9. Listed = RecordsOf(cs, rec)
    BY <1>2, <1>8, ListingIs
  <1>10. Listed' = RecordsOf(Inserted(cs, k - 1, entry), rec)
    <2>1. IsList(Inserted(cs, k - 1, entry), next', table')
      BY <1>7 DEF Heap
    <2>. QED
      BY <1>7, <2>1, ListingIsNext
  <1>11. Listed' = Inserted(Listed, k - 1, rec[entry])
    BY <1>3, <1>7, <1>8, <1>9, <1>10, InsertedRecords
  <1>12. PICK N \in Nat : N = Len(cs)
    BY <1>8
  <1>13. Len(Listed) = N /\ \A m \in 1..N : Listed[m] = rec[cs[m]]
    BY <1>8, <1>9, <1>12 DEF RecordsOf
  <1>14. \A m \in 1..(k - 1) : Key(Listed[m]) <= Key(rec[entry])
    BY <1>7, <1>12, <1>13
  <1>15. k - 1 < Len(Listed) => Key(Listed[(k - 1) + 1]) > Key(rec[entry])
    BY <1>7, <1>12, <1>13
  <1>. QED
    BY <1>3, <1>7, <1>11, <1>12, <1>13, <1>14, <1>15

\* A table that is left alone sorts what it did.
LEMMA SortsKept ==
    ASSUME NEW n, SortsFirst(n), Listed' = Listed, records' = records
    PROVE  SortsFirst(n)'
  BY DEF SortsFirst

LEMMA SortsNone ==
    ASSUME Listed' = <<>>
    PROVE  SortsFirst(0)'
  <1>1. DOMAIN [m \in 1..0 |-> EntryOf(records'[m])] = {}
    OBVIOUS
  <1>. QED
    BY <1>1, SortsNothing DEF SortsFirst

\* Linking the entry of the n-th record sorts it in.
LEMMA SortsLinked ==
    ASSUME Inv, MessageInv, LinkEntry, NEW n \in 1..Count, SortsFirst(n - 1),
           rec[entry] = EntryOf(records[n])
    PROVE  SortsFirst(n)'
  <1>1. records' = records
    BY DEF LinkEntry, callVars
  <1>2. PICK p \in 0..Len(Listed) :
           /\ Listed' = Inserted(Listed, p, rec[entry])
           /\ \A m \in 1..p : Key(Listed[m]) <= Key(rec[entry])
           /\ p < Len(Listed) => Key(Listed[p + 1]) > Key(rec[entry])
    BY ListedLinked
  <1>3. rec[entry] \in Entries /\ Listed \in Seq(Entries)
    BY ListedLinked, ListedIs
  <1>4. \A m \in 1..Count : EntryOf(records[m]) \in Entries
    <2>1. ASSUME NEW m \in 1..Count PROVE EntryOf(records[m]) \in Entries
      <3>1. PICK r \in Records : r = records[m]
        BY DEF MessageInv, Count
      <3>2. ASSUME NEW g \in Tags PROVE ValueOf(r, g) \in 0..MaxValue
        <4>. DEFINE given == {k \in DOMAIN r : r[k].tag = g /\ r[k].value \in 1..MaxValue}
        <4>1. PICK N \in Nat : DOMAIN r = 1..N
          BY FieldsIn
        <4>2. CASE given = {}
          BY <4>2, CellAssumption DEF ValueOf, NULL
        <4>3. CASE given # {}
          <5>1. Max(given) \in given
            <6>1. given \in SUBSET Int /\ IsFiniteSet(given)
              <7>1. IsFiniteSet(1..N) /\ given \subseteq 1..N
                BY <4>1, FS_Interval
              <7>. QED
                BY <7>1, FS_Subset
            <6>2. \E x \in given : \A y \in given : x >= y
              <7>. DEFINE T == {N - y : y \in given}
              <7>1. T \in SUBSET Nat /\ T # {}
                BY <4>1, <4>3
              <7>2. PICK z \in T : \A y \in T : z <= y
                BY <7>1, LeastNatural
              <7>3. PICK x \in given : z = N - x
                BY <7>2
              <7>4. ASSUME NEW y \in given PROVE x >= y
                <8>1. N - y \in T
                  OBVIOUS
                <8>2. N - x <= N - y /\ x \in Int /\ y \in Int
                  BY <6>1, <7>2, <7>3, <8>1
                <8>. QED
                  BY <8>2
              <7>. QED
                BY <7>4
            <6>. QED
              BY <6>2 DEF Max
          <5>2. r[Max(given)].value \in 1..MaxValue
            BY <5>1
          <5>3. Taken(g, r[Max(given)].value) \in 0..MaxValue
            <6>1. Host(r[Max(given)].value) \in 1..MaxValue
              BY <5>2, HostIn
            <6>. QED
              BY <5>2, <6>1, CellAssumption DEF Taken
          <5>. QED
            BY <4>3, <5>3 DEF ValueOf
        <4>. QED
          BY <4>2, <4>3
      <3>. QED
        BY <3>1, <3>2 DEF EntryOf, Entries
    <2>. QED
      BY <2>1
  <1>5. PICK t : t = [m \in 1..(n - 1) |-> EntryOf(records[m])]
    OBVIOUS
  <1>6. PICK u : u = [m \in 1..n |-> EntryOf(records[m])]
    OBVIOUS
  <1>7. /\ n - 1 \in Nat /\ DOMAIN t = 1..(n - 1) /\ DOMAIN u = 1..((n - 1) + 1)
        /\ \A m \in 1..(n - 1) : t[m] \in Entries /\ u[m] = t[m]
        /\ u[(n - 1) + 1] = rec[entry]
    <2>1. (n - 1) + 1 = n /\ n - 1 \in Nat /\ \A m \in 1..(n - 1) : m \in 1..n /\ m \in 1..Count
      BY DEF Count, MessageInv
    <2>. QED
      BY <1>4, <1>5, <1>6, <2>1
  <1>8. Sorts(Listed, t)
    BY <1>5 DEF SortsFirst
  <1>9. Sorts(Inserted(Listed, p, rec[entry]), u)
    <2>. HIDE DEF Entries
    <2>. QED
      BY <1>2, <1>3, <1>7, <1>8, SortsInserted
  <1>. QED
    BY <1>1, <1>2, <1>6, <1>9 DEF SortsFirst

-----------------------------------------------------------------------------
(* From each place to the next.                                            *)

\* What arrived is the beginning of the answer.
LEMMA MessageIs ==
    ASSUME MessageInv, records # <<>>
    PROVE  /\ Count \in Nat \ {0}
           /\ \A n \in 1..Count : records[n] \in Records
           /\ Len(Answer(records)) \in Nat
           /\ Len(message) \in 0..Len(Answer(records))
           /\ \A p \in 1..Len(message) : message[p] = Answer(records)[p]
  <1>1. records \in Seq(Records) /\ message \in Prefixes(Answer(records))
    BY DEF MessageInv
  <1>2. Count \in Nat \ {0} /\ \A n \in 1..Count : records[n] \in Records
    BY <1>1 DEF Count
  <1>3. Answer(records) \in Seq(AuditNodes)
    BY <1>1, AnswerIs
  <1>. QED
    BY <1>1, <1>2, <1>3, PrefixOf

\* The node that is read is the answer's next.
LEMMA NodeIs ==
    ASSUME Inv, MessageInv, records # <<>>, Reading
    PROVE  /\ node = Answer(records)[at + 1]
           /\ at \in Nat
           /\ at < Len(message)
           /\ at + 1 <= Len(Answer(records))
  <1>1. at < Len(message) /\ at \in Nat
    BY ReadingIs DEF Inv, CallInv
  <1>2. PICK L \in Nat : L = Len(message) /\ L <= Len(Answer(records))
    BY MessageIs
  <1>3. at + 1 \in 1..L
    BY <1>1, <1>2
  <1>4. Len(Answer(records)) \in Nat
    BY MessageIs
  <1>. QED
    BY <1>1, <1>2, <1>3, <1>4, MessageIs DEF node

\* Reading a node leaves the table as it is.
LEMMA ReadingLists ==
    ASSUME Inv, Inv', Reading
    PROVE  Listed' = Listed
  <1>1. ListTypeOK /\ ListTypeOK' /\ table' = table /\ pc = "read"
    BY ReadingIs DEF Inv
  <1>2. /\ next \in [Cells -> Cells \cup {NULL}] /\ rec \in [Cells -> Entries] /\ used \subseteq Cells
    BY <1>1 DEF ListTypeOK
  <1>3. CASE UNCHANGED <<next, rec>>
    BY <1>1, <1>3, ListedSame
  <1>4. CASE EnterAudit
    <2>1. PICK c \in Cells \ used : /\ next' = [next EXCEPT ![c] = NULL]
                                    /\ rec' = [rec EXCEPT ![c] = Zeroed]
      BY <1>4 DEF EnterAudit, NewEntry
    <2>2. \A d \in used \ Making : rec'[d] = rec[d] /\ next'[d] = next[d]
      BY <1>2, <2>1
    <2>. QED
      BY <1>1, <2>2, ListedSame
  <1>5. CASE ReadField
    <2>1. /\ in_audit /\ entry # NULL /\ next' = next
          /\ rec' = [rec EXCEPT ![entry][node.tag] = FieldValue.value]
      BY <1>5 DEF ReadField, Plain, FieldTag
    <2>2. Making = {entry}
      BY <1>1, <2>1 DEF Making, Unfinished
    <2>3. \A d \in used \ Making : rec'[d] = rec[d]
      BY <1>2, <2>1, <2>2
    <2>. QED
      BY <1>1, <2>1, <2>3, ListedSame
  <1>6. CASE ReadError \/ LeaveAudit \/ ReadFieldOfNone \/ Skip \/ Crash \/ LeaveUnusable
    <2>1. UNCHANGED <<next, rec>>
      BY <1>6 DEF ReadError, LeaveAudit, ReadFieldOfNone, Skip, Crash, LeaveUnusable, heapVars, listVars
    <2>. QED
      BY <1>3, <2>1
  <1>7. CASE ReadHost
    <2>1. CASE HasText
      <3>1. /\ in_audit /\ entry # NULL /\ next' = next
            /\ rec' = [rec EXCEPT ![entry]["remotehost"] = Host(HostText.value)]
        BY <1>7, <2>1 DEF ReadHost, OpensHost, FieldTag
      <3>2. Making = {entry}
        BY <1>1, <3>1 DEF Making, Unfinished
      <3>3. \A d \in used \ Making : rec'[d] = rec[d]
        BY <1>2, <3>1, <3>2
      <3>. QED
        BY <1>1, <3>1, <3>3, ListedSame
    <2>2. CASE ~HasText
      BY <1>3, <1>7, <2>2 DEF ReadHost
    <2>. QED
      BY <2>1, <2>2
  <1>. QED
    BY <1>4, <1>5, <1>6, <1>7 DEF Reading

LEMMA ReadingSorts ==
    ASSUME Inv, Inv', Reading, NEW n, SortsFirst(n)
    PROVE  SortsFirst(n)'
  BY ReadingLists, ReadingIs, SortsKept

LEMMA SkipIs ==
    ASSUME Skip
    PROVE  at' = at + 1 /\ UNCHANGED <<pc, in_audit, entry, rec, next, table, unset, records>>
  BY DEF Skip, listVars, heapVars, callVars

\* The answer begins.
LEMMA FromBefore ==
    ASSUME Inv, Inv', MessageInv, records # <<>>, Reading, BeforeAll
    PROVE  Between(1)'
  <1>1. /\ Answer(records)[1] = Node("response", "start", 0) /\ records \in Seq(Records)
        /\ Begin(records, 1) = 2
    BY AnswerIs, AnswerPlaces DEF MessageInv
  <1>2. pc = "read" /\ at = 0 /\ ~in_audit /\ Listed = <<>>
    BY DEF BeforeAll
  <1>3. node.tag = "response"
    BY <1>1, <1>2, NodeIs DEF Node
  <1>4. Skip
    BY <1>3, AtOther DEF AuditTags
  <1>5. pc' = "read" /\ at' = 1 /\ ~in_audit' /\ records' = records
    BY <1>2, <1>4, SkipIs
  <1>6. SortsFirst(0)'
    BY <1>2, ReadingLists, SortsNone
  <1>7. NoHost(1, 0)'
    <2>1. NoHost(1, 0)
      BY <1>1 DEF NoHost
    <2>. QED
      BY <1>5, <2>1 DEF NoHost
  <1>. QED
    BY <1>1, <1>5, <1>6, <1>7 DEF Between, HostInv

\* An audit begins.
LEMMA FromBetween ==
    ASSUME Inv, Inv', MessageInv, records # <<>>, Reading, NEW n \in 1..Count, Between(n)
    PROVE  Within(n, 0)'
  <1>1. /\ pc = "read" /\ ~in_audit /\ at = Begin(records, n) - 1 /\ SortsFirst(n - 1)
        /\ HostInv(n, 0)
    BY DEF Between
  <1>2. /\ records \in Seq(Records) /\ n \in 1..Len(records)
    BY DEF MessageInv, Count
  <1>3. /\ Answer(records)[Begin(records, n)] = Node("audit", "start", 0)
        /\ FieldAt(records, n, 0) = Begin(records, n)
    BY <1>2, FieldPlaces
  <1>4. PICK b \in Nat : b = Begin(records, n)
    <2>1. n \in 1..(Len(records) + 1) /\ Len(Answer(records)) \in Nat
      BY <1>2, MessageIs
    <2>2. Begin(records, n) \in 2..Len(Answer(records))
      BY <1>2, <2>1, AnswerPlaces
    <2>. QED
      BY <2>1, <2>2
  <1>5. node = Node("audit", "start", 0)
    <2>1. at + 1 = b
      BY <1>1, <1>4
    <2>. QED
      BY <1>3, <1>4, <2>1, NodeIs
  <1>6. EnterAudit
    BY <1>1, <1>5, AtAudit DEF Node
  <1>7. /\ pc' = "read" /\ in_audit' /\ at' = b /\ records' = records
        /\ \E c \in Cells : entry' = c /\ rec' = [rec EXCEPT ![c] = Zeroed]
    <2>1. pc' = pc /\ in_audit' = TRUE /\ at' = at + 1 /\ records' = records /\ NewEntry(Zeroed)
      BY <1>6 DEF EnterAudit, callVars
    <2>2. \E c \in Cells : entry' = c /\ rec' = [rec EXCEPT ![c] = Zeroed]
      BY <2>1 DEF NewEntry
    <2>3. at' = b
      BY <1>1, <1>4, <2>1
    <2>. QED
      BY <1>1, <2>1, <2>2, <2>3
  <1>8. entry' # NULL /\ rec'[entry'] = Zeroed
    BY <1>7 DEF Cells, NULL, Inv, ListTypeOK
  <1>9. ReadSoFar(rec'[entry'], records'[n], 0)
    BY <1>8, NothingRead
  <1>10. SortsFirst(n - 1)'
    BY <1>1, ReadingSorts
  <1>11. HostInv(n, 0)'
    BY <1>1, <1>6, <1>7 DEF EnterAudit, callVars, HostInv, NoHost
  <1>. QED
    BY <1>3, <1>4, <1>7, <1>8, <1>9, <1>10, <1>11 DEF Within

\* The answer ends.
LEMMA FromLast ==
    ASSUME Inv, Inv', MessageInv, records # <<>>, Reading, Between(Count + 1)
    PROVE  PastAll'
  <1>1. /\ pc = "read" /\ ~in_audit /\ at = Begin(records, Count + 1) - 1
        /\ SortsFirst((Count + 1) - 1)
    BY DEF Between
  <1>2. /\ records \in Seq(Records) /\ Begin(records, Count + 1) = Len(Answer(records))
        /\ Answer(records)[Len(Answer(records))] = Node("response", "end", 0)
    BY AnswerIs, AnswerPlaces DEF MessageInv, Count
  <1>3. Len(Answer(records)) \in Nat /\ Count \in Nat
    BY MessageIs
  <1>4. at + 1 = Len(Answer(records))
    BY <1>1, <1>2, <1>3
  <1>5. node.tag = "response"
    BY <1>2, <1>4, NodeIs DEF Node
  <1>6. Skip
    BY <1>5, AtOther DEF AuditTags
  <1>7. pc' = "read" /\ at' = Len(Answer(records)) /\ ~in_audit' /\ records' = records
    BY <1>1, <1>4, <1>6, SkipIs
  <1>8. SortsFirst(Count)'
    <2>1. (Count + 1) - 1 = Count
      BY <1>3
    <2>2. SortsFirst(Count)
      BY <1>1, <2>1
    <2>. QED
      BY <1>7, <2>2, ReadingLists DEF SortsFirst, Count
  <1>. QED
    BY <1>7, <1>8 DEF PastAll, Count

\* What an index and a day without a text tell of a record.
LEMMA LastUnless ==
    ASSUME MessageInv, records # <<>>, AllButLastUsable, NEW n \in 1..Count,
           ~Usable(records[n])
    PROVE  n = Count
  <1>1. n \notin 1..(Count - 1)
    BY DEF AllButLastUsable
  <1>. QED
    BY <1>1, MessageIs

\* An audit ends: its entry is linked, or is of no use.
LEMMA FromEnd ==
    ASSUME Inv, Inv', MessageInv, records # <<>>, AllButLastUsable, Reading,
           NEW n \in 1..Count, Within(n, Len(records[n]))
    PROVE  Linking(n)' \/ BeyondUse'
  <1>1. /\ pc = "read" /\ in_audit /\ entry # NULL
        /\ at = FieldAt(records, n, Len(records[n]))
        /\ ReadSoFar(rec[entry], records[n], Len(records[n]))
        /\ SortsFirst(n - 1) /\ HostInv(n, Len(records[n]))
    BY DEF Within
  <1>2. /\ records \in Seq(Records) /\ n \in 1..Len(records) /\ records[n] \in Records
    BY DEF MessageInv, Count
  <1>3. /\ Answer(records)[Begin(records, n + 1) - 1] = Node("audit", "end", 0)
        /\ FieldAt(records, n, Len(records[n])) = Begin(records, n + 1) - 2
    BY <1>2, FieldPlaces
  <1>4. /\ Begin(records, n) \in Nat /\ Begin(records, n + 1) \in Nat
        /\ Begin(records, n + 1) >= Begin(records, n) + 2
    <2>1. PICK N \in Nat : N = Len(records)
      BY <1>2
    <2>2. PICK L \in Nat : L = Len(Answer(records))
      BY MessageIs
    <2>3. n \in 1..(N + 1) /\ n + 1 \in 1..(N + 1)
      BY <1>2, <2>1
    <2>4. Begin(records, n) \in 2..L /\ Begin(records, n + 1) \in 2..L
      BY <1>2, <2>1, <2>2, <2>3, AnswerPlaces
    <2>5. Begin(records, n + 1) = Begin(records, n) + Len(FlattenSeq(Fields(records[n]))) + 2
          /\ Len(FlattenSeq(Fields(records[n]))) \in Nat
      BY <1>2, AnswerPlaces, AuditIs
    <2>. QED
      BY <2>4, <2>5
  <1>5. at + 1 = Begin(records, n + 1) - 1
    BY <1>1, <1>3, <1>4
  <1>6. node = Node("audit", "end", 0)
    BY <1>3, <1>5, NodeIs
  <1>7. LeaveUnusable \/ LeaveAudit
    BY <1>1, <1>6, AtAudit DEF Node
  <1>8. entry \in Cells /\ rec[entry] \in Entries
    BY <1>1 DEF Inv, ListTypeOK
  <1>9. rec[entry] = EntryOf(records[n])
    BY <1>1, <1>2, <1>8, AllGiven
  <1>10. records' = records /\ at' = Begin(records, n + 1) - 1
    BY <1>5, <1>7, ReadingIs DEF LeaveUnusable, LeaveAudit
  <1>11. CASE LeaveAudit
    <2>1. pc' = "link" /\ rec' = rec /\ entry' = entry
      BY <1>11 DEF LeaveAudit, StartLink, heapVars
    <2>2. SortsFirst(n - 1)'
      BY <1>1, ReadingSorts
    <2>3. HostInv(n, Len(records[n]))'
      BY <1>1, <1>10, <1>11 DEF LeaveAudit, callVars, HostInv, NoHost
    <2>. QED
      BY <1>9, <1>10, <2>1, <2>2, <2>3 DEF Linking
  <1>12. CASE LeaveUnusable
    <2>1. Key(rec[entry]) = NULL /\ pc' = "read"
      BY <1>1, <1>12 DEF LeaveUnusable
    <2>2. rec[entry][KeyTag] = ValueOf(records[n], "auditIndex")
      BY <1>9, TagAssumption DEF EntryOf, AuditTags
    <2>3. ~Usable(records[n])
      BY <2>1, <2>2 DEF Key, Usable, Indexed
    <2>4. n = Count
      BY <2>3, LastUnless
    <2>5. at' >= Begin(records, n) /\ ~(at' < Begin(records, n + 1) - 1)
      BY <1>4, <1>10
    <2>. QED
      BY <1>10, <2>1, <2>3, <2>4, <2>5 DEF BeyondUse, Count
  <1>. QED
    BY <1>7, <1>11, <1>12

\* A field that opens no remotehost, or after which temp_value is set.
LEMMA HostStep ==
    ASSUME records \in Seq(Records), NEW n \in DOMAIN records, NEW i \in Nat \ {0},
           HostInv(n, i - 1), records' = records,
           unset' => unset /\ ~Opened(records[n][i])
    PROVE  HostInv(n, i)'
  <1>1. \A j \in Int : j <= i => j <= i - 1 \/ j = i
    OBVIOUS
  <1>2. ASSUME unset', NEW m \in DOMAIN records, NEW j \in DOMAIN records[m],
               m < n \/ (m = n /\ j <= i)
        PROVE  ~Opened(records[m][j])
    <2>1. NoHost(n, i - 1)
      BY <1>2 DEF HostInv
    <2>2. CASE m < n
      BY <2>1, <2>2 DEF NoHost
    <2>3. CASE m = n /\ j <= i - 1
      BY <2>1, <2>3 DEF NoHost
    <2>4. CASE m = n /\ j = i
      BY <1>2, <2>4
    <2>5. j \in Int
      <3>1. records[m] \in Records
        OBVIOUS
      <3>. QED
        BY <3>1, FieldsIn
    <2>. QED
      BY <1>1, <1>2, <2>2, <2>3, <2>4, <2>5
  <1>. QED
    BY <1>2 DEF HostInv, NoHost

\* A field is read: up to the next, to where the message breaks off, or, from a day
\* without a text, past a node of the next. A remotehost without one may be the end.
LEMMA FromField ==
    ASSUME Inv, Inv', MessageInv, records # <<>>, AllButLastUsable, Reading,
           NEW n \in 1..Count, NEW i \in 1..Len(records[n]), Within(n, i - 1)
    PROVE  Within(n, i)' \/ BrokenOff' \/ BeyondUse' \/ (pc' = "crashed" /\ Mishap)
  <1>1. PICK r \in Records : r = records[n]
    BY DEF MessageInv, Count
  <1>2. /\ records \in Seq(Records) /\ n \in 1..Len(records)
    BY DEF MessageInv, Count
  <1>3. PICK tag \in AuditTags, value \in {SelfClosed, Hollow} \cup 1..MaxValue :
           tag = r[i].tag /\ value = r[i].value
    <2>1. r[i] \in [tag : AuditTags, value : {SelfClosed, Hollow} \cup 1..MaxValue]
      BY <1>1, FieldOf
    <2>. QED
      BY <2>1
  <1>4. PICK f : f = FieldAt(records, n, i - 1)
    OBVIOUS
  <1>5. /\ pc = "read" /\ in_audit /\ entry # NULL /\ at = f
        /\ ReadSoFar(rec[entry], r, i - 1)
        /\ SortsFirst(n - 1) /\ HostInv(n, i - 1)
    BY <1>1, <1>4 DEF Within
  <1>6. /\ i - 1 \in Nat /\ (i - 1) + 1 = i
        /\ entry \in Cells /\ rec[entry] \in Entries /\ rec \in [Cells -> Entries] /\ tag \in Tags
    BY <1>5, TagAssumption DEF Inv, ListTypeOK
  <1>7. n \in DOMAIN records /\ i \in Nat \ {0} /\ records[n][i].tag = tag
        /\ records[n][i].value = value
    BY <1>1, <1>2, <1>3, <1>6
  <1>8. /\ FieldAt(records, n, i) = f + Len(Field(tag, value))
        /\ \A j \in 1..Len(Field(tag, value)) : Answer(records)[f + j] = Field(tag, value)[j]
    BY <1>1, <1>2, <1>3, <1>4, FieldPlaces
  <1>9. /\ f \in Nat /\ f >= Begin(records, n) /\ Begin(records, n) \in Nat
        /\ FieldAt(records, n, i) < Len(Answer(records))
    <2>1. PICK N \in Nat : N = Len(records)
      BY <1>2
    <2>2. PICK A \in Nat : A = Len(Answer(records))
      BY MessageIs
    <2>3. n \in 1..(N + 1) /\ n + 1 \in 1..(N + 1)
      BY <1>2, <2>1
    <2>4. Begin(records, n) \in 2..A /\ Begin(records, n + 1) \in 2..A
      BY <1>2, <2>1, <2>2, <2>3, AnswerPlaces
    <2>5. i - 1 \in 0..Len(records[n]) /\ i \in 0..Len(records[n])
      BY <1>1, FieldsIn
    <2>6. /\ f \in Begin(records, n)..(Begin(records, n + 1) - 2)
          /\ FieldAt(records, n, i) \in Begin(records, n)..(Begin(records, n + 1) - 2)
      BY <1>2, <1>4, <2>5, FieldPlaces
    <2>. QED
      BY <2>2, <2>4, <2>6
  <1>10. PICK l \in Nat : l = Len(message) /\ node = Answer(records)[f + 1] /\ f < l
                          /\ \A p \in 1..l : message[p] = Answer(records)[p]
                          /\ l <= Len(Answer(records))
    <2>1. node = Answer(records)[f + 1] /\ f < Len(message)
      BY <1>5, NodeIs
    <2>2. /\ \A p \in 1..Len(message) : message[p] = Answer(records)[p]
          /\ Len(message) \in 0..Len(Answer(records)) /\ Len(Answer(records)) \in Nat
      BY MessageIs
    <2>. QED
      BY <2>1, <2>2
  <1>11. /\ SortsFirst(n - 1)' /\ records' = records /\ message' = message
    BY <1>5, ReadingSorts, ReadingIs
  <1>12. CASE value = SelfClosed
    <2>1. Field(tag, value) = <<Node(tag, "empty", 0)>>
      BY <1>12 DEF Field, SelfClosed, Hollow
    <2>2. node = Node(tag, "empty", 0) /\ FieldAt(records, n, i) = f + 1
      BY <1>8, <1>10, <2>1
    <2>3. Skip
      BY <1>5, <2>2, AtField DEF Node
    <2>4. /\ pc' = "read" /\ in_audit' /\ entry' = entry /\ entry # NULL /\ rec' = rec
          /\ at' = FieldAt(records, n, i)
      BY <1>5, <2>2, <2>3, SkipIs
    <2>5. value \notin 1..MaxValue
      BY <1>12, CellAssumption DEF SelfClosed
    <2>6. ReadSoFar(rec[entry], r, i)
      BY <1>3, <1>5, <1>6, <2>5, NothingGiven
    <2>7. HostInv(n, i)'
      <3>1. ~Opened(records[n][i]) /\ unset' = unset
        BY <1>12, <1>7, <2>3, SkipIs DEF Opened
      <3>. QED
        BY <1>2, <1>5, <1>11, <1>7, <3>1, HostStep
    <2>. QED
      BY <1>1, <1>11, <2>4, <2>6, <2>7 DEF Within
  <1>13. ASSUME value # SelfClosed
         PROVE  /\ node = Node(tag, "start", 0) /\ Len(Field(tag, value)) >= 2
                /\ \/ /\ tag = "remotehost" /\ pc' = "crashed" /\ unset
                      /\ HostText.ok /\ ~Writes
                   \/ tag = "remotehost" /\ ReadHost
                   \/ tag # "remotehost" /\ ReadField
    <2>1. Field(tag, value)[1] = Node(tag, "start", 0) /\ Len(Field(tag, value)) >= 2
      BY <1>13 DEF Field
    <2>2. node = Node(tag, "start", 0)
      BY <1>8, <1>10, <2>1, SMTT(30)
    <2>3. node.tag = tag /\ node.part = "start"
      BY <2>2 DEF Node
    <2>. QED
      BY <1>5, <2>1, <2>2, <2>3, AtField
  <1>14. CASE value # SelfClosed /\ pc' = "crashed"
    <2>1. tag = "remotehost" /\ unset /\ HostText.ok /\ ~Writes /\ node = Node(tag, "start", 0)
      <3>1. ~ReadHost /\ ~ReadField
        BY <1>5, <1>14 DEF ReadHost, ReadField
      <3>. QED
        BY <1>13, <1>14, <3>1
    <2>2. f + 2 <= l
      BY <1>5, <1>9, <1>10, <2>1 DEF HostText, GetTagValue
    <2>3. message[f + 2].tag = "remotehost" /\ Answer(records)[f + 2] = message[f + 2]
      <3>1. f + 2 \in 1..l /\ at + 2 = f + 2
        BY <1>5, <1>9, <2>2
      <3>. QED
        BY <1>10, <2>1, <2>2, <3>1 DEF Writes, AskedFor, Node
    <2>4. value = Hollow
      <3>1. ASSUME value # Hollow PROVE FALSE
        <4>1. /\ Len(Field(tag, value)) = 3
              /\ Field(tag, value)[2] = Node("#text", "text", value)
          BY <1>14, <3>1 DEF Field
        <4>2. Answer(records)[f + 2] = Node("#text", "text", value)
          BY <1>8, <4>1
        <4>. QED
          BY <2>3, <4>2 DEF Node
      <3>. QED
        BY <3>1
    <2>5. /\ i \in DOMAIN records[n] /\ n \in DOMAIN records
          /\ Opened(records[n][i]) /\ records[n][i].value = Hollow
      BY <1>1, <1>2, <1>3, <1>14, <2>1, <2>4, FieldsIn DEF Opened
    <2>6. ASSUME NEW m \in DOMAIN records, NEW k \in DOMAIN records[m],
                 m < n \/ (m = n /\ k < i)
          PROVE  ~Opened(records[m][k])
      <3>1. k \in Int
        <4>1. records[m] \in Records
          BY <1>2
        <4>. QED
          BY <4>1, FieldsIn
      <3>2. k < i => k <= i - 1
        BY <1>6, <3>1
      <3>. QED
        BY <1>5, <2>1, <2>6, <3>2 DEF HostInv, NoHost
    <2>7. FirstHostIsHollow
      BY <2>5, <2>6 DEF FirstHostIsHollow
    <2>. QED
      BY <1>14, <2>7 DEF Mishap
  <1>15. ASSUME value # SelfClosed, pc' # "crashed"
         PROVE  /\ pc' = "read" /\ in_audit' /\ entry' = entry
                /\ IF tag = "remotehost" THEN ~unset' ELSE unset' = unset
                /\ \E got :
                      /\ got = GetTagValue(message, f + 1, AskedFor(tag),
                                           IF tag = "remotehost" THEN NULL ELSE rec[entry][tag])
                      /\ at' = got.at
                      /\ rec' = IF tag = "remotehost" /\ ~(got.ok /\ got.value # NULL) THEN rec
                                ELSE [rec EXCEPT ![entry][tag] = Taken(tag, got.value)]
    <2>1. CASE tag = "remotehost" /\ ReadHost
      <3>1. /\ pc' = "read" /\ in_audit' /\ entry' = entry /\ ~unset' /\ at' = HostText.at
            /\ rec' = IF HasText THEN [rec EXCEPT ![entry]["remotehost"] = Host(HostText.value)]
                                 ELSE rec
        BY <1>5, <2>1 DEF ReadHost
      <3>2. HostText = GetTagValue(message, f + 1, AskedFor(tag), NULL)
        BY <1>5, <2>1 DEF HostText, AskedFor
      <3>3. Taken(tag, HostText.value) = Host(HostText.value)
        BY <2>1 DEF Taken
      <3>. QED
        BY <2>1, <3>1, <3>2, <3>3 DEF HasText
    <2>2. CASE tag # "remotehost" /\ ReadField
      <3>1. node.tag = tag
        BY <1>13, <1>15 DEF Node
      <3>2. FieldValue = GetTagValue(message, f + 1, AskedFor(tag), rec[entry][tag])
        BY <1>5, <3>1 DEF FieldValue
      <3>3. /\ pc' = "read" /\ in_audit' /\ entry' = entry /\ unset' = unset
            /\ at' = FieldValue.at
            /\ rec' = [rec EXCEPT ![entry][node.tag] = FieldValue.value]
        BY <1>5, <2>2 DEF ReadField, callVars
      <3>4. Taken(tag, FieldValue.value) = FieldValue.value
        BY <2>2 DEF Taken
      <3>. QED
        BY <2>2, <3>1, <3>2, <3>3, <3>4
    <2>. QED
      BY <1>13, <1>15, <2>1, <2>2
  <1>16. CASE value # SelfClosed /\ pc' # "crashed" /\ f + 1 = l
    <2>1. at' = f + 1 /\ pc' = "read"
      BY <1>10, <1>15, <1>16 DEF GetTagValue
    <2>2. l < Len(Answer(records))
      <3>1. PICK k \in Nat : k = Len(Field(tag, value)) /\ k >= 2
        BY <1>13, <1>16 DEF Field
      <3>2. f + k < Len(Answer(records))
        BY <1>8, <1>9, <3>1
      <3>. QED
        BY <1>9, <1>16, <3>1, <3>2, MessageIs
    <2>. QED
      BY <1>10, <1>11, <1>16, <2>1, <2>2 DEF BrokenOff
  <1>17. CASE value = Hollow /\ pc' # "crashed" /\ f + 1 < l
    <2>1. Field(tag, value) = <<Node(tag, "start", 0), Node(tag, "end", 0)>>
      BY <1>17, CellAssumption DEF Field, Hollow, SelfClosed
    <2>2. FieldAt(records, n, i) = f + 2 /\ Answer(records)[f + 2] = Node(tag, "end", 0)
      BY <1>8, <2>1
    <2>3. message[(f + 1) + 1] = Node(tag, "end", 0) /\ (f + 1) + 1 <= l /\ (f + 1) + 1 = f + 2
      BY <1>9, <1>10, <1>17, <2>2
    <2>4. value # SelfClosed /\ value \notin 1..MaxValue
      BY <1>17, CellAssumption DEF Hollow, SelfClosed
    <2>5. CASE tag # "day"
      <3>1. PICK got :
              /\ got = GetTagValue(message, f + 1, AskedFor(tag),
                                   IF tag = "remotehost" THEN NULL ELSE rec[entry][tag])
              /\ at' = got.at
              /\ rec' = IF tag = "remotehost" /\ ~(got.ok /\ got.value # NULL) THEN rec
                        ELSE [rec EXCEPT ![entry][tag] = Taken(tag, got.value)]
        BY <1>15, <1>17, <2>4
      <3>2. /\ got.at = f + 2
            /\ got.value = IF tag = "remotehost" THEN NULL ELSE rec[entry][tag]
        <4>1. AskedFor(tag) = tag /\ message[(f + 1) + 1].tag = tag
          BY <2>3, <2>5 DEF AskedFor, Node
        <4>2. ~((f + 1) + 1 > Len(message))
          BY <1>9, <1>10, <2>3
        <4>. QED
          BY <2>3, <3>1, <4>1, <4>2 DEF GetTagValue
      <3>3. rec' = rec /\ at' = f + 2
        <4>1. CASE tag = "remotehost"
          BY <3>1, <3>2, <4>1
        <4>2. CASE tag # "remotehost"
          <5>1. rec' = [rec EXCEPT ![entry][tag] = rec[entry][tag]]
            BY <3>1, <3>2, <4>2 DEF Taken
          <5>. QED
            BY <1>6, <3>1, <3>2, <5>1 DEF Entries
        <4>. QED
          BY <4>1, <4>2
      <3>4. ReadSoFar(rec[entry], r, i)
        BY <1>3, <1>5, <1>6, <2>4, NothingGiven
      <3>5. HostInv(n, i)'
        <4>1. unset' => unset /\ ~Opened(records[n][i])
          BY <1>15, <1>17, <1>7, <2>4 DEF Opened
        <4>. QED
          BY <1>2, <1>5, <1>11, <1>7, <4>1, HostStep
      <3>. QED
        BY <1>1, <1>5, <1>11, <1>15, <1>17, <2>2, <2>4, <3>3, <3>4, <3>5 DEF Within
    <2>6. CASE tag = "day"
      <3>1. HollowDay(r) /\ ~Usable(r)
        <4>1. r[i] = [tag |-> "day", value |-> Hollow]
          <5>1. r[i] \in [tag : AuditTags, value : {SelfClosed, Hollow} \cup 1..MaxValue]
            BY <1>1, FieldOf
          <5>. QED
            BY <1>3, <1>17, <2>6, <5>1
        <4>2. i \in DOMAIN r
          BY <1>1, FieldsIn
        <4>. QED
          BY <4>1, <4>2 DEF Usable, HollowDay
      <3>2. n = Count
        BY <1>1, <3>1, LastUnless
      <3>3. at' \in {f + 2, f + 3}
        BY <1>9, <1>10, <1>15, <1>17, <2>3, <2>4, <2>6 DEF GetTagValue, AskedFor, Node
      <3>4. HollowDay(records[Count])
        BY <1>1, <3>1, <3>2
      <3>5. at' >= Begin(records, n)
        BY <1>9, <3>3
      <3>6. pc' = "read" /\ in_audit' /\ entry' # NULL
        BY <1>5, <1>15, <1>17, <2>4
      <3>. QED
        BY <1>1, <1>11, <3>1, <3>2, <3>5, <3>6, <3>4 DEF BeyondUse, Count
    <2>. QED
      BY <2>5, <2>6
  <1>18. CASE value \in 1..MaxValue /\ pc' # "crashed" /\ f + 1 < l
    <2>1. value # SelfClosed /\ value # Hollow
      BY <1>18, CellAssumption DEF Hollow, SelfClosed
    <2>2. Field(tag, value) = <<Node(tag, "start", 0), Node("#text", "text", value),
                                Node(tag, "end", 0)>>
      BY <2>1 DEF Field
    <2>3. /\ FieldAt(records, n, i) = f + 3
          /\ Answer(records)[f + 2] = Node("#text", "text", value)
      BY <1>8, <2>2
    <2>4. /\ message[(f + 1) + 1] = Node("#text", "text", value)
          /\ (f + 1) + 1 <= l /\ (f + 1) + 2 = f + 3
      <3>1. (f + 1) + 1 = f + 2 /\ f + 2 \in 1..l
        BY <1>9, <1>18
      <3>. QED
        BY <1>9, <1>10, <2>3, <3>1, SMTT(30)
    <2>5. PICK got :
            /\ got = GetTagValue(message, f + 1, AskedFor(tag),
                                 IF tag = "remotehost" THEN NULL ELSE rec[entry][tag])
            /\ at' = got.at
            /\ rec' = IF tag = "remotehost" /\ ~(got.ok /\ got.value # NULL) THEN rec
                      ELSE [rec EXCEPT ![entry][tag] = Taken(tag, got.value)]
      BY <1>15, <1>18, <2>1
    <2>6. /\ got.value = value
          /\ got.at = IF f + 3 > l THEN f + 2 ELSE f + 3
          /\ got.ok = (f + 3 <= l)
      <3>1. AskedFor(tag) # "#text"
        BY DEF AskedFor, AuditTags
      <3>. QED
        <4>1. ~((f + 1) + 1 > Len(message)) /\ message[(f + 1) + 1].tag # AskedFor(tag)
              /\ message[(f + 1) + 1].part = "text" /\ message[(f + 1) + 1].value = value
          BY <1>9, <1>10, <2>4, <3>1 DEF Node
        <4>2. got = [at |-> IF (f + 1) + 2 > Len(message) THEN (f + 1) + 1 ELSE (f + 1) + 2,
                     value |-> value, ok |-> (f + 1) + 2 <= Len(message)]
          BY <2>5, <4>1 DEF GetTagValue
        <4>. QED
          BY <1>9, <1>10, <2>4, <4>2
    <2>7. pc' = "read" /\ in_audit' /\ entry' = entry /\ entry' # NULL
      BY <1>5, <1>15, <1>18, <2>1
    <2>8. CASE f + 3 > l
      <3>1. f + 2 = l /\ l < Len(Answer(records))
        BY <1>9, <1>10, <1>18, <2>3, <2>8, MessageIs
      <3>2. at' = l /\ pc' = "read"
        BY <2>5, <2>6, <2>7, <2>8, <3>1
      <3>. QED
        BY <1>10, <1>11, <3>1, <3>2 DEF BrokenOff
    <2>9. CASE ~(f + 3 > l)
      <3>1. at' = FieldAt(records, n, i) /\ got.ok
        <4>1. f + 3 <= l
          BY <1>9, <1>10, <2>9
        <4>. QED
          BY <2>3, <2>5, <2>6, <2>9, <4>1
      <3>2. got.value # NULL
        BY <1>18, <2>6 DEF NULL
      <3>3. rec' = [rec EXCEPT ![entry][tag] = Taken(tag, value)]
        BY <2>5, <2>6, <3>1, <3>2
      <3>4. rec'[entry] = [rec[entry] EXCEPT ![r[i].tag] = Taken(r[i].tag, r[i].value)]
        BY <1>3, <1>6, <3>3
      <3>5. ReadSoFar(rec'[entry], r, i)
        BY <1>3, <1>5, <1>6, <1>18, <3>4, ValueGiven
      <3>6. HostInv(n, i)'
        <4>1. unset' => unset /\ ~Opened(records[n][i])
          BY <1>15, <1>18, <1>7, <2>1 DEF Opened
        <4>. QED
          BY <1>2, <1>5, <1>11, <1>7, <4>1, HostStep
      <3>. QED
        BY <1>1, <1>11, <2>7, <3>1, <3>5, <3>6 DEF Within
    <2>. QED
      BY <2>8, <2>9
  <1>19. f + 1 = l \/ f + 1 < l
    BY <1>9, <1>10
  <1>. QED
    BY <1>3, <1>12, <1>14, <1>16, <1>17, <1>18, <1>19

\* In an audit that is of no use, and past it, the parse goes on.
LEMMA FromBeyond ==
    ASSUME Inv, Inv', MessageInv, records # <<>>, Reading, BeyondUse
    PROVE  BeyondUse' \/ (pc' = "crashed" /\ Mishap)
  <1>1. PICK b, e : b = Begin(records, Count) /\ e = Begin(records, Count + 1)
    OBVIOUS
  <1>2. /\ pc = "read" /\ ~Usable(records[Count]) /\ at >= b
        /\ at < e - 1 => in_audit /\ entry # NULL /\ HollowDay(records[Count])
    BY <1>1, ReadingIs DEF BeyondUse
  <1>3. records \in Seq(Records) /\ Count = Len(records) /\ Count \in Nat \ {0}
    BY MessageIs DEF MessageInv, Count
  <1>4. Count \in 1..Len(records) /\ Count \in 1..(Len(records) + 1)
    BY <1>3
  <1>5. e = Len(Answer(records)) /\ e \in Nat /\ b \in 2..e
    BY <1>1, <1>3, <1>4, AnswerPlaces, MessageIs
  <1>6. at \in Nat /\ at + 1 <= e /\ node = Answer(records)[at + 1]
    BY <1>5, NodeIs
  <1>7. /\ Answer(records)[e - 1] = Node("audit", "end", 0)
        /\ \A p \in (b + 1)..(e - 2) : Answer(records)[p] \in NodesOf(TagsOf(records[Count]), Values)
        /\ Answer(records)[e] = Node("response", "end", 0)
    <2>1. /\ Answer(records)[Begin(records, Count + 1) - 1] = Node("audit", "end", 0)
          /\ \A p \in (Begin(records, Count) + 1)..(Begin(records, Count + 1) - 2) :
                Answer(records)[p] \in NodesOf(TagsOf(records[Count]), Values)
      BY <1>3, <1>4, FieldPlaces
    <2>2. Answer(records)[e] = Node("response", "end", 0)
      BY <1>3, <1>5, AnswerIs
    <2>. QED
      BY <1>1, <2>1, <2>2
  <1>8. records' = records
    BY ReadingIs
  <1>9. CASE at < e - 2
    <2>1. in_audit /\ entry # NULL /\ HollowDay(records[Count])
      BY <1>2, <1>5, <1>6, <1>9
    <2>2. node \in NodesOf(TagsOf(records[Count]), Values) /\ records[Count] \in Records
      <3>1. at + 1 \in (b + 1)..(e - 2)
        BY <1>2, <1>5, <1>6, <1>9
      <3>. QED
        BY <1>3, <1>4, <1>6, <1>7, <3>1
    <2>3. \/ Skip \/ ReadField \/ ReadHost
          \/ pc' = "crashed" /\ node.tag = "remotehost"
      <3>1. node.tag \in AuditTags \/ node.tag = "#text"
        BY <2>2, FieldsIn DEF NodesOf
      <3>2. CASE node.tag \in AuditTags
        BY <2>1, <3>2, AtField
      <3>3. CASE node.tag = "#text"
        BY <3>3, AtOther DEF AuditTags
      <3>. QED
        BY <3>1, <3>2, <3>3
    <2>4. CASE pc' = "crashed" /\ node.tag = "remotehost"
      <3>1. "remotehost" \in TagsOf(records[Count])
        BY <2>2, <2>4 DEF NodesOf
      <3>2. Count \in DOMAIN records
        BY <1>3, <1>4
      <3>. QED
        BY <2>1, <2>4, <3>1, <3>2 DEF Mishap
    <2>5. CASE Skip
      <3>1. at' >= b
        BY <1>2, <1>5, <1>6, <2>5, SkipIs
      <3>2. pc' = "read" /\ in_audit' /\ entry' # NULL
        BY <1>2, <2>1, <2>5, SkipIs
      <3>. QED
        BY <1>1, <1>2, <1>8, <2>1, <3>1, <3>2 DEF BeyondUse, Count
    <2>6. CASE ReadField \/ ReadHost
      <3>1. /\ message \in Seq(NodesOf(AuditTags \cup {"response", "audit", "error"}, 0..MaxValue))
            /\ 0 \in 0..MaxValue /\ at + 1 \in 1..Len(message)
        BY <1>6, NodeIs, CellAssumption DEF Inv, CallInv, AuditNodes
      <3>2. /\ FieldValue.at \in {at + 1, (at + 1) + 1, (at + 1) + 2}
            /\ HostText.at \in {at + 1, (at + 1) + 1, (at + 1) + 2}
        BY <3>1, GetTagValueIn DEF FieldValue, HostText
      <3>3. at' \in {FieldValue.at, HostText.at}
        BY <2>6 DEF ReadField, ReadHost
      <3>4. at' >= b
        BY <1>2, <1>5, <1>6, <3>2, <3>3
      <3>5. pc' = "read" /\ in_audit' /\ entry' # NULL
        BY <1>2, <2>1, <2>6 DEF ReadField, ReadHost
      <3>. QED
        BY <1>1, <1>2, <1>8, <2>1, <3>4, <3>5 DEF BeyondUse, Count
    <2>. QED
      BY <2>3, <2>4, <2>5, <2>6
  <1>10. CASE at = e - 2
    <2>1. in_audit /\ entry # NULL
      BY <1>2, <1>5, <1>10
    <2>2. node = Node("audit", "end", 0)
      <3>1. at + 1 = e - 1
        BY <1>5, <1>10
      <3>. QED
        BY <1>6, <1>7, <3>1
    <2>3. LeaveUnusable \/ LeaveAudit
      BY <2>1, <2>2, AtAudit DEF Node
    <2>4. at' = at + 1 /\ pc' \in {"read", "link"}
      BY <1>2, <2>3 DEF LeaveUnusable, LeaveAudit, StartLink
    <2>5. at' = e - 1 /\ at' >= b /\ at' >= e - 1 /\ ~(at' < e - 1)
      BY <1>2, <1>5, <1>6, <1>10, <2>4
    <2>. QED
      BY <1>1, <1>2, <1>8, <2>4, <2>5 DEF BeyondUse, Count
  <1>11. CASE at > e - 2
    <2>1. at = e - 1
      BY <1>5, <1>6, <1>11
    <2>2. at + 1 = e
      BY <1>5, <2>1
    <2>3. node.tag = "response"
      BY <1>6, <1>7, <2>2 DEF Node
    <2>4. Skip
      BY <2>3, AtOther DEF AuditTags
    <2>5. pc' = "read" /\ at' = e
      BY <1>2, <2>2, <2>4, SkipIs
    <2>6. at' >= b /\ ~(at' < e - 1)
      BY <1>5, <2>5
    <2>. QED
      BY <1>1, <1>2, <1>8, <2>5, <2>6 DEF BeyondUse, Count
  <1>12. at < e - 2 \/ at = e - 2 \/ at > e - 2
    BY <1>5, <1>6
  <1>. QED
    BY <1>9, <1>10, <1>11, <1>12

\* Reading a node goes on from one of the places to another.
LEMMA ReadingGoesOn ==
    ASSUME Inv, Inv', MessageInv, records # <<>>, AllButLastUsable, Reading, Where
    PROVE  Where' \/ (pc' = "crashed" /\ Mishap)
  <1>1. /\ pc = "read" /\ at < Len(message) /\ records' = records /\ message' = message
    BY ReadingIs
  <1>2. /\ Count' = Count /\ Count \in Nat \ {0}
        /\ \A n \in 1..Count : Len(records[n]) \in Nat
    <2>1. Count' = Count
      BY <1>1 DEF Count
    <2>. QED
      BY <2>1, MessageIs, FieldsIn
  <1>3. ~BrokenOff
    BY <1>1, MessageIs DEF BrokenOff, Inv, CallInv
  <1>4. ~PastAll
    BY NodeIs, MessageIs DEF PastAll
  <1>5. CASE BeforeAll
    <2>1. 1 \in 1..(Count' + 1) /\ Between(1)'
      BY <1>2, <1>5, FromBefore
    <2>. QED
      BY <2>1 DEF Where
  <1>6. ASSUME NEW n \in 1..(Count + 1), Between(n) PROVE Where'
    <2>1. CASE n = Count + 1
      BY <1>6, <2>1, FromLast DEF Where
    <2>2. CASE n # Count + 1
      <3>1. n \in 1..Count
        BY <1>2, <2>2
      <3>2. Within(n, 0)'
        BY <1>6, <3>1, FromBetween
      <3>3. n \in 1..Count' /\ 0 \in 0..Len(records'[n])
        BY <1>1, <1>2, <3>1
      <3>. QED
        BY <3>2, <3>3 DEF Where
    <2>. QED
      BY <2>1, <2>2
  <1>7. ASSUME NEW n \in 1..Count, NEW i \in 0..Len(records[n]), Within(n, i)
        PROVE  Where' \/ (pc' = "crashed" /\ Mishap)
    <2>1. CASE i = Len(records[n])
      <3>1. Linking(n)' \/ BeyondUse'
        BY <1>7, <2>1, FromEnd
      <3>. QED
        BY <1>2, <3>1 DEF Where
    <2>2. CASE i # Len(records[n])
      <3>1. i + 1 \in 1..Len(records[n]) /\ (i + 1) - 1 = i
        BY <1>2, <2>2
      <3>2. \/ Within(n, i + 1)' \/ BrokenOff' \/ BeyondUse'
            \/ pc' = "crashed" /\ Mishap
        BY <1>7, <3>1, FromField
      <3>3. n \in 1..Count' /\ i + 1 \in 0..Len(records'[n])
        BY <1>1, <1>2, <3>1
      <3>. QED
        BY <3>2, <3>3 DEF Where
    <2>. QED
      BY <2>1, <2>2
  <1>8. \A n \in 1..Count : ~Linking(n)
    BY <1>1 DEF Linking
  <1>9. CASE BeyondUse
    BY <1>9, FromBeyond DEF Where
  <1>. QED
    BY <1>3, <1>4, <1>5, <1>6, <1>7, <1>8, <1>9 DEF Where

\* So does a pass of the loop that links an entry.
LEMMA LinkingGoesOn ==
    ASSUME Inv, Inv', MessageInv, records # <<>>, WalkOn \/ LinkEntry, Where
    PROVE  Where'
  <1>1. pc = "link" /\ at' = at /\ records' = records
    BY DEF WalkOn, Walk, LinkEntry, Link, LinkFirst, LinkBefore, LinkLast, callVars
  <1>2. unset' = unset
    BY DEF WalkOn, LinkEntry, callVars
  <1>3. Count' = Count /\ Count \in Nat \ {0}
    BY <1>1, MessageIs DEF Count
  <1>4. BeyondUse \/ \E n \in 1..Count : Linking(n)
    BY <1>1 DEF Where, BrokenOff, BeforeAll, Between, Within, PastAll
  <1>5. CASE BeyondUse
    <2>1. pc' \in {"read", "link"}
      BY <1>1 DEF WalkOn, Walk, LinkEntry, Link, LinkFirst, LinkBefore, LinkLast
    <2>2. at >= Begin(records, Count + 1) - 1 /\ at >= Begin(records, Count) /\ ~Usable(records[Count])
      BY <1>1, <1>5 DEF BeyondUse
    <2>3. ~(at < Begin(records, Count + 1) - 1)
      <3>1. at \in Int
        BY DEF Inv, CallInv
      <3>2. Begin(records, Count + 1) \in Int
        BY MessageIs, AnswerPlaces DEF MessageInv, Count
      <3>. QED
        BY <2>2, <3>1, <3>2
    <2>. QED
      BY <1>1, <2>1, <2>2, <2>3 DEF BeyondUse, Count, Where
  <1>6. ASSUME NEW n \in 1..Count, Linking(n) PROVE Where'
    <2>1. /\ at = Begin(records, n + 1) - 1 /\ rec[entry] = EntryOf(records[n])
          /\ SortsFirst(n - 1) /\ HostInv(n, Len(records[n]))
      BY <1>6 DEF Linking
    <2>2. CASE WalkOn
      <3>1. pc' = pc /\ UNCHANGED <<table, rec, next, entry>>
        BY <2>2 DEF WalkOn, Walk, heapVars
      <3>2. Listed' = Listed
        BY <3>1, ListedSame DEF Inv
      <3>3. SortsFirst(n - 1)'
        BY <1>1, <2>1, <3>2, SortsKept
      <3>4. Linking(n)'
        BY <1>1, <1>2, <2>1, <3>1, <3>3 DEF Linking, HostInv, NoHost
      <3>. QED
        BY <1>3, <3>4 DEF Where
    <2>3. CASE LinkEntry
      <3>1. SortsFirst(n)'
        BY <1>6, <2>1, <2>3, SortsLinked
      <3>2. pc' = "read" /\ ~in_audit'
        BY <2>3 DEF LinkEntry, Link, LinkFirst, LinkBefore, LinkLast
      <3>3. (n + 1) - 1 = n /\ n + 1 \in 1..(Count' + 1)
        BY <1>3
      <3>4. SortsFirst((n + 1) - 1)'
        BY <3>1, <3>3
      <3>5. HostInv(n + 1, 0)'
        <4>1. ASSUME NEW m \in DOMAIN records, NEW j \in DOMAIN records[m],
                     m < n + 1 \/ (m = n + 1 /\ j <= 0)
              PROVE  m < n \/ (m = n /\ j <= Len(records[n]))
          <5>1. records[m] \in Records /\ DOMAIN records = 1..Count /\ Count \in Nat
            BY MessageIs DEF MessageInv, Count
          <5>2. DOMAIN records[m] = 1..Len(records[m]) /\ Len(records[m]) \in Nat
            BY <5>1, FieldsIn
          <5>3. m \in Int /\ n \in Int /\ j \in 1..Len(records[m])
            BY <5>1, <5>2
          <5>4. m < n \/ m = n
            BY <4>1, <5>2, <5>3
          <5>. QED
            BY <5>2, <5>3, <5>4
        <4>. QED
          BY <1>1, <1>2, <2>1, <4>1 DEF HostInv, NoHost
      <3>6. Between(n + 1)'
        BY <1>1, <2>1, <3>2, <3>4, <3>5 DEF Between
      <3>. QED
        BY <3>3, <3>6 DEF Where
    <2>. QED
      BY <2>2, <2>3
  <1>. QED
    BY <1>4, <1>5, <1>6

\* A message without records has none of their nodes.
LEMMA NoneReported ==
    ASSUME NEW m, \/ m \in Prefixes(Answer(<<>>))
                  \/ \E text \in {LoginRequired, OtherError} : m \in Prefixes(Refusal(text))
    PROVE  NoAudits(m)
  <1>. DEFINE T == {"response", "error"}
              S == NodesOf(T, Values)
  <1>1. 0 \in Values /\ 1..MaxValue \subseteq Values
    BY CellAssumption DEF Values
  <1>2. PICK W : W = Seq(S)
    OBVIOUS
  <1>3. Answer(<<>>) \in Seq(S)
    <2>1. PICK parts : parts = [n \in DOMAIN <<>> |-> Element("audit", 0, Fields(<<>>[n]))]
      OBVIOUS
    <2>2. DOMAIN <<>> = 1..0
      OBVIOUS
    <2>3. parts \in Seq(W)
      BY <2>1, <2>2
    <2>4. Element("response", 0, parts) \in Seq(S)
      BY <1>1, <1>2, <2>3, ElementIn
    <2>. QED
      BY <2>1, <2>4 DEF Answer
  <1>4. ASSUME NEW text \in {LoginRequired, OtherError} PROVE Refusal(text) \in Seq(S)
    <2>1. text \in Values
      BY <1>1, RecordAssumption
    <2>. HIDE DEF Values
    <2>2. Field("error", text) \in Seq(S)
      BY <1>1, <2>1, FieldIn
    <2>3. <<Field("error", text)>> \in Seq(W)
      BY <1>2, <2>2
    <2>4. Element("response", 0, <<Field("error", text)>>) \in Seq(S)
      BY <1>1, <1>2, <2>3, ElementIn
    <2>. QED
      BY <2>4 DEF Refusal
  <1>5. m \in Seq(S)
    <2>. HIDE DEF S
    <2>1. PICK s : s \in Seq(S) /\ m \in Prefixes(s)
      BY <1>3, <1>4
    <2>. QED
      BY <2>1, PrefixOf
  <1>6. \A p \in 1..Len(m) : m[p] \in S
    <2>. HIDE DEF S
    <2>. QED
      BY <1>5
  <1>. QED
    BY <1>6 DEF NoAudits, NodesOf

\* Such a message leaves the table empty.
LEMMA NothingGoesOn ==
    ASSUME Inv, Inv', MessageInv, records = <<>>, Reading, ~in_audit, Listed = <<>>
    PROVE  pc' \in {"idle", "read"} /\ ~in_audit' /\ Listed' = <<>>
  <1>1. pc = "read" /\ at < Len(message) /\ Listed' = <<>>
    BY ReadingIs, ReadingLists
  <1>2. node.tag \in {"response", "error", "#text"}
    <2>1. at + 1 \in 1..Len(message)
      BY <1>1 DEF Inv, CallInv
    <2>. QED
      BY <2>1 DEF MessageInv, NoAudits, node
  <1>3. ReadError \/ Skip
    BY <1>2 DEF Reading, EnterAudit, LeaveUnusable, LeaveAudit, ReadField,
                ReadFieldOfNone, ReadHost, Crash, AuditTag, Plain, OpensHost, FieldTag, Is,
                AuditTags
  <1>4. CASE ReadError
    BY <1>1, <1>4 DEF ReadError, Return
  <1>5. CASE Skip
    BY <1>1, <1>5, SkipIs
  <1>. QED
    BY <1>1, <1>3, <1>4, <1>5

\* A complete answer whose records are all of use is listed.
LEMMA AtTheEnd ==
    ASSUME Inv, MessageInv, AllUsable, message = Answer(records), at = Len(message), pc = "read",
           records = <<>> => Listed = <<>>, records # <<>> => Where
    PROVE  ListsRecords
  <1>1. CASE records = <<>>
    <2>1. DOMAIN [n \in DOMAIN records |-> EntryOf(records[n])] = {}
      BY <1>1
    <2>. QED
      BY <1>1, <2>1, SortsNothing DEF ListsRecords
  <1>2. CASE records # <<>>
    <2>1. PICK a \in Nat : a = Len(Answer(records)) /\ at = a
      BY <1>2, MessageIs
    <2>2. /\ records \in Seq(Records) /\ Count = Len(records) /\ Count \in Nat \ {0}
      BY <1>2, MessageIs DEF MessageInv, Count
    <2>3. \A n \in 1..(Count + 1) : Begin(records, n) \in 2..a
      BY <2>1, <2>2, AnswerPlaces
    <2>4. ~BrokenOff /\ ~BeforeAll
      <3>1. 1 \in 1..(Count + 1)
        BY <2>2
      <3>. QED
        BY <2>1, <2>3, <3>1 DEF BrokenOff, BeforeAll
    <2>5. ASSUME NEW n \in 1..(Count + 1) PROVE ~Between(n)
      BY <2>1, <2>3 DEF Between
    <2>6. ASSUME NEW n \in 1..Count, NEW i \in 0..Len(records[n]) PROVE ~Within(n, i)
      <3>1. n \in 1..(Count + 1) /\ n + 1 \in 1..(Count + 1)
        BY <2>2
      <3>2. FieldAt(records, n, i) \in Begin(records, n)..(Begin(records, n + 1) - 2)
        BY <2>2, FieldPlaces
      <3>. QED
        BY <2>1, <2>3, <3>1, <3>2 DEF Within
    <2>7. \A n \in 1..Count : ~Linking(n)
      BY DEF Linking
    <2>8. ~BeyondUse
      <3>1. Usable(records[Count])
        BY <2>2 DEF AllUsable
      <3>. QED
        BY <3>1 DEF BeyondUse
    <2>9. PastAll
      BY <1>2, <2>4, <2>5, <2>6, <2>7, <2>8 DEF Where
    <2>10. DOMAIN records = 1..Count
      BY <2>2
    <2>. QED
      BY <2>9, <2>10 DEF PastAll, SortsFirst, ListsRecords
  <1>. QED
    BY <1>1, <1>2

\* A call begins, ...
LEMMA ParseByPopulate ==
    ASSUME Inv, ParseInv, Populate
    PROVE  ParseInv'
  <1>1. pc' = "free" /\ at' = 0 /\ stamped' = FALSE
    BY DEF Populate
  <1>2. MessageInv'
    <2>1. CASE /\ records' \in BoundedSeq(Records, MaxRecords - total)
               /\ message' \in Prefixes(Answer(records'))
      <3>1. records' \in Seq(Records)
        BY <2>1 DEF BoundedSeq, SeqOf
      <3>2. records' = <<>> => NoAudits(message')
        BY <2>1, NoneReported
      <3>. QED
        BY <2>1, <3>1, <3>2 DEF MessageInv
    <2>2. CASE /\ records' = <<>>
               /\ \E text \in {LoginRequired, OtherError} : message' \in Prefixes(Refusal(text))
      <3>1. NoAudits(message')
        BY <2>2, NoneReported
      <3>2. records' \in Seq(Records)
        BY <2>2
      <3>. QED
        BY <2>2, <3>1, <3>2 DEF MessageInv
    <2>. QED
      BY <2>1, <2>2 DEF Populate
  <1>3. ~Complete'
    BY <1>1 DEF Complete
  <1>. QED
    BY <1>1, <1>2, <1>3 DEF ParseInv, ParseIs

\* ... is read node by node, ...
LEMMA ParseByReading ==
    ASSUME Inv, Inv', ParseInv, Reading
    PROVE  ParseInv'
  <1>1. pc = "read" /\ UNCHANGED <<records, message>>
    BY ReadingIs
  <1>2. MessageInv /\ MessageInv' /\ ~stamped
    BY <1>1 DEF ParseInv, ParseIs, MessageInv
  <1>3. ~stamped'
    BY <1>2 DEF Reading, ReadError, Return, EnterAudit, LeaveUnusable, LeaveAudit, ReadField,
                ReadFieldOfNone, ReadHost, Crash, Skip, callVars
  <1>4. pc' # "free"
    BY <1>1 DEF Reading, ReadError, Return, EnterAudit, LeaveUnusable, LeaveAudit, StartLink,
                ReadField, ReadFieldOfNone, ReadHost, Crash, Skip, listVars
  <1>5. AllButLastUsable' <=> AllButLastUsable
    BY <1>1 DEF AllButLastUsable, Count
  <1>6. ParseIs'
    <2>. SUFFICES ASSUME AllButLastUsable
                  PROVE  /\ pc' = "crashed" => Mishap
                         /\ pc' \in {"read", "link"} =>
                               /\ records' = <<>> => pc' = "read" /\ ~in_audit' /\ Listed' = <<>>
                               /\ records' # <<>> => Where'
      BY <1>1, <1>5 DEF ParseIs, Mishap, FirstHostIsHollow
    <2>1. CASE records = <<>>
      <3>1. ~in_audit /\ Listed = <<>>
        BY <1>1, <2>1 DEF ParseInv, ParseIs
      <3>2. pc' \in {"idle", "read"} /\ ~in_audit' /\ Listed' = <<>>
        BY <1>2, <2>1, <3>1, NothingGoesOn
      <3>. QED
        BY <1>1, <2>1, <3>2
    <2>2. CASE records # <<>>
      <3>1. Where
        BY <1>1, <2>2 DEF ParseInv, ParseIs
      <3>2. Where' \/ (pc' = "crashed" /\ Mishap)
        BY <1>2, <2>2, <3>1, ReadingGoesOn
      <3>3. Where' => pc' # "crashed"
        BY DEF Where, BrokenOff, BeforeAll, Between, Within, Linking, PastAll, BeyondUse
      <3>. QED
        BY <1>1, <2>2, <3>2, <3>3
    <2>. QED
      BY <2>1, <2>2
  <1>. QED
    BY <1>2, <1>3, <1>4, <1>6 DEF ParseInv, ParseIs, Complete

\* ... and linked entry by entry, ...
LEMMA ParseByLinking ==
    ASSUME Inv, Inv', ParseInv, WalkOn \/ LinkEntry
    PROVE  ParseInv'
  <1>1. pc = "link" /\ pc' \in {"read", "link"} /\ UNCHANGED <<records, message, stamped>>
    BY DEF WalkOn, Walk, LinkEntry, Link, LinkFirst, LinkBefore, LinkLast, callVars
  <1>2. MessageInv /\ MessageInv' /\ ~stamped'
    BY <1>1 DEF ParseInv, ParseIs, MessageInv
  <1>3. AllButLastUsable' => records # <<>> /\ Where
    BY <1>1 DEF ParseInv, ParseIs, AllButLastUsable, Count
  <1>4. AllButLastUsable' => Where'
    BY <1>2, <1>3, LinkingGoesOn
  <1>. QED
    BY <1>1, <1>2, <1>3, <1>4 DEF ParseInv, ParseIs, Complete

\* ... once the table is free, ...
LEMMA ParseByFreeing ==
    ASSUME Inv, Inv', ParseInv, Free \/ StartReading
    PROVE  ParseInv'
  <1>1. pc = "free" /\ UNCHANGED <<at, records, message, stamped>>
    BY DEF Free, FreeHead, StartReading, callVars
  <1>2. MessageInv /\ MessageInv' /\ ~stamped' /\ at' = 0
    BY <1>1 DEF ParseInv, ParseIs, MessageInv
  <1>3. CASE Free
    <2>1. pc' = "free"
      BY <1>1, <1>3 DEF Free, FreeHead
    <2>. QED
      BY <1>2, <2>1 DEF ParseInv, ParseIs, Complete
  <1>4. CASE StartReading
    <2>1. /\ pc' = "read" /\ ~in_audit' /\ table = NULL
          /\ UNCHANGED <<table, next, rec>>
      BY <1>4 DEF StartReading, ResetsInAudit, heapVars
    <2>2. Listed' = <<>>
      BY <2>1, ListedIs, ListedSame DEF Inv
    <2>3. BeforeAll'
      BY <1>2, <2>1, <2>2 DEF BeforeAll
    <2>. QED
      BY <1>2, <2>1, <2>2, <2>3 DEF ParseInv, ParseIs, Complete, Where
  <1>. QED
    BY <1>3, <1>4

\* ... and returns.
LEMMA ParseByReturn ==
    ASSUME Inv, Inv', ParseInv, EndOfMessage
    PROVE  ParseInv'
  <1>1. /\ pc = "read" /\ pc' = "idle" /\ at = Len(message)
        /\ UNCHANGED <<records, message, table, next, rec>>
    BY DEF EndOfMessage, Return, heapVars
  <1>2. MessageInv /\ MessageInv'
    BY <1>1 DEF ParseInv, ParseIs, MessageInv
  <1>3. Listed' = Listed
    BY <1>1, ListedSame DEF Inv
  <1>4. ASSUME Complete', AllUsable' PROVE ListsRecords'
    <2>1. AllUsable /\ message = Answer(records)
      BY <1>1, <1>4 DEF AllUsable, Count, Complete
    <2>2. AllButLastUsable
      <3>1. Count \in Nat
        BY <1>2 DEF MessageInv, Count
      <3>. QED
        BY <2>1, <3>1 DEF AllUsable, AllButLastUsable
    <2>3. ListsRecords
      BY <1>1, <1>2, <2>1, <2>2, AtTheEnd DEF ParseInv, ParseIs
    <2>. QED
      BY <1>1, <1>3, <2>3 DEF ListsRecords
  <1>. QED
    BY <1>1, <1>2, <1>4 DEF ParseInv, ParseIs

LEMMA ParseInit == Init => ParseInv
  <1>. SUFFICES ASSUME Init PROVE ParseInv
    OBVIOUS
  <1>1. pc = "idle" /\ records = <<>> /\ message = <<>> /\ ~stamped
    BY DEF Init, ListInit
  <1>2. MessageInv
    <2>1. 1..Len(message) = {}
      BY <1>1
    <2>. QED
      BY <1>1, <2>1 DEF MessageInv, NoAudits
  <1>. QED
    BY <1>1, <1>2 DEF ParseInv, ParseIs, Complete

LEMMA ParseNext == Inv /\ Inv' /\ ParseInv /\ [Next]_vars => ParseInv'
  <1>. SUFFICES ASSUME Inv, Inv', ParseInv, [Next]_vars PROVE ParseInv'
    OBVIOUS
  <1>1. CASE Populate
    BY <1>1, ParseByPopulate
  <1>2. CASE Free \/ StartReading
    BY <1>2, ParseByFreeing
  <1>3. CASE Reading
    BY <1>3, ParseByReading
  <1>4. CASE WalkOn \/ LinkEntry
    BY <1>4, ParseByLinking
  <1>5. CASE EndOfMessage
    BY <1>5, ParseByReturn
  <1>6. CASE UNCHANGED vars
    <2>1. /\ UNCHANGED <<pc, table, next, rec, used, entry, loop, prev>>
          /\ UNCHANGED <<in_audit, at, unset, records, message, stamped>>
      BY <1>6 DEF vars, listVars, heapVars, linkVars, callVars
    <2>2. Listed' = Listed
      BY <2>1, ListedSame DEF Inv
    <2>3. UNCHANGED <<MessageInv, Complete, AllUsable, AllButLastUsable, Mishap, ListsRecords>>
      BY <2>1, <2>2 DEF MessageInv, Complete, AllUsable, AllButLastUsable, Count, Mishap,
                        FirstHostIsHollow, ListsRecords
    <2>4. UNCHANGED Where
      BY <2>1, <2>2 DEF Where, BrokenOff, BeforeAll, Between, Within, Linking, PastAll,
                        BeyondUse, SortsFirst, HostInv, NoHost, Count
    <2>. QED
      BY <2>1, <2>2, <2>3, <2>4 DEF ParseInv, ParseIs
  <1>. QED
    BY <1>1, <1>2, <1>3, <1>4, <1>5, <1>6 DEF Next, Step, Reading

\* The invariant of the parse.
THEOREM ParseIsSomewhere == Spec => []ParseInv
  BY ParseInit, ParseNext, TableIsAList, PTL DEF Spec

\* The comment of lines 1821-1823 holds for the last record only: the parse comes to
\* grief without an entry, but never without a record before another whose index is
\* missing, or is swallowed by a hollow day; and over temp_value, but only if the
\* message's first remotehost is hollow, or its start is swallowed by a hollow day.
THEOREM AuditCrashes == Spec => []CrashesForAReason
  <1>1. ParseInv => CrashesForAReason
    BY DEF ParseInv, ParseIs, CrashesForAReason, AllButLastUsable, Usable, Count, Mishap, TagsOf
  <1>. QED
    BY <1>1, ParseIsSomewhere, PTL

\* An answer that is complete, and whose records all have an index and no hollow day, is
\* listed completely, by index, whatever became of the messages before it.
THEOREM AuditListed == Spec => []AllRecordsListed
  <1>1. ParseInv => AllRecordsListed
    <2>. SUFFICES ASSUME ParseInv, Complete,
                         \A n \in DOMAIN records : Indexed(records[n]) /\ ~HollowDay(records[n])
                  PROVE  ListsRecords
      BY DEF AllRecordsListed
    <2>1. DOMAIN records = 1..Count
      BY DEF ParseInv, ParseIs, MessageInv, Count
    <2>2. AllUsable
      BY <2>1 DEF AllUsable, Usable
    <2>. QED
      BY <2>2 DEF ParseInv, ParseIs
  <1>. QED
    BY <1>1, ParseIsSomewhere, PTL

=============================================================================

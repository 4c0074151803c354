-------------------------- MODULE DohAlertListProofs --------------------------
(***************************************************************************)
(* Proofs about DohAlertList: the alert table is a sound list whatever the *)
(* messages are and whatever flags they leave, no field of an entry is     *)
(* looked at where there is none, to its reader the logs are a sorted log, *)
(* and an answer that is complete is listed completely.                    *)
(***************************************************************************)
EXTENDS DohAlertList, DohLogListProofs

Values == 0..MaxValue

\* The tags of the elements inside a log, of an answer, and of a refusal.
InnerTags == {"component", "severity", "posted"} \cup Sections
AnswerTags == {"response", "alert", "trapOID", "log"} \cup InnerTags
RefusalTags == {"response", "error"}
AnyNodes == NodesOf(AnswerTags \cup RefusalTags, Values)

\* A field of a log comes after the log begins, and no log is empty.
Logged(s) ==
    /\ \A k \in 1..Len(s) : s[k].tag \in {"component", "severity", "posted"} =>
          \E j \in 1..(k - 1) : s[j].tag = "log"
    /\ \A k \in 1..Len(s) : s[k].tag = "log" => s[k].part # "empty"

\* The parts of an answer.
Answers == {s \in Seq(NodesOf(AnswerTags, Values)) : Logged(s)}

\* The entry that is in the making: only a call that runs has one.
Making == IF pc \in {"read", "link", "crashed"} THEN Unfinished ELSE {}

\* The walk to the entry's place in the list cs is at its k-th cell.
Walking(cs) == \E k : Place(cs, k, loop, prev, rec, entry)

\* The inductive invariant. A flag that an earlier call left finds no entry, but then
\* the parse has met no log, so none of its fields, and the table is empty.
FlagsOK ==
    /\ status \in {-2, -1, 0, 1}
    /\ in_alert \in BOOLEAN /\ in_log \in BOOLEAN
    /\ inside \subseteq Sections
    /\ found \in [alertID : Values, source : Values, SNMPtrapOID : Values]

CallInv ==
    /\ message \in Answers \cup Seq(NodesOf(RefusalTags, Values))
    /\ at \in 0..Len(message)
    /\ FlagsOK
    /\ pc = "free" => at = 0
    /\ pc = "link" => in_log /\ entry # NULL
    /\ pc = "read" /\ entry = NULL => table = NULL
    /\ pc = "read" /\ entry = NULL /\ in_log => \A j \in 1..at : message[j].tag # "log"

TableIs(cs) ==
    /\ Heap(cs, next, table, used, Making, leaked)
    /\ pc = "link" => Walking(cs)

Inv == ListTypeOK /\ CallInv /\ \E cs : TableIs(cs)

-----------------------------------------------------------------------------
(* The messages.                                                           *)

\* Parts of answers make up an answer, ...
LEMMA AnswersClosed ==
    <<>> \in Answers /\ \A a, b \in Answers : a \o b \in Answers
  <1>1. <<>> \in Answers
    <2>1. Len(<<>>) = 0 /\ <<>> \in Seq(NodesOf(AnswerTags, Values))
      OBVIOUS
    <2>2. Logged(<<>>)
      BY DEF Logged
    <2>. QED
      BY <2>1, <2>2 DEF Answers
  <1>2. ASSUME NEW a \in Answers, NEW b \in Answers PROVE a \o b \in Answers
    <2>. DEFINE S == NodesOf(AnswerTags, Values)
    <2>1. a \in Seq(S) /\ b \in Seq(S) /\ Logged(a) /\ Logged(b)
      BY DEF Answers
    <2>2. PICK m \in Nat : m = Len(a)
      BY <2>1
    <2>3. PICK n \in Nat : n = Len(b)
      BY <2>1
    <2>4. PICK c : c = a \o b
      OBVIOUS
    <2>. HIDE DEF S
    <2>5. /\ c \in Seq(S) /\ Len(c) = m + n
          /\ \A i \in 1..m : c[i] = a[i]
          /\ \A i \in 1..n : c[m + i] = b[i]
      <3>1. /\ c \in Seq(S) /\ Len(c) = Len(a) + Len(b)
            /\ \A i \in 1..(Len(a) + Len(b)) : c[i] = IF i <= Len(a) THEN a[i] ELSE b[i - Len(a)]
        BY <2>1, <2>4, ConcatProperties
      <3>2. ASSUME NEW i \in 1..m PROVE c[i] = a[i]
        BY <2>2, <2>3, <3>1
      <3>3. ASSUME NEW i \in 1..n PROVE c[m + i] = b[i]
        <4>1. m + i \in 1..(m + n) /\ ~(m + i <= m) /\ (m + i) - m = i
          OBVIOUS
        <4>. QED
          BY <2>2, <2>3, <3>1, <4>1
      <3>. QED
        BY <2>2, <2>3, <3>1, <3>2, <3>3
    <2>6. /\ \A k \in 1..m : a[k].tag \in {"component", "severity", "posted"} =>
               \E j \in 1..(k - 1) : a[j].tag = "log"
          /\ \A k \in 1..m : a[k].tag = "log" => a[k].part # "empty"
          /\ \A k \in 1..n : b[k].tag \in {"component", "severity", "posted"} =>
               \E j \in 1..(k - 1) : b[j].tag = "log"
          /\ \A k \in 1..n : b[k].tag = "log" => b[k].part # "empty"
      BY <2>1, <2>2, <2>3 DEF Logged
    <2>7. ASSUME NEW k \in 1..(m + n), c[k].tag \in {"component", "severity", "posted"}
          PROVE  \E j \in 1..(k - 1) : c[j].tag = "log"
      <3>1. CASE k \in 1..m
        <4>1. PICK j \in 1..(k - 1) : a[j].tag = "log"
          BY <2>5, <2>6, <2>7, <3>1
        <4>2. j \in 1..m
          BY <3>1
        <4>. QED
          BY <2>5, <4>1, <4>2
      <3>2. CASE ~(k \in 1..m)
        <4>1. PICK i \in 1..n : k = m + i
          <5>1. k - m \in 1..n /\ k = m + (k - m)
            BY <3>2
          <5>. QED
            BY <5>1
        <4>2. PICK j \in 1..(i - 1) : b[j].tag = "log"
          BY <2>5, <2>6, <2>7, <4>1
        <4>3. j \in 1..n /\ m + j \in 1..(k - 1)
          BY <4>1
        <4>. QED
          BY <2>5, <4>2, <4>3
      <3>. QED
        BY <3>1, <3>2
    <2>8. ASSUME NEW k \in 1..(m + n), c[k].tag = "log" PROVE c[k].part # "empty"
      <3>1. CASE k \in 1..m
        BY <2>5, <2>6, <2>8, <3>1
      <3>2. CASE ~(k \in 1..m)
        <4>1. k - m \in 1..n /\ k = m + (k - m)
          BY <3>2
        <4>. QED
          BY <2>5, <2>6, <2>8, <4>1
      <3>. QED
        BY <3>1, <3>2
    <2>9. Logged(c)
      BY <2>5, <2>7, <2>8 DEF Logged
    <2>. QED
      BY <2>4, <2>5, <2>9 DEF Answers, S
  <1>. QED
    BY <1>1, <1>2

\* ... an element of them too, ...
LEMMA ElementOfAnswers ==
    ASSUME NEW tag, tag \in {"response", "alert"}, NEW id, id \in Values,
           NEW parts, parts \in Seq(Answers)
    PROVE  Element(tag, id, parts) \in Answers
  <1>1. ASSUME NEW part, part \in {"start", "end"} PROVE <<Node(tag, part, id)>> \in Answers
    <2>1. PICK x : x = Node(tag, part, id)
      OBVIOUS
    <2>2. x \in NodesOf(AnswerTags, Values) /\ x.tag \notin {"component", "severity", "posted", "log"}
      BY <1>1, <2>1 DEF Node, NodesOf, AnswerTags
    <2>3. <<x>> \in Seq(NodesOf(AnswerTags, Values)) /\ Len(<<x>>) = 1 /\ <<x>>[1] = x
      BY <2>2
    <2>4. Logged(<<x>>)
      BY <2>2, <2>3 DEF Logged
    <2>. QED
      BY <2>1, <2>3, <2>4 DEF Answers
  <1>2. Answers \subseteq Seq(NodesOf(AnswerTags, Values))
    BY DEF Answers
  <1>3. FlattenSeq(parts) \in Answers
    BY <1>2, AnswersClosed, FlattenIn
  <1>4. <<Node(tag, "start", id)>> \o FlattenSeq(parts) \in Answers
    BY <1>1, <1>3, AnswersClosed
  <1>. QED
    BY <1>1, <1>4, AnswersClosed DEF Element

\* ... and so are a field outside the logs, ...
LEMMA OuterField ==
    ASSUME NEW value, value \in Content
    PROVE  Given("trapOID", value) \in Answers
  <1>. DEFINE S == NodesOf({"trapOID"}, Values)
  <1>1. 0 \in Values
    BY CellAssumption DEF Values
  <1>2. Given("trapOID", value) \in Seq(S)
    <2>1. CASE value = 0
      BY <2>1 DEF Given
    <2>2. CASE value # 0
      BY <1>1, <2>2, FieldIn DEF Given, Content, Values
    <2>. QED
      BY <2>1, <2>2
  <1>3. S \subseteq NodesOf(AnswerTags, Values) /\ \A x \in S : x.tag \in {"trapOID", "#text"}
    BY DEF NodesOf, AnswerTags
  <1>4. PICK s : s = Given("trapOID", value)
    OBVIOUS
  <1>. HIDE DEF S
  <1>5. \A k \in 1..Len(s) : s[k].tag \in {"trapOID", "#text"}
    BY <1>2, <1>3, <1>4
  <1>6. Logged(s)
    BY <1>5 DEF Logged
  <1>7. s \in Seq(NodesOf(AnswerTags, Values))
    BY <1>2, <1>3, <1>4, SeqMono
  <1>. QED
    BY <1>4, <1>6, <1>7 DEF Answers

\* ... and a log with all its fields.
LEMMA LogNodesIn ==
    ASSUME NEW l, l \in Logs
    PROVE  LogNodes(l) \in Answers
  <1>. DEFINE I == NodesOf(InnerTags, Values)
              S == NodesOf(AnswerTags, Values)
  <1>1. 0 \in Values
    BY CellAssumption DEF Values
  <1>2. /\ l.id \in Values /\ l.component \in Content /\ l.severity \in Content
        /\ l.posted \in Content /\ l.section \in Sections
    BY DEF Logs, Values
  <1>3. ASSUME NEW tag, tag \in InnerTags, NEW value, value \in Content
        PROVE  Given(tag, value) \in Seq(I)
    <2>1. CASE value = 0
      BY <2>1 DEF Given
    <2>2. CASE value # 0
      BY <1>1, <1>3, <2>2, FieldIn DEF Given, Content, Values
    <2>. QED
      BY <2>1, <2>2
  <1>4. I \subseteq S /\ \A x \in I : x.tag \in InnerTags \cup {"#text"}
    BY DEF NodesOf, AnswerTags
  <1>5. PICK W : W = Seq(I)
    OBVIOUS
  <1>6. PICK p : p = Given("posted", l.posted)
    OBVIOUS
  <1>7. p \in W
    BY <1>2, <1>3, <1>5, <1>6 DEF InnerTags
  <1>8. PICK q : q = Element(l.section, 0, <<p>>)
    OBVIOUS
  <1>9. q \in W
    <2>1. <<p>> \in Seq(W) /\ l.section \in InnerTags
      BY <1>2, <1>7 DEF InnerTags
    <2>. QED
      BY <1>1, <1>5, <1>8, <2>1, ElementIn
  <1>10. PICK c, v : c = Given("component", l.component) /\ v = Given("severity", l.severity)
    OBVIOUS
  <1>11. c \in W /\ v \in W
    BY <1>2, <1>3, <1>5, <1>10 DEF InnerTags
  <1>. HIDE DEF I
  <1>12. FlattenSeq(<<c, v, q>>) \in W
    <2>1. <<c, v, q>> \in Seq(W) /\ W \subseteq Seq(I) /\ <<>> \in W
      BY <1>5, <1>9, <1>11
    <2>2. \A a, b \in W : a \o b \in W
      BY <1>5
    <2>. QED
      BY <2>1, <2>2, FlattenIn
  <1>13. PICK m : m = FlattenSeq(<<c, v, q>>)
    OBVIOUS
  <1>14. m \in Seq(S) /\ \A k \in 1..Len(m) : m[k].tag \in InnerTags \cup {"#text"}
    <2>1. m \in Seq(I)
      BY <1>5, <1>12, <1>13
    <2>2. m \in Seq(S)
      <3>. HIDE DEF S
      <3>. QED
        BY <1>4, <2>1, SeqMono
    <2>. QED
      BY <1>4, <2>1, <2>2
  <1>15. PICK x : x = Node("log", "start", l.id)
    OBVIOUS
  <1>16. PICK y : y = Node("log", "end", l.id)
    OBVIOUS
  <1>17. x \in S /\ y \in S /\ x.tag = "log" /\ y.tag = "log" /\ x.part # "empty" /\ y.part # "empty"
    BY <1>2, <1>15, <1>16 DEF Node, NodesOf, AnswerTags
  <1>18. LogNodes(l) = <<x>> \o m \o <<y>>
    BY <1>6, <1>8, <1>10, <1>13, <1>15, <1>16 DEF LogNodes, Element
  <1>. HIDE DEF S
  <1>19. PICK n \in Nat : n = Len(m)
    BY <1>14
  <1>20. PICK s : s = <<x>> \o m \o <<y>>
    OBVIOUS
  <1>21. /\ s \in Seq(S) /\ Len(s) = n + 2
         /\ s[1] = x /\ s[n + 2] = y /\ \A k \in 1..n : s[k + 1] = m[k]
    <2>1. PICK u : u = <<x>> \o m
      OBVIOUS
    <2>2. u \in Seq(S) /\ Len(u) = n + 1 /\ u[1] = x /\ \A k \in 1..n : u[k + 1] = m[k]
      BY <1>14, <1>17, <1>19, <2>1
    <2>3. s = u \o <<y>>
      BY <1>20, <2>1
    <2>. QED
      BY <1>17, <2>2, <2>3
  <1>22. ASSUME NEW k \in 1..(n + 2), s[k].tag \in {"component", "severity", "posted"}
         PROVE  \E j \in 1..(k - 1) : s[j].tag = "log"
    <2>1. k # 1
      BY <1>17, <1>21, <1>22
    <2>2. 1 \in 1..(k - 1)
      BY <2>1
    <2>. QED
      BY <1>17, <1>21, <2>2
  <1>23. ASSUME NEW k \in 1..(n + 2), s[k].tag = "log" PROVE s[k].part # "empty"
    <2>1. CASE k = 1 \/ k = n + 2
      BY <1>17, <1>21, <2>1
    <2>2. CASE k # 1 /\ k # n + 2
      <3>1. k - 1 \in 1..n /\ (k - 1) + 1 = k
        BY <2>2
      <3>2. s[k].tag \in InnerTags \cup {"#text"}
        BY <1>14, <1>19, <1>21, <3>1
      <3>. QED
        BY <1>23, <3>2 DEF InnerTags, Sections
    <2>. QED
      BY <2>1, <2>2
  <1>24. Logged(s)
    BY <1>21, <1>22, <1>23 DEF Logged
  <1>. QED
    BY <1>18, <1>20, <1>21, <1>24 DEF Answers, S

\* The parts of an alert and of an answer are parts of answers, and so are these.
AlertParts(a) == <<Given("trapOID", a.trapOID)>> \o [n \in DOMAIN a.logs |-> LogNodes(a.logs[n])]
AnswerParts(al) == [n \in DOMAIN al |-> AlertNodes(al[n])]

LEMMA AlertNodesIn ==
    ASSUME NEW a, a \in Alerts
    PROVE  /\ a.id \in Values /\ a.trapOID \in Content /\ a.logs \in Seq(Logs)
           /\ AlertNodes(a) = Element("alert", a.id, AlertParts(a))
           /\ AlertParts(a) \in Seq(Answers)
           /\ Len(AlertParts(a)) = Len(a.logs) + 1
           /\ AlertParts(a)[1] = Given("trapOID", a.trapOID)
           /\ \A m \in 1..Len(a.logs) : AlertParts(a)[m + 1] = LogNodes(a.logs[m])
           /\ AlertNodes(a) \in Answers
  <1>1. PICK ls : ls = a.logs
    OBVIOUS
  <1>2. a.id \in Values /\ a.trapOID \in Content /\ ls \in Seq(Logs)
    <2>1. a \in [id : 0..MaxValue, trapOID : Content, logs : Seq(Logs)]
      BY AlertAssumption
    <2>2. PICK S : S = Seq(Logs)
      OBVIOUS
    <2>. QED
      BY <1>1, <2>1, <2>2 DEF Values
  <1>3. PICK outer : outer = [n \in DOMAIN ls |-> LogNodes(ls[n])]
    OBVIOUS
  <1>4. PICK N \in Nat : N = Len(ls)
    BY <1>2
  <1>5. outer \in Seq(Answers) /\ Len(outer) = N /\ \A n \in 1..N : outer[n] = LogNodes(ls[n])
    <2>1. DOMAIN ls = 1..N /\ \A n \in 1..N : ls[n] \in Logs
      BY <1>2, <1>4
    <2>2. \A n \in 1..N : LogNodes(ls[n]) \in Answers
      BY <2>1, LogNodesIn
    <2>. QED
      BY <1>3, <2>1, <2>2
  <1>6. PICK trap \in Answers : trap = Given("trapOID", a.trapOID)
    BY <1>2, OuterField
  <1>7. PICK parts : parts = <<trap>> \o outer
    OBVIOUS
  <1>8. /\ parts \in Seq(Answers) /\ Len(parts) = N + 1 /\ parts[1] = trap
        /\ \A n \in 1..N : parts[n + 1] = outer[n]
    BY <1>5, <1>6, <1>7
  <1>9. AlertParts(a) = parts
    BY <1>1, <1>3, <1>6, <1>7 DEF AlertParts
  <1>10. AlertNodes(a) = Element("alert", a.id, AlertParts(a))
    BY DEF AlertNodes, AlertParts
  <1>11. AlertNodes(a) \in Answers
    BY <1>2, <1>8, <1>9, <1>10, ElementOfAnswers
  <1>. QED
    BY <1>1, <1>2, <1>4, <1>5, <1>6, <1>8, <1>9, <1>10, <1>11

LEMMA AnswerIn ==
    ASSUME NEW al \in Seq(Alerts)
    PROVE  /\ Answer(al) = Element("response", 0, AnswerParts(al))
           /\ AnswerParts(al) \in Seq(Answers)
           /\ Len(AnswerParts(al)) = Len(al)
           /\ \A n \in 1..Len(al) : AnswerParts(al)[n] = AlertNodes(al[n])
           /\ Answer(al) \in Answers
  <1>1. PICK N \in Nat : N = Len(al)
    OBVIOUS
  <1>2. DOMAIN al = 1..N /\ \A n \in 1..N : al[n] \in Alerts
    BY <1>1
  <1>3. \A n \in 1..N : AlertNodes(al[n]) \in Answers
    BY <1>2, AlertNodesIn
  <1>4. AnswerParts(al) = [n \in 1..N |-> AlertNodes(al[n])]
    BY <1>2 DEF AnswerParts
  <1>5. AnswerParts(al) \in Seq(Answers) /\ Len(AnswerParts(al)) = N
    BY <1>3, <1>4
  <1>6. Answer(al) = Element("response", 0, AnswerParts(al))
    BY DEF Answer, AnswerParts
  <1>7. 0 \in Values
    BY CellAssumption DEF Values
  <1>. QED
    BY <1>1, <1>4, <1>5, <1>6, <1>7, ElementOfAnswers

\* Every message is an answer or a refusal, as far as it arrived.
LEMMA MessageIn ==
    ASSUME NEW m,
           \/ \E al \in Seq(Alerts) : m \in Prefixes(Answer(al))
           \/ \E text \in {LoginRequired, OtherError} : m \in Prefixes(Refusal(text))
    PROVE  m \in Answers \cup Seq(NodesOf(RefusalTags, Values))
  <1>1. 0 \in Values
    BY CellAssumption DEF Values
  <1>. DEFINE R == NodesOf(RefusalTags, Values)
  <1>2. ASSUME NEW text, text \in {LoginRequired, OtherError} PROVE Refusal(text) \in Seq(R)
    <2>1. text \in Values
      BY <1>2, CellAssumption, TagAssumption DEF Values, LoginRequired, OtherError, Blank
    <2>2. "error" \in RefusalTags /\ "response" \in RefusalTags
      BY DEF RefusalTags
    <2>3. Field("error", text) \in Seq(R)
      BY <1>1, <2>1, <2>2, FieldIn
    <2>4. PICK W : W = Seq(R)
      OBVIOUS
    <2>5. <<Field("error", text)>> \in Seq(W)
      BY <2>3, <2>4
    <2>. QED
      BY <1>1, <2>2, <2>4, <2>5, ElementIn DEF Refusal
  <1>3. CASE \E al \in Seq(Alerts) : m \in Prefixes(Answer(al))
    <2>1. PICK s : s \in Answers /\ m \in Prefixes(s)
      BY <1>3, AnswerIn
    <2>. DEFINE S == NodesOf(AnswerTags, Values)
    <2>2. s \in Seq(S) /\ Logged(s)
      BY <2>1 DEF Answers
    <2>. HIDE DEF S
    <2>3. m \in Seq(S) /\ Len(m) \in 0..Len(s) /\ \A i \in 1..Len(m) : m[i] = s[i]
      BY <2>1, <2>2, PrefixOf
    <2>4. PICK n \in Nat : n = Len(m)
      BY <2>3
    <2>5. ASSUME NEW k \in 1..n, m[k].tag \in {"component", "severity", "posted"}
          PROVE  \E j \in 1..(k - 1) : m[j].tag = "log"
      <3>1. k \in 1..Len(s) /\ m[k] = s[k]
        BY <2>2, <2>3, <2>4
      <3>2. PICK j \in 1..(k - 1) : s[j].tag = "log"
        BY <2>2, <2>5, <3>1 DEF Logged
      <3>3. j \in 1..n
        BY <2>4
      <3>4. m[j] = s[j]
        BY <2>3, <2>4, <3>3
      <3>. QED
        BY <3>2, <3>4
    <2>6. ASSUME NEW k \in 1..n, m[k].tag = "log" PROVE m[k].part # "empty"
      <3>1. k \in 1..Len(s) /\ m[k] = s[k]
        BY <2>2, <2>3, <2>4
      <3>. QED
        BY <2>2, <2>6, <3>1 DEF Logged
    <2>7. Logged(m)
      BY <2>4, <2>5, <2>6 DEF Logged
    <2>. QED
      BY <2>3, <2>7 DEF Answers, S
  <1>4. CASE \E text \in {LoginRequired, OtherError} : m \in Prefixes(Refusal(text))
    <2>1. PICK s : s \in Seq(R) /\ m \in Prefixes(s)
      BY <1>2, <1>4
    <2>. HIDE DEF R
    <2>2. m \in Seq(R)
      BY <2>1, PrefixOf
    <2>. QED
      BY <2>2 DEF R
  <1>. QED
    BY <1>3, <1>4

\* So a message that holds an error holds no log, and all its nodes have values.
LEMMA MessageNodes ==
    ASSUME NEW m, m \in Answers \cup Seq(NodesOf(RefusalTags, Values))
    PROVE  /\ m \in Seq(AnyNodes)
           /\ \/ Logged(m) /\ \A k \in 1..Len(m) : m[k].tag # "error"
              \/ \A k \in 1..Len(m) : m[k].tag \notin {"log", "component", "severity", "posted"}
  <1>. DEFINE S == NodesOf(AnswerTags, Values)
              R == NodesOf(RefusalTags, Values)
  <1>1. S \subseteq AnyNodes /\ R \subseteq AnyNodes
    BY DEF NodesOf, AnyNodes
  <1>2. \A x \in S : x.tag # "error"
    BY DEF NodesOf, AnswerTags, InnerTags, Sections
  <1>3. \A x \in R : x.tag \notin {"log", "component", "severity", "posted"}
    BY DEF NodesOf, RefusalTags
  <1>4. CASE m \in Answers
    <2>1. m \in Seq(S) /\ Logged(m)
      BY <1>4 DEF Answers
    <2>. HIDE DEF S, R
    <2>2. m \in Seq(AnyNodes)
      BY <1>1, <2>1, SeqMono
    <2>3. \A k \in 1..Len(m) : m[k] \in S
      BY <2>1
    <2>. QED
      BY <1>2, <2>1, <2>2, <2>3
  <1>5. CASE m \in Seq(R)
    <2>. HIDE DEF S, R
    <2>1. m \in Seq(AnyNodes)
      BY <1>1, <1>5, SeqMono
    <2>2. \A k \in 1..Len(m) : m[k] \in R
      BY <1>5
    <2>. QED
      BY <1>3, <2>1, <2>2
  <1>. QED
    BY <1>4, <1>5

-----------------------------------------------------------------------------
(* Each step keeps the table a list, and is one of the log or none.        *)

\* What the log shows of an entry.
IdRecords == [{"logID", "alertID"} -> 0..MaxValue]
Ids(rc) == [c \in Cells |-> [g \in {"logID", "alertID"} |-> rc[c][g]]]

\* It has the entry's key.
LEMMA IdsOf ==
    ASSUME NEW rc, rc \in [Cells -> Entries]
    PROVE  /\ Ids(rc) \in [Cells -> IdRecords]
           /\ \A c \in Cells : Key(Ids(rc)[c]) = Key(rc[c])
  <1>1. {"logID", "alertID"} \subseteq Tags /\ KeyTag = "logID"
    BY TagAssumption DEF AlertTags
  <1>2. ASSUME NEW c \in Cells PROVE [g \in {"logID", "alertID"} |-> rc[c][g]] \in IdRecords
    BY <1>1 DEF IdRecords, Entries
  <1>3. Ids(rc) \in [Cells -> IdRecords]
    <2>. HIDE DEF IdRecords
    <2>. QED
      BY <1>2 DEF Ids
  <1>. QED
    BY <1>1, <1>3 DEF Ids, Key

\* What a step leads to, when the table's list was cs.
Kept(cs) ==
    /\ ListTypeOK'
    /\ CallInv'
    /\ \E ds : TableIs(ds)' /\ LogStep(IdRecords, RecordsOf(cs, Ids(rec)), RecordsOf(ds, Ids(rec')))

\* A step that leaves the list alone, keeps its ids and does not walk along it.
LEMMA Aside ==
    ASSUME NEW cs, TableIs(cs), ListTypeOK', CallInv', UNCHANGED <<table, next, used>>,
           \A c \in CellsOf(cs) : Ids(rec')[c] = Ids(rec)[c],
           \/ Making' = Making /\ leaked' = leaked
           \/ Making' = {} /\ leaked' = leaked \cup Making,
           pc' # "link"
    PROVE  Kept(cs)
  <1>1. Heap(cs, next, table, used, Making, leaked)
    BY DEF TableIs
  <1>2. Heap(cs, next', table', used', Making', leaked')
    <2>1. Heap(cs, next, table, used, Making', leaked')
      BY <1>1, LeakStep
    <2>. QED
      BY <2>1
  <1>3. TableIs(cs)'
    BY <1>2 DEF TableIs
  <1>4. RecordsOf(cs, Ids(rec')) = RecordsOf(cs, Ids(rec))
    BY SameRecords
  <1>. QED
    BY <1>3, <1>4 DEF Kept, LogStep

\* The node at hand has a value; a log is not empty, a message with an error has no
\* log, and without a log before it there is no field of one.
LEMMA NodeAtHand ==
    ASSUME CallInv, at < Len(message)
    PROVE  /\ at \in Nat /\ at + 1 \in 1..Len(message) /\ message \in Seq(AnyNodes)
           /\ node.value \in Values
           /\ node.tag = "log" => node.part # "empty"
           /\ node.tag = "error" => \A k \in 1..Len(message) : message[k].tag # "log"
           /\ (\A j \in 1..at : message[j].tag # "log") => node.tag \notin {"component", "severity", "posted"}
  <1>1. /\ message \in Seq(AnyNodes)
        /\ \/ Logged(message) /\ \A k \in 1..Len(message) : message[k].tag # "error"
           \/ \A k \in 1..Len(message) : message[k].tag \notin {"log", "component", "severity", "posted"}
    BY MessageNodes DEF CallInv
  <1>2. PICK l \in Nat : l = Len(message)
    BY <1>1
  <1>3. at \in Nat /\ at + 1 \in 1..l /\ (at + 1) - 1 = at
    BY <1>2 DEF CallInv
  <1>4. node = message[at + 1] /\ node \in AnyNodes
    BY <1>1, <1>2, <1>3 DEF node
  <1>5. node.value \in Values
    BY <1>4 DEF AnyNodes, NodesOf
  <1>6. CASE Logged(message) /\ \A k \in 1..l : message[k].tag # "error"
    BY <1>1, <1>2, <1>3, <1>4, <1>5, <1>6 DEF Logged
  <1>7. CASE \A k \in 1..l : message[k].tag \notin {"log", "component", "severity", "posted"}
    BY <1>1, <1>2, <1>3, <1>4, <1>5, <1>7
  <1>. QED
    BY <1>1, <1>2, <1>6, <1>7

\* A call keeps the list of the last one, until it is freed.
LEMMA KeptByPopulate ==
    ASSUME ListTypeOK, CallInv, NEW cs, TableIs(cs), Populate
    PROVE  Kept(cs)
  <1>1. /\ pc = "idle" /\ pc' = "free" /\ at' = 0 /\ entry' = NULL /\ found' = NothingFound
        /\ UNCHANGED <<table, next, rec, used, loop, prev, in_alert, in_log, inside, status, leaked>>
    BY DEF Populate, heapVars, linkVars, flagVars
  <1>2. message' \in Answers \cup Seq(NodesOf(RefusalTags, Values))
    <2>1. CASE /\ alerts' \in BoundedSeq(Alerts, MaxAlerts - total)
               /\ message' \in Prefixes(Answer(alerts'))
      <3>1. alerts' \in Seq(Alerts)
        BY <2>1 DEF BoundedSeq, SeqOf
      <3>. QED
        BY <2>1, <3>1, MessageIn
    <2>2. CASE \E text \in {LoginRequired, OtherError} : message' \in Prefixes(Refusal(text))
      BY <2>2, MessageIn
    <2>. QED
      BY <2>1, <2>2 DEF Populate
  <1>3. ListTypeOK'
    BY <1>1 DEF ListTypeOK
  <1>4. FlagsOK'
    <2>1. NothingFound \in [alertID : Values, source : Values, SNMPtrapOID : Values]
      BY CellAssumption DEF NothingFound, Values, NULL
    <2>. QED
      BY <1>1, <2>1 DEF CallInv, FlagsOK
  <1>5. CallInv'
    <2>1. Len(message') \in Nat
      BY <1>2, MessageNodes
    <2>. QED
      BY <1>1, <1>2, <1>4, <2>1 DEF CallInv
  <1>6. Making = {} /\ Making' = {}
    BY <1>1 DEF Making
  <1>. QED
    BY <1>1, <1>3, <1>5, <1>6, Aside

\* Freeing the head leaves the tail.
LEMMA KeptByFree ==
    ASSUME ListTypeOK, CallInv, NEW cs, TableIs(cs), Free
    PROVE  Kept(cs)
  <1>1. /\ pc = "free" /\ FreeHead
        /\ UNCHANGED <<pc, flagVars, found, at, leaked, message, status>>
    BY DEF Free, FreeHead, callVars
  <1>2. Making = {} /\ Making' = {}
    BY <1>1 DEF Making
  <1>3. Heap(cs, next, table, used, {}, leaked)
    BY <1>2 DEF TableIs
  <1>4. /\ ListTypeOK'
        /\ cs # <<>>
        /\ Heap(Tail(cs), next', table', used', {}, leaked)
        /\ rec' = rec
    BY <1>1, <1>3, FreeHeadStep
  <1>5. TableIs(Tail(cs))'
    BY <1>1, <1>2, <1>4 DEF TableIs
  <1>6. cs \in Seq(Cells) /\ Ids(rec) \in [Cells -> IdRecords]
    BY <1>3, IdsOf DEF Heap, IsList, ListTypeOK
  <1>7. LogStep(IdRecords, RecordsOf(cs, Ids(rec)), RecordsOf(Tail(cs), Ids(rec')))
    BY <1>4, <1>6, TailLogStep
  <1>8. CallInv'
    BY <1>1 DEF CallInv, FlagsOK, flagVars
  <1>. QED
    BY <1>4, <1>5, <1>7, <1>8 DEF Kept

\* The parse begins at the first node: there is no entry in the making yet.
LEMMA KeptByStartReading ==
    ASSUME ListTypeOK, CallInv, NEW cs, TableIs(cs), StartReading
    PROVE  Kept(cs)
  <1>1. /\ pc = "free" /\ table = NULL /\ pc' = "read" /\ entry' = NULL /\ in_alert' = FALSE
        /\ UNCHANGED <<table, next, rec, used, loop, prev, in_log, inside, found, at, leaked,
                       message, status>>
    BY DEF StartReading, heapVars, linkVars, callVars
  <1>2. ListTypeOK'
    BY <1>1 DEF ListTypeOK
  <1>3. CallInv'
    <2>1. FlagsOK'
      BY <1>1 DEF CallInv, FlagsOK
    <2>2. at = 0 /\ at' = 0 /\ at \in 0..Len(message)
      BY <1>1 DEF CallInv
    <2>3. message' \in Answers \cup Seq(NodesOf(RefusalTags, Values)) /\ at' \in 0..Len(message')
      BY <1>1, <2>2 DEF CallInv
    <2>4. \A j \in 1..at' : FALSE
      BY <2>2
    <2>. QED
      BY <1>1, <2>1, <2>2, <2>3, <2>4 DEF CallInv
  <1>4. Making = {} /\ Making' = {}
    BY <1>1 DEF Making, Unfinished
  <1>. QED
    BY <1>1, <1>2, <1>3, <1>4, Aside

\* Where the parse ends, the entry in the making is lost; an error passed over
\* changes nothing.
LEMMA KeptByReturns ==
    ASSUME ListTypeOK, CallInv, NEW cs, TableIs(cs), EndOfMessage \/ ReadError
    PROVE  Kept(cs)
  <1>1. /\ pc = "read" /\ pc' \in {"idle", "read"}
        /\ UNCHANGED <<table, next, rec, used, entry, loop, prev, in_alert, in_log, inside, found,
                       message>>
    BY DEF EndOfMessage, ReadError, More, Return, heapVars, linkVars, flagVars
  <1>2. ListTypeOK'
    BY <1>1 DEF ListTypeOK
  <1>3. FlagsOK'
    <2>1. status' \in {-2, -1, 0, 1}
      BY DEF EndOfMessage, ReadError, Return, CallInv, FlagsOK
    <2>. QED
      BY <1>1, <2>1 DEF CallInv, FlagsOK
  <1>4. /\ at' \in 0..Len(message)
        /\ at' = at \/ \A k \in 1..Len(message) : message[k].tag # "log"
    <2>1. CASE at' = at
      BY <2>1 DEF CallInv
    <2>2. CASE More /\ Is("error") /\ at' = ErrorText.at
      <3>1. /\ message \in Seq(AnyNodes) /\ at + 1 \in 1..Len(message) /\ 0 \in Values
            /\ \A k \in 1..Len(message) : message[k].tag # "log"
        BY <2>2, NodeAtHand, CellAssumption DEF More, Is, Values
      <3>2. ErrorText.at \in (at + 1)..Len(message)
        BY <3>1, GetTagValueIn DEF ErrorText, AnyNodes
      <3>. QED
        BY <2>2, <3>1, <3>2
    <2>. QED
      BY <2>1, <2>2 DEF EndOfMessage, ReadError
  <1>5. CallInv'
    <2>1. ASSUME pc' = "read", entry' = NULL, in_log', NEW j \in 1..at' PROVE message'[j].tag # "log"
      <3>1. CASE at' = at
        BY <1>1, <2>1, <3>1 DEF CallInv
      <3>2. CASE \A k \in 1..Len(message) : message[k].tag # "log"
        <4>1. message \in Seq(AnyNodes)
          BY MessageNodes DEF CallInv
        <4>2. j \in 1..Len(message)
          BY <1>4, <2>1, <4>1
        <4>. QED
          BY <1>1, <3>2, <4>2
      <3>. QED
        BY <1>4, <3>1, <3>2
    <2>2. message' \in Answers \cup Seq(NodesOf(RefusalTags, Values)) /\ at' \in 0..Len(message')
      BY <1>1, <1>4 DEF CallInv
    <2>3. pc' = "read" /\ entry' = NULL => table' = NULL
      BY <1>1 DEF CallInv
    <2>. QED
      BY <1>1, <1>3, <2>1, <2>2, <2>3 DEF CallInv
  <1>6. \/ Making' = Making /\ leaked' = leaked
        \/ Making' = {} /\ leaked' = leaked \cup Making
    <2>1. CASE pc' = "idle" /\ leaked' = leaked \cup Unfinished
      BY <1>1, <2>1 DEF Making
    <2>2. CASE UNCHANGED <<pc, leaked>>
      BY <1>1, <2>2 DEF Making, Unfinished
    <2>. QED
      BY <2>1, <2>2 DEF EndOfMessage, ReadError, Return
  <1>. QED
    BY <1>1, <1>2, <1>5, <1>6, Aside

\* A node passed over, or taken for a flag, is no field of a log: with no log before
\* it and none at hand the parse has still met none.
LEMMA StillNoLog ==
    ASSUME CallInv, pc = "read", pc' = "read", at < Len(message), at' = at + 1,
           UNCHANGED <<message, entry, table>>, FlagsOK',
           in_log' => in_log /\ node.tag # "log"
    PROVE  CallInv'
  <1>1. PICK l \in Nat : l = Len(message)
    BY NodeAtHand
  <1>2. at \in Nat /\ at + 1 \in 1..l
    BY <1>1, NodeAtHand
  <1>3. message' \in Answers \cup Seq(NodesOf(RefusalTags, Values)) /\ at' \in 0..Len(message')
    <2>1. at' \in 0..l
      BY <1>2
    <2>. QED
      BY <1>1, <2>1 DEF CallInv
  <1>4. ASSUME entry' = NULL, in_log', NEW j \in 1..at' PROVE message'[j].tag # "log"
    <2>1. CASE j = at + 1
      BY <1>4, <2>1 DEF node
    <2>2. CASE j # at + 1
      <3>1. j \in 1..at
        BY <1>2, <2>2
      <3>. QED
        BY <1>4, <3>1 DEF CallInv
    <2>. QED
      BY <2>1, <2>2
  <1>. QED
    BY <1>3, <1>4 DEF CallInv

\* An alert that opens, a log that an earlier call left open, and a section change
\* flags only.
LEMMA KeptByFlags ==
    ASSUME ListTypeOK, CallInv, NEW cs, TableIs(cs), EnterAlert \/ LeaveNoLog \/ Toggle \/ Skip
    PROVE  Kept(cs)
  <1>1. /\ pc = "read" /\ pc' = "read" /\ at < Len(message) /\ at' = at + 1
        /\ UNCHANGED <<table, next, rec, used, entry, loop, prev, leaked, message, status>>
    BY DEF EnterAlert, LeaveNoLog, Toggle, Skip, More, listVars, heapVars, linkVars, callVars
  <1>2. ListTypeOK'
    BY <1>1 DEF ListTypeOK
  <1>3. /\ node.value \in Values
        /\ node.tag = "log" => node.part # "empty"
    BY <1>1, NodeAtHand
  <1>4. FlagsOK' /\ (in_log' => in_log /\ node.tag # "log") /\ (in_log' = in_log \/ entry = NULL)
    <2>1. CASE EnterAlert
      <3>1. /\ node.tag = "alert" /\ found' = [found EXCEPT !.alertID = node.value]
            /\ in_alert' = TRUE /\ UNCHANGED <<in_log, inside, status>>
        BY <2>1 DEF EnterAlert, Opens, Is, callVars
      <3>. QED
        BY <1>3, <3>1 DEF CallInv, FlagsOK
    <2>2. CASE LeaveNoLog
      <3>1. entry = NULL /\ in_log' = FALSE /\ UNCHANGED <<in_alert, inside, found, status>>
        BY <2>2 DEF LeaveNoLog, callVars
      <3>. QED
        BY <3>1 DEF CallInv, FlagsOK
    <2>3. CASE Toggle
      <3>1. PICK s \in Sections :
               /\ node.tag = s
               /\ inside' = IF s \in inside THEN inside \ {s} ELSE inside \cup {s}
        BY <2>3 DEF Toggle, Opens, Is
      <3>2. UNCHANGED <<in_alert, in_log, found, status>>
        BY <2>3 DEF Toggle, callVars
      <3>3. inside' \subseteq Sections /\ node.tag # "log"
        BY <3>1 DEF CallInv, FlagsOK, Sections
      <3>. QED
        BY <3>2, <3>3 DEF CallInv, FlagsOK
    <2>4. CASE Skip
      <3>1. UNCHANGED <<in_alert, in_log, inside, found, status>> /\ ~Named
        BY <2>4 DEF Skip, flagVars, callVars
      <3>2. node.tag # "log"
        BY <1>3, <3>1 DEF Named, Opens, Is
      <3>. QED
        BY <3>1, <3>2 DEF CallInv, FlagsOK
    <2>. QED
      BY <2>1, <2>2, <2>3, <2>4
  <1>5. CallInv'
    BY <1>1, <1>4, StillNoLog
  <1>6. Making' = Making
    BY <1>1, <1>4 DEF Making, Unfinished
  <1>. QED
    BY <1>1, <1>2, <1>5, <1>6, Aside

\* Leaving an alert gives a source to its entries, and no other id.
LEMMA KeptByLeaveAlert ==
    ASSUME ListTypeOK, CallInv, NEW cs, TableIs(cs), LeaveAlert
    PROVE  Kept(cs)
  <1>. DEFINE text == IF found.source # NULL THEN found.source ELSE Blank
              P(c) == found.alertID # NULL /\ c \in ListedCells /\ SourceOfAlert(rec[c])
  <1>1. /\ pc = "read" /\ pc' = "read" /\ at < Len(message) /\ at' = at + 1 /\ node.tag = "alert"
        /\ found' = NothingFound /\ in_alert' = FALSE
        /\ UNCHANGED <<table, next, used, entry, loop, prev, in_log, inside, leaked, message, status>>
        /\ rec' = [c \in Cells |-> IF P(c) THEN [rec[c] EXCEPT !["source"] = text] ELSE rec[c]]
    BY DEF LeaveAlert, More, Opens, Is, linkVars, callVars
  <1>2. text \in 0..MaxValue
    BY CellAssumption DEF CallInv, FlagsOK, Values, Blank
  <1>. HIDE DEF text, P
  <1>3. ASSUME NEW c \in Cells
        PROVE  /\ rec'[c] \in Entries
               /\ rec'[c]["logID"] = rec[c]["logID"] /\ rec'[c]["alertID"] = rec[c]["alertID"]
    <2>1. rec[c] \in [Tags -> 0..MaxValue] /\ {"logID", "alertID", "source"} \subseteq Tags
      BY TagAssumption DEF ListTypeOK, Entries, AlertTags
    <2>2. CASE P(c)
      <3>1. rec'[c] = [rec[c] EXCEPT !["source"] = text]
        BY <1>1, <2>2
      <3>. QED
        BY <1>2, <2>1, <3>1 DEF Entries
    <2>3. CASE ~P(c)
      BY <1>1, <2>1, <2>3 DEF Entries
    <2>. QED
      BY <2>2, <2>3
  <1>4. ListTypeOK'
    <2>1. rec' \in [Cells -> Entries]
      <3>1. rec' = [c \in Cells |-> rec'[c]]
        BY <1>1
      <3>. QED
        BY <1>3, <3>1
    <2>. QED
      BY <1>1, <2>1 DEF ListTypeOK
  <1>5. \A c \in Cells : Ids(rec')[c] = Ids(rec)[c]
    BY <1>3 DEF Ids
  <1>6. CallInv'
    <2>1. NothingFound \in [alertID : Values, source : Values, SNMPtrapOID : Values]
      BY CellAssumption DEF NothingFound, Values, NULL
    <2>2. FlagsOK'
      BY <1>1, <2>1 DEF CallInv, FlagsOK
    <2>. QED
      BY <1>1, <2>2, StillNoLog
  <1>7. Making' = Making
    BY <1>1 DEF Making, Unfinished
  <1>8. CellsOf(cs) \subseteq Cells
    BY ListIsShort DEF TableIs, Heap
  <1>. QED
    BY <1>1, <1>4, <1>5, <1>6, <1>7, <1>8, Aside

\* The entry of a log is a new cell, with the log's id and the alert's.
LEMMA KeptByEnterLog ==
    ASSUME ListTypeOK, CallInv, NEW cs, TableIs(cs), EnterLog
    PROVE  Kept(cs)
  <1>1. /\ pc = "read" /\ ~in_log /\ in_log' = TRUE /\ at < Len(message) /\ at' = at + 1
        /\ NewEntry(NewLog)
        /\ UNCHANGED <<pc, table, linkVars, in_alert, inside, found, leaked, message, status>>
    BY DEF EnterLog, More, callVars
  <1>2. Making = {}
    BY <1>1 DEF Making, Unfinished
  <1>3. Heap(cs, next, table, used, {}, leaked)
    BY <1>2 DEF TableIs
  <1>4. NewLog \in Entries
    <2>1. node.value \in 0..MaxValue /\ found.alertID \in 0..MaxValue /\ found.SNMPtrapOID \in 0..MaxValue
      BY <1>1, NodeAtHand DEF CallInv, FlagsOK, Values
    <2>2. Zeroed \in [Tags -> 0..MaxValue]
      BY CellAssumption DEF Zeroed, NULL
    <2>. QED
      BY <2>1, <2>2 DEF NewLog, Entries
  <1>5. /\ ListTypeOK'
        /\ entry' \in Cells
        /\ Heap(cs, next', table', used', {entry'}, leaked)
        /\ \A c \in CellsOf(cs) : rec'[c] = rec[c]
    BY <1>1, <1>3, <1>4, NewEntryStep
  <1>6. entry' # NULL /\ Making' = {entry'}
    BY <1>1, <1>5 DEF Making, Unfinished, Cells, NULL
  <1>7. TableIs(cs)'
    BY <1>1, <1>5, <1>6 DEF TableIs
  <1>8. RecordsOf(cs, Ids(rec')) = RecordsOf(cs, Ids(rec))
    <2>1. CellsOf(cs) \subseteq Cells
      BY <1>3, ListIsShort DEF Heap
    <2>2. \A c \in CellsOf(cs) : Ids(rec')[c] = Ids(rec)[c]
      BY <1>5, <2>1 DEF Ids
    <2>. QED
      BY <2>2, SameRecords
  <1>9. CallInv'
    <2>1. FlagsOK'
      BY <1>1 DEF CallInv, FlagsOK
    <2>2. at' \in 0..Len(message)
      <3>1. at \in Nat /\ at + 1 \in 1..Len(message)
        BY <1>1, NodeAtHand
      <3>. QED
        BY <1>1, <3>1
    <2>. QED
      BY <1>1, <1>6, <2>1, <2>2 DEF CallInv
  <1>. QED
    BY <1>5, <1>7, <1>8, <1>9 DEF Kept, LogStep

\* The walk begins at the head of the list.
LEMMA KeptByLeaveLog ==
    ASSUME ListTypeOK, CallInv, NEW cs, TableIs(cs), LeaveLog
    PROVE  Kept(cs)
  <1>1. /\ pc = "read" /\ in_log /\ entry # NULL /\ at < Len(message) /\ at' = at + 1
        /\ pc' = "link" /\ loop' = table /\ prev' = NULL
        /\ UNCHANGED <<table, next, rec, used, entry, in_alert, in_log, inside, found, leaked,
                       message, status>>
    BY DEF LeaveLog, More, StartLink, heapVars, flagVars, callVars
  <1>2. Making' = Making
    BY <1>1 DEF Making, Unfinished
  <1>3. Heap(cs, next', table', used', Making', leaked')
    BY <1>1, <1>2 DEF TableIs
  <1>4. Place(cs, 1, table, NULL, rec, entry)
    BY WalkBegins DEF TableIs, Heap
  <1>5. TableIs(cs)'
    BY <1>1, <1>3, <1>4 DEF TableIs, Walking
  <1>6. ListTypeOK'
    BY <1>1 DEF ListTypeOK
  <1>7. CallInv'
    <2>1. FlagsOK'
      BY <1>1 DEF CallInv, FlagsOK
    <2>2. at' \in 0..Len(message)
      <3>1. at \in Nat /\ at + 1 \in 1..Len(message)
        BY <1>1, NodeAtHand
      <3>. QED
        BY <1>1, <3>1
    <2>. QED
      BY <1>1, <2>1, <2>2 DEF CallInv
  <1>. QED
    BY <1>1, <1>5, <1>6, <1>7 DEF Kept, LogStep

\* The walk goes on where the entry's id is not less.
LEMMA KeptByWalkOn ==
    ASSUME ListTypeOK, CallInv, NEW cs, TableIs(cs), WalkOn
    PROVE  Kept(cs)
  <1>1. /\ pc = "link" /\ Walk /\ loop # NULL /\ prev' = loop /\ loop' = next[loop]
        /\ UNCHANGED <<pc, table, next, rec, used, entry, in_alert, in_log, inside, found, at, leaked,
                       message, status>>
    BY DEF WalkOn, Walk, heapVars, flagVars, callVars
  <1>2. Making' = Making
    BY <1>1 DEF Making, Unfinished
  <1>3. Heap(cs, next', table', used', Making', leaked')
    BY <1>1, <1>2 DEF TableIs
  <1>4. PICK k : Place(cs, k, loop, prev, rec, entry)
    BY <1>1 DEF TableIs, Walking
  <1>5. entry \in Cells /\ IsList(cs, next, table)
    BY <1>1 DEF CallInv, ListTypeOK, TableIs, Heap
  <1>6. Place(cs, k + 1, loop', prev', rec, entry)
    BY <1>1, <1>4, <1>5, WalkStep
  <1>7. TableIs(cs)'
    BY <1>1, <1>3, <1>6 DEF TableIs, Walking
  <1>8. ListTypeOK'
    <2>1. next[loop] \in Cells \cup {NULL}
      BY <1>1 DEF ListTypeOK
    <2>. QED
      BY <1>1, <2>1 DEF ListTypeOK
  <1>9. CallInv'
    BY <1>1 DEF CallInv, FlagsOK
  <1>. QED
    BY <1>1, <1>7, <1>8, <1>9 DEF Kept, LogStep

\* Linking the entry in is an insertion of the log.
LEMMA KeptByLinkEntry ==
    ASSUME ListTypeOK, CallInv, NEW cs, TableIs(cs), LinkEntry
    PROVE  Kept(cs)
  <1>1. /\ pc = "link" /\ pc' = "read" /\ Link /\ in_log' = FALSE
        /\ UNCHANGED <<entry, in_alert, inside, found, at, leaked, message, status>>
    BY DEF LinkEntry, Link, LinkFirst, LinkBefore, LinkLast, callVars
  <1>2. in_log /\ entry # NULL /\ entry \in Cells
    BY <1>1 DEF CallInv, ListTypeOK
  <1>3. Making = {entry} /\ Making' = {}
    BY <1>1, <1>2 DEF Making, Unfinished
  <1>4. Heap(cs, next, table, used, {entry}, leaked)
    BY <1>3 DEF TableIs
  <1>5. PICK k : Place(cs, k, loop, prev, rec, entry)
    BY <1>1 DEF TableIs, Walking
  <1>6. /\ ListTypeOK'
        /\ k - 1 \in 0..Len(cs)
        /\ Heap(Inserted(cs, k - 1, entry), next', table', used', {}, leaked)
        /\ \A m \in 1..(k - 1) : Key(rec[cs[m]]) <= Key(rec[entry])
        /\ k - 1 < Len(cs) => Key(rec[cs[(k - 1) + 1]]) > Key(rec[entry])
        /\ rec' = rec
    BY <1>1, <1>2, <1>4, <1>5, LinkHeapStep
  <1>. PICK ds : ds = Inserted(cs, k - 1, entry)
    OBVIOUS
  <1>7. TableIs(ds)'
    BY <1>1, <1>3, <1>6 DEF TableIs
  <1>8. /\ cs \in Seq(Cells) /\ Ids(rec) \in [Cells -> IdRecords]
        /\ \A c \in Cells : Key(Ids(rec)[c]) = Key(rec[c])
    BY <1>4, IdsOf DEF Heap, IsList, ListTypeOK
  <1>9. /\ \A m \in 1..(k - 1) : Key(Ids(rec)[cs[m]]) <= Key(Ids(rec)[entry])
        /\ k - 1 < Len(cs) => Key(Ids(rec)[cs[(k - 1) + 1]]) > Key(Ids(rec)[entry])
    <2>1. PICK l \in Nat : l = Len(cs)
      BY <1>8
    <2>2. k - 1 \in 0..l /\ \A i \in 1..l : cs[i] \in Cells
      BY <1>6, <1>8, <2>1
    <2>3. ASSUME NEW m \in 1..(k - 1) PROVE cs[m] \in Cells
      <3>1. m \in 1..l
        BY <2>2
      <3>. QED
        BY <2>2, <3>1
    <2>4. k - 1 < l => cs[(k - 1) + 1] \in Cells
      <3>1. k - 1 < l => (k - 1) + 1 \in 1..l
        BY <2>2
      <3>. QED
        BY <2>2, <3>1
    <2>. QED
      BY <1>2, <1>6, <1>8, <2>1, <2>3, <2>4
  <1>10. LogStep(IdRecords, RecordsOf(cs, Ids(rec)), RecordsOf(ds, Ids(rec)))
    BY <1>2, <1>6, <1>8, <1>9, LinkLogStep
  <1>11. CallInv'
    BY <1>1, <1>2 DEF CallInv, FlagsOK
  <1>. QED
    BY <1>6, <1>7, <1>10, <1>11 DEF Kept

\* What a text gives is a value of an entry.
LEMMA TextsIn == \A text \in Values : Sent(text) \in Values /\ Number(text) \in Values
  BY CellAssumption, TagAssumption DEF Sent, Number, Values, Blank

\* A field is written to the entry in the making, which the list does not have, or
\* to found.
LEMMA KeptByFields ==
    ASSUME ListTypeOK, CallInv, NEW cs, TableIs(cs),
           ReadPosted \/ ReadSeverity \/ ReadComponent \/ ReadTrapOID
    PROVE  Kept(cs)
  <1>1. /\ pc = "read" /\ at < Len(message)
        /\ UNCHANGED <<pc, table, next, used, entry, loop, prev, in_alert, in_log, inside, leaked,
                       message, status>>
        /\ entry # NULL \/ ~in_log
    BY DEF ReadPosted, ReadSeverity, OpensPosted, OpensSeverity, ReadTemp, ReadComponent, ReadTrapOID,
           More, InLog, listVars, heapVars, linkVars, flagVars, callVars
  <1>2. /\ message \in Seq(AnyNodes) /\ at \in Nat /\ at + 1 \in 1..Len(message) /\ 0 \in Values
        /\ Blank \in Values
    BY <1>1, NodeAtHand, CellAssumption DEF Values, Blank
  <1>3. ASSUME NEW tag, NEW old, old \in Values
        PROVE  /\ GetTagValue(message, at + 1, tag, old).at \in 0..Len(message)
               /\ GetTagValue(message, at + 1, tag, old).value \in Values
    <2>1. /\ GetTagValue(message, at + 1, tag, old).at \in (at + 1)..Len(message)
          /\ GetTagValue(message, at + 1, tag, old).value \in Values \cup {old}
      BY <1>2, GetTagValueIn DEF AnyNodes
    <2>. QED
      BY <1>2, <1>3, <2>1
  <1>4. /\ at' \in 0..Len(message)
        /\ found' \in [alertID : Values, source : Values, SNMPtrapOID : Values]
        /\ rec' = rec \/ /\ entry # NULL /\ in_log
                         /\ \E g \in Tags, v \in Values : rec' = [rec EXCEPT ![entry][g] = v]
    <2>1. found \in [alertID : Values, source : Values, SNMPtrapOID : Values]
      BY DEF CallInv, FlagsOK
    <2>2. at + 1 \in 0..Len(message)
      BY <1>2
    <2>3. CASE ReadPosted \/ ReadSeverity
      <3>1. PICK field, value :
               /\ ReadTemp(field, value) /\ in_log
               /\ field \in {Section, "severity"}
               /\ value \in {Sent(TempText.value), Number(TempText.value)}
        BY <2>3 DEF ReadPosted, ReadSeverity, OpensPosted, OpensSeverity, InLog
      <3>2. TempText.at \in 0..Len(message) /\ TempText.value \in Values
        BY <1>2, <1>3 DEF TempText, NULL
      <3>3. /\ entry # NULL /\ at' = TempText.at /\ UNCHANGED found
            /\ rec' = rec \/ rec' = [rec EXCEPT ![entry][field] = value]
        BY <3>1 DEF ReadTemp
      <3>4. field \in Tags
        BY <3>1, TagAssumption DEF Section, AlertTags, Sections
      <3>5. value \in Values
        BY <3>1, <3>2, TextsIn
      <3>. QED
        BY <2>1, <3>1, <3>2, <3>3, <3>4, <3>5
    <2>4. CASE ReadComponent
      <3>1. "source" \in Tags
        BY TagAssumption DEF AlertTags
      <3>2. entry # NULL /\ in_log
        BY <2>4 DEF ReadComponent, InLog
      <3>3. CASE node.part = "empty"
        <4>1. /\ rec' = [rec EXCEPT ![entry]["source"] = Blank] /\ at' = at + 1 /\ UNCHANGED found
          BY <2>4, <3>3 DEF ReadComponent
        <4>. QED
          BY <1>2, <2>1, <2>2, <3>1, <3>2, <4>1
      <3>4. CASE node.part # "empty"
        <4>1. rec[entry].source \in Values
          BY <3>1, <3>2 DEF ListTypeOK, Entries, Values
        <4>2. PICK got : got = GetTagValue(message, at + 1, "component", rec[entry].source)
          OBVIOUS
        <4>3. got.at \in 0..Len(message) /\ got.value \in Values
          BY <1>3, <4>1, <4>2
        <4>4. /\ rec' = [rec EXCEPT ![entry]["source"] = got.value]
              /\ found' = [found EXCEPT !.source = got.value] /\ at' = got.at
          BY <2>4, <3>4, <4>2 DEF ReadComponent
        <4>. QED
          BY <2>1, <3>1, <3>2, <4>3, <4>4
      <3>. QED
        BY <3>3, <3>4
    <2>5. CASE ReadTrapOID
      <3>1. rec' = rec
        BY <2>5 DEF ReadTrapOID, listVars, heapVars
      <3>2. CASE node.part = "empty"
        <4>1. found' = [found EXCEPT !.SNMPtrapOID = Blank] /\ at' = at + 1
          BY <2>5, <3>2 DEF ReadTrapOID
        <4>. QED
          BY <1>2, <2>1, <2>2, <3>1, <4>1
      <3>3. CASE node.part # "empty"
        <4>1. PICK got : got = GetTagValue(message, at + 1, "trapOID", found.SNMPtrapOID)
          OBVIOUS
        <4>2. got.at \in 0..Len(message) /\ got.value \in Values
          BY <1>3, <2>1, <4>1
        <4>3. found' = [found EXCEPT !.SNMPtrapOID = got.value] /\ at' = got.at
          BY <2>5, <3>3, <4>1 DEF ReadTrapOID
        <4>. QED
          BY <2>1, <3>1, <4>2, <4>3
      <3>. QED
        BY <3>2, <3>3
    <2>. QED
      BY <2>3, <2>4, <2>5
  <1>5. CallInv'
    <2>1. FlagsOK'
      BY <1>1, <1>4 DEF CallInv, FlagsOK
    <2>. QED
      BY <1>1, <1>4, <2>1 DEF CallInv
  <1>6. Making' = Making
    BY <1>1 DEF Making, Unfinished
  <1>7. CASE rec' = rec
    <2>1. ListTypeOK'
      BY <1>1, <1>7 DEF ListTypeOK
    <2>. QED
      BY <1>1, <1>5, <1>6, <1>7, <2>1, Aside
  <1>8. CASE /\ entry # NULL /\ in_log
             /\ \E g \in Tags, v \in Values : rec' = [rec EXCEPT ![entry][g] = v]
    <2>1. PICK g \in Tags, v \in Values : rec' = [rec EXCEPT ![entry][g] = v]
      BY <1>8
    <2>2. entry \in Cells /\ Making = {entry}
      BY <1>1, <1>8 DEF ListTypeOK, Making, Unfinished
    <2>3. rec' \in [Cells -> Entries]
      BY <2>1, <2>2 DEF ListTypeOK, Entries, Values
    <2>4. ListTypeOK'
      BY <1>1, <2>3 DEF ListTypeOK
    <2>5. CellsOf(cs) \subseteq Cells /\ entry \notin CellsOf(cs)
      <3>1. Heap(cs, next, table, used, {entry}, leaked)
        BY <2>2 DEF TableIs
      <3>. QED
        BY <3>1, ListIsShort DEF Heap
    <2>6. \A c \in CellsOf(cs) : rec'[c] = rec[c]
      BY <2>1, <2>5 DEF ListTypeOK
    <2>7. \A c \in CellsOf(cs) : Ids(rec')[c] = Ids(rec)[c]
      BY <2>5, <2>6 DEF Ids
    <2>. QED
      BY <1>1, <1>5, <1>6, <2>4, <2>7, Aside
  <1>. QED
    BY <1>4, <1>7, <1>8

\* A crash leaves the table as it is.
LEMMA KeptByCrash ==
    ASSUME ListTypeOK, CallInv, NEW cs, TableIs(cs), Crash
    PROVE  Kept(cs)
  <1>1. /\ pc = "read" /\ pc' = "crashed"
        /\ UNCHANGED <<table, next, rec, used, entry, loop, prev, in_alert, in_log, inside, found, at,
                       leaked, message, status>>
    BY DEF Crash, More, heapVars, linkVars, flagVars, callVars
  <1>2. ListTypeOK'
    BY <1>1 DEF ListTypeOK
  <1>3. CallInv'
    BY <1>1 DEF CallInv, FlagsOK
  <1>4. Making' = Making
    BY <1>1 DEF Making, Unfinished
  <1>. QED
    BY <1>1, <1>2, <1>3, <1>4, Aside

-----------------------------------------------------------------------------
(* The theorems.                                                           *)

\* The invariant holds to begin with.
LEMMA InitInv == Init => Inv
  <1>. SUFFICES ASSUME Init PROVE Inv
    OBVIOUS
  <1>1. /\ pc = "idle" /\ table = NULL /\ used = {} /\ entry = NULL /\ loop = NULL /\ prev = NULL
        /\ next = [c \in Cells |-> NULL] /\ rec = [c \in Cells |-> Zeroed]
        /\ in_alert = FALSE /\ in_log = FALSE /\ inside = {} /\ found = NothingFound
        /\ message = <<>> /\ at = 0 /\ status = 0 /\ leaked = {}
    BY DEF Init, ListInit
  <1>2. ListTypeOK
    <2>1. Zeroed \in Entries
      BY CellAssumption DEF Zeroed, Entries, NULL
    <2>. QED
      BY <1>1, <2>1 DEF ListTypeOK
  <1>3. CallInv
    <2>1. FlagsOK
      <3>1. NothingFound \in [alertID : Values, source : Values, SNMPtrapOID : Values]
        BY CellAssumption DEF NothingFound, Values, NULL
      <3>. QED
        BY <1>1, <3>1 DEF FlagsOK
    <2>2. message \in Answers
      BY <1>1, AnswersClosed
    <2>3. at \in 0..Len(message)
      <3>1. Len(message) = 0 /\ 0 \in 0..0
        BY <1>1
      <3>. QED
        BY <1>1, <3>1
    <2>4. pc # "free" /\ pc # "link" /\ pc # "read"
      BY <1>1
    <2>. QED
      BY <2>1, <2>2, <2>3, <2>4 DEF CallInv
  <1>4. Making = {}
    BY <1>1 DEF Making
  <1>5. IsList(<<>>, next, NULL) /\ CellsOf(<<>>) = {}
    BY EmptyList
  <1>6. Heap(<<>>, next, table, used, Making, leaked)
    BY <1>1, <1>4, <1>5 DEF Heap
  <1>7. TableIs(<<>>)
    BY <1>1, <1>6 DEF TableIs
  <1>. QED
    BY <1>2, <1>3, <1>7 DEF Inv

\* Every step keeps it, and is a step of the log or none.
LEMMA NextKeeps ==
    ASSUME ListTypeOK, CallInv, NEW cs, TableIs(cs), Next
    PROVE  Kept(cs)
  <1>1. CASE Populate
    BY <1>1, KeptByPopulate
  <1>2. CASE Free
    BY <1>2, KeptByFree
  <1>3. CASE StartReading
    BY <1>3, KeptByStartReading
  <1>4. CASE EndOfMessage \/ ReadError
    BY <1>4, KeptByReturns
  <1>5. CASE EnterAlert \/ LeaveNoLog \/ Toggle \/ Skip
    BY <1>5, KeptByFlags
  <1>6. CASE LeaveAlert
    BY <1>6, KeptByLeaveAlert
  <1>7. CASE EnterLog
    BY <1>7, KeptByEnterLog
  <1>8. CASE LeaveLog
    BY <1>8, KeptByLeaveLog
  <1>9. CASE WalkOn
    BY <1>9, KeptByWalkOn
  <1>10. CASE LinkEntry
    BY <1>10, KeptByLinkEntry
  <1>11. CASE ReadPosted \/ ReadSeverity \/ ReadComponent \/ ReadTrapOID
    BY <1>11, KeptByFields
  <1>12. CASE Crash
    BY <1>12, KeptByCrash
  <1>. QED
    BY <1>1, <1>2, <1>3, <1>4, <1>5, <1>6, <1>7, <1>8, <1>9, <1>10, <1>11, <1>12 DEF Next, Step

\* A step that changes nothing keeps it too.
LEMMA InvInductive == Inv /\ [Next]_vars => Inv'
  <1>. SUFFICES ASSUME Inv, [Next]_vars PROVE Inv'
    OBVIOUS
  <1>1. PICK cs : TableIs(cs)
    BY DEF Inv
  <1>2. ListTypeOK /\ CallInv
    BY DEF Inv
  <1>3. CASE Next
    <2>1. Kept(cs)
      BY <1>1, <1>2, <1>3, NextKeeps
    <2>. QED
      BY <2>1 DEF Kept, Inv
  <1>4. CASE UNCHANGED vars
    <2>1. /\ UNCHANGED <<pc, table, next, rec, used, entry, loop, prev>>
          /\ UNCHANGED <<in_alert, in_log, inside, found, at, leaked, message, status>>
      BY <1>4 DEF vars, listVars, heapVars, linkVars, flagVars, callVars
    <2>2. ListTypeOK'
      BY <1>2, <2>1 DEF ListTypeOK
    <2>3. CallInv'
      BY <1>2, <2>1 DEF CallInv, FlagsOK
    <2>4. TableIs(cs)'
      BY <1>1, <2>1 DEF TableIs, Making, Unfinished, Walking
    <2>. QED
      BY <2>2, <2>3, <2>4 DEF Inv
  <1>. QED
    BY <1>3, <1>4

\* It is an invariant.
THEOREM TableIsAList == Spec => []Inv
  BY InitInv, InvInductive, PTL DEF Spec

UnsetIsFlag == unset \in BOOLEAN
LEMMA FlagStays == Spec => []UnsetIsFlag
  <1>1. Init => UnsetIsFlag
    BY DEF Init, UnsetIsFlag
  <1>2. UnsetIsFlag /\ [Next]_vars => UnsetIsFlag'
    BY DEF UnsetIsFlag, Next, Step, vars, callVars, Populate, Free, StartReading, EndOfMessage, ReadError,
           EnterAlert, LeaveAlert, EnterLog, LeaveLog, LeaveNoLog, WalkOn, LinkEntry, Toggle,
           ReadTemp, ReadPosted, ReadSeverity, Crash, ReadComponent, ReadTrapOID, Skip
  <1>. QED
    BY <1>1, <1>2, PTL DEF Spec

\* Populating the alert table neither links, loses nor reads a cell it should not,
\* and looks at no field of an entry that is not there, whatever the messages are,
\* wherever they break off, and whatever flags they leave to the next call.
THEOREM AlertMemory == Spec => []MemoryIsSound
  <1>1. Inv /\ UnsetIsFlag => MemoryIsSound
    <2>. SUFFICES ASSUME Inv, unset \in BOOLEAN PROVE MemoryIsSound
      BY DEF UnsetIsFlag
    <2>1. PICK cs : TableIs(cs)
      BY DEF Inv
    <2>2. ListTypeOK /\ CallInv /\ FlagsOK
      BY DEF Inv, CallInv
    <2>3. Heap(cs, next, table, used, Making, leaked)
      BY <2>1 DEF TableIs
    <2>4. /\ IsList(cs, next, table)
          /\ used = CellsOf(cs) \cup Making \cup leaked
          /\ leaked \subseteq Cells /\ Making \cap CellsOf(cs) = {}
      BY <2>3 DEF Heap
    <2>5. pc = "link" => entry \in Making
      BY <2>2 DEF CallInv, Making, Unfinished
    <2>6. TypeOK
      <3>1. ASSUME pc = "link"
            PROVE  /\ (prev = NULL) <=> (loop = table)
                   /\ prev # NULL => next[prev] = loop
        <4>1. PICK k : Place(cs, k, loop, prev, rec, entry)
          BY <2>1, <3>1 DEF TableIs, Walking
        <4>. QED
          BY <2>4, <4>1, PlaceIsLinked
      <3>. QED
        BY <2>2, <2>4, <3>1 DEF TypeOK, CallInv, FlagsOK, Values
    <2>7. ListIsSound
      BY <2>2, <2>4, <2>5, SoundList
    <2>8. NothingElseLeaks
      <3>1. ListedCells = CellsOf(cs)
        BY <2>2, <2>4, ListingIs
      <3>. QED
        BY <2>4, <3>1 DEF NothingElseLeaks, Making
    <2>9. EntryIsThere
      <3>. SUFFICES ASSUME More, in_log, entry = NULL,
                           (Opens("log") /\ table # NULL) \/ (~Named /\ InLog /\ Reads)
                    PROVE  FALSE
        BY DEF EntryIsThere
      <3>1. /\ pc = "read" /\ at < Len(message) /\ table = NULL
            /\ \A j \in 1..at : message[j].tag # "log"
        BY <2>2 DEF More, CallInv
      <3>2. node.tag \notin {"component", "severity", "posted"}
        BY <2>2, <3>1, NodeAtHand
      <3>3. ~Reads
        BY <3>2 DEF Reads, OpensPosted, OpensSeverity, InLog, Opens, Is
      <3>. QED
        BY <3>1, <3>3
    <2>. QED
      BY <2>6, <2>7, <2>8, <2>9 DEF MemoryIsSound
  <1>. QED
    BY <1>1, TableIsAList, FlagStays, PTL

\* What the log shows of a list whose cells are known.
LEMMA LogIdsAre ==
    ASSUME ListTypeOK, NEW cs, IsList(cs, next, table)
    PROVE  LogIds = RecordsOf(cs, Ids(rec))
  <1>1. Listed = RecordsOf(cs, rec)
    BY ListingIs
  <1>2. DOMAIN Listed = DOMAIN cs /\ \A k \in DOMAIN cs : Listed[k] = rec[cs[k]] /\ cs[k] \in Cells
    BY <1>1 DEF RecordsOf, IsList
  <1>3. LogIds = [k \in DOMAIN cs |-> [g \in {"logID", "alertID"} |-> rec[cs[k]][g]]]
    BY <1>2 DEF LogIds
  <1>. QED
    BY <1>2, <1>3 DEF RecordsOf, Ids

\* (the same after a step)
LEMMA LogIdsAreNext ==
    ASSUME ListTypeOK', NEW cs, IsList(cs, next', table')
    PROVE  LogIds' = RecordsOf(cs, Ids(rec'))
  <1>1. Listed' = RecordsOf(cs, rec')
    BY ListingIsNext
  <1>2. /\ DOMAIN Listed' = DOMAIN cs
        /\ \A k \in DOMAIN cs : Listed'[k] = rec'[cs[k]] /\ cs[k] \in Cells
    BY <1>1 DEF RecordsOf, IsList
  <1>3. LogIds' = [k \in DOMAIN cs |-> [g \in {"logID", "alertID"} |-> rec'[cs[k]][g]]]
    BY <1>2 DEF LogIds
  <1>. QED
    BY <1>2, <1>3 DEF RecordsOf, Ids

\* The alert table implements a sorted log: whatever the messages are, a log goes to
\* its place, after its equals, keeps its id and its alert's, and leaves the table
\* when that is emptied from the front.
THEOREM AlertLog == Spec => KeepsLog
  <1>1. Init => Log!Init
    <2>. SUFFICES ASSUME Init PROVE Log!Init
      OBVIOUS
    <2>1. Inv /\ table = NULL
      BY InitInv DEF Init, ListInit
    <2>2. PICK cs : TableIs(cs)
      BY <2>1 DEF Inv
    <2>3. IsList(cs, next, table) /\ ListTypeOK
      BY <2>1, <2>2 DEF TableIs, Heap, Inv
    <2>4. cs = <<>>
      BY <2>1, <2>3, EmptyIsNull
    <2>5. LogIds = RecordsOf(<<>>, Ids(rec))
      BY <2>3, <2>4, LogIdsAre
    <2>6. RecordsOf(<<>>, Ids(rec)) = <<>>
      BY DEF RecordsOf
    <2>. QED
      BY <2>5, <2>6 DEF Log!Init
  <1>2. Inv /\ [Next]_vars => [Log!Next]_LogIds
    <2>. SUFFICES ASSUME Inv, [Next]_vars PROVE [Log!Next]_LogIds
      OBVIOUS
    <2>1. PICK cs : TableIs(cs)
      BY DEF Inv
    <2>2. ListTypeOK /\ CallInv /\ IsList(cs, next, table)
      BY <2>1 DEF Inv, TableIs, Heap
    <2>3. LogIds = RecordsOf(cs, Ids(rec))
      BY <2>2, LogIdsAre
    <2>4. CASE Next
      <3>1. Kept(cs)
        BY <2>1, <2>2, <2>4, NextKeeps
      <3>2. PICK ds : /\ TableIs(ds)'
                      /\ LogStep(IdRecords, RecordsOf(cs, Ids(rec)), RecordsOf(ds, Ids(rec')))
        BY <3>1 DEF Kept
      <3>3. ListTypeOK' /\ IsList(ds, next', table')
        BY <3>1, <3>2 DEF Kept, TableIs, Heap
      <3>4. LogIds' = RecordsOf(ds, Ids(rec'))
        BY <3>3, LogIdsAreNext
      <3>5. LogStep(IdRecords, LogIds, LogIds')
        BY <2>3, <3>2, <3>4
      <3>. QED
        BY <3>5 DEF LogStep, IdRecords, Inserted, Log!Next, Log!Insert, Log!InsertAt, Log!Drop
    <2>5. CASE UNCHANGED vars
      <3>1. UNCHANGED <<table, next, rec>>
        BY <2>5 DEF vars, listVars, heapVars
      <3>2. UNCHANGED ListTypeOK
        BY <2>5 DEF vars, listVars, heapVars, linkVars, ListTypeOK
      <3>3. LogIds' = RecordsOf(cs, Ids(rec'))
        BY <2>2, <3>1, <3>2, LogIdsAreNext
      <3>. QED
        BY <2>3, <3>1, <3>3
    <2>. QED
      BY <2>4, <2>5
  <1>. QED
    BY <1>1, <1>2, TableIsAList, PTL DEF Spec, KeepsLog, Log!Spec


-----------------------------------------------------------------------------
(* Where the nodes of an answer are.                                       *)

Nodes == NodesOf(AnswerTags, Values)

LogParts(l) == <<Given("component", l.component), Given("severity", l.severity),
                 Element(l.section, 0, <<Given("posted", l.posted)>>)>>

\* The nodes of an answer al before its n-th alert, before the m-th log of that, and
\* in that before its severity, its section and the end of its section.
AlertAt(al, n) == 1 + Offset(AnswerParts(al), n - 1)
LogAt(al, n, m) == AlertAt(al, n) + 1 + Offset(AlertParts(al[n]), m)
SeverityAt(al, n, m) == LogAt(al, n, m) + 1 + Len(Given("component", al[n].logs[m].component))
SectionAt(al, n, m) == SeverityAt(al, n, m) + Len(Given("severity", al[n].logs[m].severity))
EndAt(al, n, m) == SectionAt(al, n, m) + 1 + Len(Given("posted", al[n].logs[m].posted))

LEMMA PartsIn == \A ps : ps \in Seq(Answers) => ps \in Seq(Seq(Nodes))
  <1>1. Answers \subseteq Seq(Nodes)
    BY DEF Answers, Nodes
  <1>. QED
    BY <1>1, SeqMono

\* An element lies in m from o on, with L nodes in its N parts.
Spans(m, o, tag, id, parts, N, L) ==
    /\ L \in Nat
    /\ m[o + 1] = Node(tag, "start", id)
    /\ m[o + 2 + L] = Node(tag, "end", id)
    /\ Len(Element(tag, id, parts)) = L + 2
    /\ Offset(parts, 0) = 0 /\ Offset(parts, N) = L
    /\ \A k \in 0..N : Offset(parts, k) \in 0..L
    /\ \A k \in 1..N :
          /\ Offset(parts, k) = Offset(parts, k - 1) + Len(parts[k])
          /\ Len(parts[k]) \in Nat
          /\ Lies(m, o + 1 + Offset(parts, k - 1), parts[k])

LEMMA ElementSpans ==
    ASSUME NEW tag \in AnswerTags, NEW id \in Values, NEW parts \in Seq(Seq(Nodes)),
           NEW m, NEW o \in Nat, Lies(m, o, Element(tag, id, parts))
    PROVE  Spans(m, o, tag, id, parts, Len(parts), Offset(parts, Len(parts)))
  <1>1. Node(tag, "start", id) \in Nodes /\ Node(tag, "end", id) \in Nodes
    BY DEF Node, Nodes, NodesOf
  <1>. HIDE DEF Nodes
  <1>2. Lies(m, o, Element(tag, id, parts)) /\ o \in Nat /\ parts \in Seq(Seq(Nodes))
    OBVIOUS
  <1>3. /\ m[o + 1] = Node(tag, "start", id)
        /\ m[o + 2 + Offset(parts, Len(parts))] = Node(tag, "end", id)
        /\ Len(Element(tag, id, parts)) = Offset(parts, Len(parts)) + 2
        /\ Offset(parts, 0) = 0
        /\ \A k \in 0..Len(parts) : Offset(parts, k) \in 0..Offset(parts, Len(parts))
        /\ \A k \in 1..Len(parts) :
              /\ Offset(parts, k) = Offset(parts, k - 1) + Len(parts[k])
              /\ Lies(m, o + 1 + Offset(parts, k - 1), parts[k])
    BY ONLY <1>1, <1>2, ElementLies
  <1>4. \A k \in 1..Len(parts) : Len(parts[k]) \in Nat
    <2>1. \A k \in 1..Len(parts) : parts[k] \in Seq(Nodes)
      OBVIOUS
    <2>. QED
      BY <2>1
  <1>5. Offset(parts, Len(parts)) \in Nat
    <2>1. Offset(parts, Len(parts)) = Len(FlattenSeq(parts)) /\ FlattenSeq(parts) \in Seq(Nodes)
      BY ONLY <1>2, FlattenPlaces
    <2>. QED
      BY <2>1
  <1>. QED
    BY <1>3, <1>4, <1>5 DEF Spans

\* The alerts of an answer lie between its ends, one after the other.
LEMMA AlertPlaces ==
    ASSUME NEW al \in Seq(Alerts)
    PROVE  /\ Len(Answer(al)) \in Nat
           /\ Answer(al)[1] = Node("response", "start", 0)
           /\ Answer(al)[Len(Answer(al))] = Node("response", "end", 0)
           /\ AlertAt(al, 1) = 1
           /\ AlertAt(al, Len(al) + 1) + 1 = Len(Answer(al))
           /\ \A n \in 1..(Len(al) + 1) : AlertAt(al, n) \in 1..(Len(Answer(al)) - 1)
           /\ \A n \in 1..Len(al) :
                 /\ Lies(Answer(al), AlertAt(al, n), AlertNodes(al[n]))
                 /\ AlertAt(al, n + 1) = AlertAt(al, n) + Len(AlertNodes(al[n]))
  <1>1. PICK N \in Nat : N = Len(al)
    OBVIOUS
  <1>2. PICK ps : ps = AnswerParts(al)
    OBVIOUS
  <1>3. PICK A : A = Answer(al)
    OBVIOUS
  <1>4. /\ A = Element("response", 0, ps) /\ ps \in Seq(Seq(Nodes)) /\ Len(ps) = N
        /\ \A n \in 1..N : ps[n] = AlertNodes(al[n])
    BY <1>1, <1>2, <1>3, AnswerIn, PartsIn
  <1>5. "response" \in AnswerTags /\ 0 \in Values /\ 0 \in Nat
    BY CellAssumption DEF AnswerTags, Values
  <1>6. Lies(A, 0, A)
    BY DEF Lies
  <1>. HIDE DEF Nodes
  <1>7. PICK L : L = Offset(ps, N)
    OBVIOUS
  <1>8. /\ L \in Nat
        /\ A[0 + 1] = Node("response", "start", 0)
        /\ A[0 + 2 + L] = Node("response", "end", 0)
        /\ Len(A) = L + 2
        /\ Offset(ps, 0) = 0
        /\ \A k \in 0..N : Offset(ps, k) \in 0..L
        /\ \A k \in 1..N :
              /\ Offset(ps, k) = Offset(ps, k - 1) + Len(ps[k])
              /\ Len(ps[k]) \in Nat
              /\ Lies(A, 0 + 1 + Offset(ps, k - 1), ps[k])
    <2>1. Lies(A, 0, Element("response", 0, ps))
      BY <1>4, <1>6
    <2>2. Spans(A, 0, "response", 0, ps, Len(ps), Offset(ps, Len(ps)))
      BY <1>4, <1>5, <2>1, ElementSpans
    <2>. QED
      BY <1>4, <1>7, <2>2 DEF Spans
  <1>9. L \in Nat
    BY <1>8
  <1>10. Len(A) \in Nat /\ A[1] = Node("response", "start", 0) /\ A[Len(A)] = Node("response", "end", 0)
    BY <1>8, <1>9
  <1>11. \A n \in 1..(N + 1) : n - 1 \in 0..N /\ AlertAt(al, n) = 1 + Offset(ps, n - 1)
    BY <1>2 DEF AlertAt
  <1>12. AlertAt(al, 1) = 1 /\ AlertAt(al, N + 1) + 1 = Len(A)
    <2>1. 1 - 1 = 0 /\ (N + 1) - 1 = N /\ 1 \in 1..(N + 1) /\ N + 1 \in 1..(N + 1)
      OBVIOUS
    <2>2. AlertAt(al, 1) = 1 + Offset(ps, 0) /\ AlertAt(al, N + 1) = 1 + Offset(ps, N)
      BY <1>11, <2>1
    <2>. QED
      BY <1>7, <1>8, <1>9, <2>2
  <1>13. ASSUME NEW n \in 1..(N + 1) PROVE AlertAt(al, n) \in 1..(Len(A) - 1)
    <2>1. Offset(ps, n - 1) \in 0..L
      BY <1>8, <1>11
    <2>. QED
      BY <1>8, <1>9, <1>11, <2>1
  <1>14. ASSUME NEW n \in 1..N
         PROVE  /\ Lies(A, AlertAt(al, n), AlertNodes(al[n]))
                /\ AlertAt(al, n + 1) = AlertAt(al, n) + Len(AlertNodes(al[n]))
    <2>1. n \in 1..(N + 1) /\ n + 1 \in 1..(N + 1) /\ (n + 1) - 1 = n /\ n - 1 \in 0..N
      OBVIOUS
    <2>2. AlertAt(al, n) = 1 + Offset(ps, n - 1) /\ AlertAt(al, n + 1) = 1 + Offset(ps, n)
      BY <1>11, <2>1
    <2>3. PICK o \in 0..L : o = Offset(ps, n - 1)
      BY <1>8, <2>1
    <2>4. 0 + 1 + Offset(ps, n - 1) = AlertAt(al, n)
      BY <2>2, <2>3
    <2>5. Lies(A, AlertAt(al, n), AlertNodes(al[n]))
      BY <1>4, <1>8, <2>4
    <2>6. Len(AlertNodes(al[n])) \in Nat
      <3>1. ps[n] \in Seq(Nodes)
        BY <1>4
      <3>. QED
        BY <1>4, <3>1
    <2>7. Offset(ps, n) = o + Len(AlertNodes(al[n]))
      BY <1>4, <1>8, <2>3
    <2>. QED
      BY <2>2, <2>3, <2>5, <2>6, <2>7
  <1>. QED
    BY <1>1, <1>3, <1>10, <1>12, <1>13, <1>14

\* The trap and the logs of an alert lie between its ends.
LEMMA LogPlaces ==
    ASSUME NEW al \in Seq(Alerts), NEW n \in 1..Len(al), NEW a, a = al[n]
    PROVE  /\ AlertAt(al, n) \in Nat
           /\ Answer(al)[AlertAt(al, n) + 1] = Node("alert", "start", a.id)
           /\ Lies(Answer(al), AlertAt(al, n) + 1, Given("trapOID", a.trapOID))
           /\ LogAt(al, n, 1) = AlertAt(al, n) + 1 + Len(Given("trapOID", a.trapOID))
           /\ Answer(al)[LogAt(al, n, Len(a.logs) + 1) + 1] = Node("alert", "end", a.id)
           /\ AlertAt(al, n + 1) = LogAt(al, n, Len(a.logs) + 1) + 1
           /\ \A m \in 1..(Len(a.logs) + 1) :
                 /\ LogAt(al, n, m) \in Nat
                 /\ AlertAt(al, n) < LogAt(al, n, m)
                 /\ LogAt(al, n, m) < Len(Answer(al)) - 1
           /\ \A m \in 1..Len(a.logs) :
                 /\ Lies(Answer(al), LogAt(al, n, m), LogNodes(a.logs[m]))
                 /\ LogAt(al, n, m + 1) = LogAt(al, n, m) + Len(LogNodes(a.logs[m]))
  <1>1. PICK A : A = Answer(al)
    OBVIOUS
  <1>2. PICK p : p = AlertAt(al, n)
    OBVIOUS
  <1>3. PICK q : q = AlertAt(al, n + 1)
    OBVIOUS
  <1>4. /\ a \in Alerts /\ Len(A) \in Nat /\ p \in Nat /\ q \in 1..(Len(A) - 1)
        /\ Lies(A, p, AlertNodes(a)) /\ q = p + Len(AlertNodes(a))
    <2>1. n \in 1..(Len(al) + 1) /\ n + 1 \in 1..(Len(al) + 1) /\ al[n] \in Alerts
      OBVIOUS
    <2>2. al \in Seq(Alerts) /\ n \in 1..Len(al)
      OBVIOUS
    <2>3. /\ Len(A) \in Nat /\ p \in 1..(Len(A) - 1) /\ q \in 1..(Len(A) - 1)
          /\ Lies(A, p, AlertNodes(al[n])) /\ q = p + Len(AlertNodes(al[n]))
      BY ONLY <1>1, <1>2, <1>3, <2>1, <2>2, AlertPlaces
    <2>. QED
      BY <2>1, <2>3
  <1>5. PICK ps : ps = AlertParts(a)
    OBVIOUS
  <1>6. PICK M \in Nat : M = Len(a.logs)
    <2>1. PICK ls : ls = a.logs
      OBVIOUS
    <2>2. ls \in Seq(Logs)
      BY <1>4, <2>1, AlertNodesIn
    <2>3. Len(ls) \in Nat
      BY ONLY <2>2
    <2>. QED
      BY <2>1, <2>3
  <1>7. /\ a.id \in Values /\ AlertNodes(a) = Element("alert", a.id, ps)
        /\ ps \in Seq(Seq(Nodes)) /\ Len(ps) = M + 1
        /\ ps[1] = Given("trapOID", a.trapOID)
        /\ \A m \in 1..M : ps[m + 1] = LogNodes(a.logs[m])
    BY <1>4, <1>5, <1>6, AlertNodesIn, PartsIn
  <1>8. "alert" \in AnswerTags /\ M + 1 \in Nat
    BY DEF AnswerTags
  <1>. HIDE DEF Nodes
  <1>9. PICK L : L = Offset(ps, M + 1)
    OBVIOUS
  <1>10. /\ L \in Nat
         /\ A[p + 1] = Node("alert", "start", a.id)
         /\ A[p + 2 + L] = Node("alert", "end", a.id)
         /\ Len(AlertNodes(a)) = L + 2
         /\ Offset(ps, 0) = 0
         /\ \A k \in 0..(M + 1) : Offset(ps, k) \in 0..L
         /\ \A k \in 1..(M + 1) :
               /\ Offset(ps, k) = Offset(ps, k - 1) + Len(ps[k])
               /\ Len(ps[k]) \in Nat
               /\ Lies(A, p + 1 + Offset(ps, k - 1), ps[k])
    <2>1. Lies(A, p, Element("alert", a.id, ps))
      BY <1>4, <1>7
    <2>2. Spans(A, p, "alert", a.id, ps, Len(ps), Offset(ps, Len(ps)))
      BY <1>4, <1>7, <1>8, <2>1, ElementSpans
    <2>. QED
      BY <1>7, <1>9, <2>2 DEF Spans
  <1>11. L \in Nat
    BY <1>10
  <1>12. \A m \in 1..(M + 1) : LogAt(al, n, m) = p + 1 + Offset(ps, m) /\ m \in 0..(M + 1)
    BY <1>2, <1>5 DEF LogAt
  <1>13. \A k \in 1..(M + 1) : Len(ps[k]) \in Nat
    BY <1>10
  <1>14. /\ LogAt(al, n, 1) = p + 1 + Len(Given("trapOID", a.trapOID))
         /\ Lies(A, p + 1, Given("trapOID", a.trapOID))
    <2>1. 1 \in 1..(M + 1) /\ 1 - 1 = 0
      OBVIOUS
    <2>2. Offset(ps, 1) = 0 + Len(ps[1]) /\ Lies(A, p + 1 + 0, ps[1]) /\ Len(ps[1]) \in Nat
      BY <1>10, <1>13, <2>1
    <2>3. p + 1 + 0 = p + 1 /\ 0 + Len(ps[1]) = Len(ps[1])
      BY <1>4, <2>2
    <2>4. LogAt(al, n, 1) = p + 1 + Offset(ps, 1)
      BY <1>12, <2>1
    <2>. QED
      BY <1>7, <2>2, <2>3, <2>4
  <1>15. /\ A[LogAt(al, n, M + 1) + 1] = Node("alert", "end", a.id)
         /\ q = LogAt(al, n, M + 1) + 1
    <2>1. M + 1 \in 1..(M + 1)
      OBVIOUS
    <2>2. LogAt(al, n, M + 1) = p + 1 + L
      BY <1>9, <1>12, <2>1
    <2>3. (p + 1 + L) + 1 = p + 2 + L /\ p + (L + 2) = (p + 1 + L) + 1
      BY <1>4, <1>11
    <2>. QED
      BY <1>4, <1>10, <2>2, <2>3
  <1>16. ASSUME NEW m \in 1..(M + 1)
         PROVE  LogAt(al, n, m) \in Nat /\ p < LogAt(al, n, m) /\ LogAt(al, n, m) < Len(A) - 1
    <2>1. PICK o \in 0..L : o = Offset(ps, m)
      BY <1>10, <1>12
    <2>2. LogAt(al, n, m) = p + 1 + o
      BY <1>12, <2>1
    <2>3. q = p + (L + 2)
      BY <1>4, <1>10
    <2>. QED
      BY <1>4, <1>11, <2>1, <2>2, <2>3, SMTT(30)
  <1>17. ASSUME NEW m \in 1..M
         PROVE  /\ Lies(A, LogAt(al, n, m), LogNodes(a.logs[m]))
                /\ LogAt(al, n, m + 1) = LogAt(al, n, m) + Len(LogNodes(a.logs[m]))
    <2>1. m + 1 \in 1..(M + 1) /\ (m + 1) - 1 = m /\ m \in 1..(M + 1)
      OBVIOUS
    <2>2. /\ Offset(ps, m + 1) = Offset(ps, m) + Len(LogNodes(a.logs[m]))
          /\ Lies(A, p + 1 + Offset(ps, m), LogNodes(a.logs[m]))
          /\ Len(LogNodes(a.logs[m])) \in Nat
      BY <1>7, <1>10, <1>13, <2>1
    <2>3. PICK o \in 0..L : o = Offset(ps, m)
      BY <1>10, <1>12, <2>1
    <2>. QED
      BY <1>4, <1>12, <2>1, <2>2, <2>3
  <1>. QED
    BY <1>1, <1>2, <1>3, <1>4, <1>6, <1>10, <1>14, <1>15, <1>16, <1>17

\* The component, the severity and the section of a log lie between its ends.
LEMMA SectionPlaces ==
    ASSUME NEW al \in Seq(Alerts), NEW n \in 1..Len(al), NEW m \in 1..Len(al[n].logs),
           NEW l, l = al[n].logs[m]
    PROVE  /\ l \in Logs
           /\ LogAt(al, n, m) \in Nat /\ SectionAt(al, n, m) \in Nat /\ EndAt(al, n, m) \in Nat
           /\ SeverityAt(al, n, m) \in Nat /\ LogAt(al, n, m) < SeverityAt(al, n, m)
           /\ SeverityAt(al, n, m) <= SectionAt(al, n, m) /\ SectionAt(al, n, m) < EndAt(al, n, m)
           /\ LogAt(al, n, m + 1) = EndAt(al, n, m) + 2
           /\ LogAt(al, n, m + 1) < Len(Answer(al))
           /\ Answer(al)[LogAt(al, n, m) + 1] = Node("log", "start", l.id)
           /\ Lies(Answer(al), LogAt(al, n, m) + 1, Given("component", l.component))
           /\ Lies(Answer(al), SeverityAt(al, n, m), Given("severity", l.severity))
           /\ Answer(al)[SectionAt(al, n, m) + 1] = Node(l.section, "start", 0)
           /\ Lies(Answer(al), SectionAt(al, n, m) + 1, Given("posted", l.posted))
           /\ Answer(al)[EndAt(al, n, m) + 1] = Node(l.section, "end", 0)
           /\ Answer(al)[EndAt(al, n, m) + 2] = Node("log", "end", l.id)
  <1>1. PICK A : A = Answer(al)
    OBVIOUS
  <1>2. PICK a : a = al[n]
    OBVIOUS
  <1>3. PICK o : o = LogAt(al, n, m)
    OBVIOUS
  <1>4. a \in Alerts
    BY <1>2
  <1>5. l \in Logs /\ Len(a.logs) \in Nat /\ m \in 1..Len(a.logs)
    <2>1. PICK ls : ls = a.logs
      OBVIOUS
    <2>2. ls \in Seq(Logs)
      BY <1>4, <2>1, AlertNodesIn
    <2>. HIDE DEF Logs
    <2>. QED
      BY <1>2, <2>1, <2>2
  <1>6. /\ o \in Nat /\ Lies(A, o, LogNodes(l)) /\ LogAt(al, n, m + 1) = o + Len(LogNodes(l))
        /\ LogAt(al, n, m + 1) < Len(A)
    <2>1. m \in 1..(Len(a.logs) + 1) /\ m + 1 \in 1..(Len(a.logs) + 1)
      BY <1>5
    <2>2. Len(A) \in Nat
      BY <1>1, AlertPlaces
    <2>3. LogAt(al, n, m + 1) \in Nat /\ LogAt(al, n, m + 1) < Len(A) - 1
      BY <1>1, <1>2, <2>1, LogPlaces
    <2>4. o \in Nat
      BY <1>2, <1>3, <2>1, LogPlaces
    <2>5. Lies(A, o, LogNodes(l)) /\ LogAt(al, n, m + 1) = o + Len(LogNodes(l))
      BY <1>1, <1>2, <1>3, <1>5, LogPlaces
    <2>. QED
      BY <2>2, <2>3, <2>4, <2>5
  <1>7. /\ l.id \in Values /\ l.component \in Content /\ l.severity \in Content
        /\ l.posted \in Content /\ l.section \in Sections /\ 0 \in Values
    BY <1>5, CellAssumption DEF Logs, Values
  <1>8. "log" \in AnswerTags /\ l.section \in AnswerTags
    BY <1>7 DEF AnswerTags, InnerTags
  <1>9. Node(l.section, "start", 0) \in Nodes /\ Node(l.section, "end", 0) \in Nodes
    BY <1>7, <1>8 DEF Node, Nodes, NodesOf
  <1>10. ASSUME NEW tag \in {"component", "severity", "posted"}, NEW value \in Content
         PROVE  Given(tag, value) \in Seq(Nodes)
    <2>1. CASE value = 0
      BY <2>1 DEF Given
    <2>2. CASE value # 0
      <3>1. tag \in AnswerTags /\ value \in Values \cup {SelfClosed, Hollow}
        BY DEF AnswerTags, InnerTags, Content, Values
      <3>. HIDE DEF AnswerTags, Values
      <3>. QED
        BY <1>7, <2>2, <3>1, FieldIn DEF Given, Nodes
    <2>. QED
      BY <2>1, <2>2
  <1>. HIDE DEF Nodes
  <1>11. PICK c \in Seq(Nodes) : c = Given("component", l.component)
    BY <1>7, <1>10
  <1>12. PICK v \in Seq(Nodes) : v = Given("severity", l.severity)
    BY <1>7, <1>10
  <1>13. PICK t \in Seq(Nodes) : t = Given("posted", l.posted)
    BY <1>7, <1>10
  <1>14. PICK ts : ts = <<t>>
    OBVIOUS
  <1>15. ts \in Seq(Seq(Nodes)) /\ Len(ts) = 1 /\ ts[1] = t
    BY <1>14
  <1>16. PICK s : s = Element(l.section, 0, ts)
    OBVIOUS
  <1>17. s \in Seq(Nodes)
    BY <1>15, <1>16, <1>9, ElementIs
  <1>18. PICK ps : ps = <<c, v, s>>
    OBVIOUS
  <1>19. ps \in Seq(Seq(Nodes)) /\ Len(ps) = 3 /\ ps[1] = c /\ ps[2] = v /\ ps[3] = s
    BY <1>17, <1>18
  <1>20. LogNodes(l) = Element("log", l.id, ps)
    BY <1>11, <1>12, <1>13, <1>14, <1>16, <1>18 DEF LogNodes
  <1>21. PICK C \in Nat : C = Len(c)
    OBVIOUS
  <1>22. PICK V \in Nat : V = Len(v)
    OBVIOUS
  <1>23. PICK T \in Nat : T = Len(t)
    OBVIOUS
  <1>24. /\ SeverityAt(al, n, m) = o + 1 + C /\ SectionAt(al, n, m) = (o + 1 + C) + V
         /\ EndAt(al, n, m) = ((o + 1 + C) + V) + 1 + T
    BY <1>2, <1>3, <1>11, <1>13, <1>12, <1>22, <1>21, <1>23 DEF SeverityAt, SectionAt, EndAt
  <1>25. /\ Offset(ps, 3) \in Nat
         /\ A[o + 1] = Node("log", "start", l.id)
         /\ A[o + 2 + Offset(ps, 3)] = Node("log", "end", l.id)
         /\ Len(LogNodes(l)) = Offset(ps, 3) + 2
         /\ Offset(ps, 0) = 0
         /\ \A k \in 1..3 : /\ Offset(ps, k) = Offset(ps, k - 1) + Len(ps[k])
                            /\ Len(ps[k]) \in Nat
                            /\ Lies(A, o + 1 + Offset(ps, k - 1), ps[k])
    <2>1. Lies(A, o, Element("log", l.id, ps))
      BY <1>6, <1>20
    <2>2. Spans(A, o, "log", l.id, ps, Len(ps), Offset(ps, Len(ps)))
      BY <1>6, <1>7, <1>8, <1>19, <2>1, ElementSpans
    <2>. QED
      BY <1>19, <1>20, <2>2 DEF Spans
  <1>26. /\ Lies(A, o + 1, c) /\ Lies(A, o + 1 + C, v) /\ Lies(A, o + 1 + (C + V), s)
         /\ Offset(ps, 3) = (C + V) + Len(s)
    <2>1. 1 \in 1..3 /\ 2 \in 1..3 /\ 3 \in 1..3 /\ 1 - 1 = 0 /\ 2 - 1 = 1 /\ 3 - 1 = 2
      OBVIOUS
    <2>2. /\ Offset(ps, 1) = 0 + Len(c) /\ Lies(A, o + 1 + 0, c)
          /\ Offset(ps, 2) = Offset(ps, 1) + Len(v) /\ Lies(A, o + 1 + Offset(ps, 1), v)
          /\ Offset(ps, 3) = Offset(ps, 2) + Len(s) /\ Lies(A, o + 1 + Offset(ps, 2), s)
      BY <1>19, <1>25, <2>1
    <2>3. o + 1 + 0 = o + 1 /\ 0 + Len(c) = C /\ Len(v) = V
      BY <1>6, <1>21, <1>22
    <2>. QED
      BY ONLY <2>2, <2>3
  <1>27. PICK r \in Nat : r = o + 1 + (C + V)
    BY <1>6
  <1>28. /\ Offset(ts, 1) \in Nat
         /\ A[r + 1] = Node(l.section, "start", 0)
         /\ A[r + 2 + Offset(ts, 1)] = Node(l.section, "end", 0)
         /\ Len(s) = Offset(ts, 1) + 2
         /\ Offset(ts, 0) = 0
         /\ \A k \in 1..1 : /\ Offset(ts, k) = Offset(ts, k - 1) + Len(ts[k])
                            /\ Lies(A, r + 1 + Offset(ts, k - 1), ts[k])
    <2>1. Lies(A, r, Element(l.section, 0, ts))
      BY <1>16, <1>26, <1>27
    <2>2. Spans(A, r, l.section, 0, ts, Len(ts), Offset(ts, Len(ts)))
      BY <1>7, <1>8, <1>15, <2>1, ElementSpans
    <2>. QED
      BY <1>15, <1>16, <2>2 DEF Spans
  <1>29. Offset(ts, 1) = T /\ Lies(A, r + 1, t)
    <2>1. 1 \in 1..1 /\ 1 - 1 = 0
      OBVIOUS
    <2>2. Offset(ts, 1) = 0 + Len(t) /\ Lies(A, r + 1 + 0, t)
      BY <1>15, <1>28, <2>1
    <2>3. r + 1 + 0 = r + 1 /\ 0 + Len(t) = T
      BY <1>23, <1>27
    <2>. QED
      BY ONLY <2>2, <2>3
  <1>30. Offset(ps, 3) = (C + V) + (T + 2) /\ Len(LogNodes(l)) = ((C + V) + (T + 2)) + 2
    BY <1>25, <1>26, <1>28, <1>29
  <1>31. PICK e \in Nat : e = r + 1 + T
    OBVIOUS
  <1>32. A[e + 1] = Node(l.section, "end", 0) /\ A[e + 2] = Node("log", "end", l.id)
    <2>1. e + 1 = r + 2 + T /\ e + 2 = o + 2 + ((C + V) + (T + 2))
      BY <1>6, <1>27, <1>31
    <2>. QED
      BY <1>25, <1>28, <1>29, <1>30, <2>1
  <1>33. LogAt(al, n, m + 1) = e + 2
    BY <1>6, <1>27, <1>30, <1>31
  <1>34. /\ SectionAt(al, n, m) = r /\ EndAt(al, n, m) = e /\ SeverityAt(al, n, m) = o + 1 + C
         /\ o < o + 1 + C /\ o + 1 + C <= r /\ r < e /\ o + 1 + C \in Nat
    BY <1>6, <1>24, <1>27, <1>31
  <1>. QED
    BY <1>1, <1>3, <1>5, <1>6, <1>11, <1>12, <1>13, <1>25, <1>26, <1>28, <1>29, <1>32, <1>33, <1>34

-----------------------------------------------------------------------------
(* What the entries of the logs are.                                       *)

\* The entry of the log l of a, with that source and severity, and that much posted.
Made(a, l, source, severity, posted) ==
    [Zeroed EXCEPT !["logID"] = l.id, !["alertID"] = a.id, !["source"] = source,
                   !["SNMPtrap_OID"] = Text(a.trapOID), !["severity"] = severity,
                   ![l.section] = posted]

\* The entry as the log alone tells it.
Partial(a, l) == Made(a, l, Text(l.component), Severity(l), Posted(l))

\* The source found in the first m logs of a, and all that was found by then.
FoundSource(a, m) ==
    LET naming == {n \in 1..m : a.logs[n].component \notin {0, SelfClosed}}
    IN  IF naming = {} THEN NULL ELSE Text(a.logs[Max(naming)].component)
FoundBy(a, m) ==
    [alertID |-> a.id, source |-> FoundSource(a, m), SNMPtrapOID |-> Text(a.trapOID)]

\* What leaving the alert a makes of an entry.
Completed(a, e) ==
    IF a.id # NULL /\ e["alertID"] = a.id /\ e["source"] = NULL
    THEN [e EXCEPT !["source"] =
             IF FoundSource(a, Len(a.logs)) # NULL THEN FoundSource(a, Len(a.logs)) ELSE Blank]
    ELSE e

LEMMA TextIs ==
    ASSUME NEW value, value \in Content
    PROVE  /\ Text(value) \in Values
           /\ value = SelfClosed => Text(value) = Blank
           /\ value \in {0, Hollow} => Text(value) = NULL
           /\ value \in 1..MaxValue => Text(value) = value
           /\ Blank \in Values /\ Blank # NULL /\ NULL \in Values
  <1>1. MaxValue \in Nat /\ MaxValue > 2 /\ Blank = MaxValue
    BY CellAssumption, TagAssumption DEF Blank
  <1>2. SelfClosed = -1 /\ Hollow = -2 /\ NULL = 0
    BY DEF SelfClosed, Hollow, NULL
  <1>3. value \in {-1, -2} \cup 0..MaxValue
    BY <1>2 DEF Content
  <1>4. CASE value = SelfClosed
    BY <1>1, <1>2, <1>4 DEF Text, Values
  <1>5. CASE value = Hollow
    BY <1>1, <1>2, <1>5 DEF Text, Values
  <1>6. CASE value \in 0..MaxValue
    <2>1. Text(value) = value
      BY <1>2, <1>6 DEF Text
    <2>. QED
      BY <1>1, <1>2, <1>6, <2>1 DEF Values
  <1>. QED
    BY <1>2, <1>3, <1>4, <1>5, <1>6

\* The fields of an alert and of its logs.
LEMMA AlertIs ==
    ASSUME NEW a \in Alerts
    PROVE  /\ a.id \in Values /\ a.trapOID \in Content /\ Len(a.logs) \in Nat
           /\ DOMAIN a.logs = 1..Len(a.logs)
           /\ \A m \in 1..Len(a.logs) :
                 /\ a.logs[m] \in Logs /\ a.logs[m].id \in Values
                 /\ a.logs[m].component \in Content /\ a.logs[m].severity \in Content
                 /\ a.logs[m].posted \in Content /\ a.logs[m].section \in Sections
  <1>1. PICK ls : ls = a.logs
    OBVIOUS
  <1>2. a.id \in Values /\ a.trapOID \in Content /\ ls \in Seq(Logs)
    BY <1>1, AlertNodesIn
  <1>3. Len(ls) \in Nat /\ DOMAIN ls = 1..Len(ls) /\ \A m \in 1..Len(ls) : ls[m] \in Logs
    <2>. HIDE DEF Logs
    <2>. QED
      BY <1>2
  <1>4. ASSUME NEW l \in Logs
        PROVE  /\ l.id \in Values /\ l.component \in Content /\ l.severity \in Content
               /\ l.posted \in Content /\ l.section \in Sections
    BY DEF Logs, Values
  <1>. QED
    BY <1>1, <1>2, <1>3, <1>4

LEMMA PostedIs ==
    ASSUME NEW l
    PROVE  /\ Severity(l) \in Values /\ Posted(l) \in Values
           /\ l.severity \in {0, SelfClosed, Hollow} => Severity(l) = NULL
           /\ l.posted \in {0, SelfClosed, Hollow} => Posted(l) = NULL
           /\ l.severity \in 1..MaxValue => Severity(l) = Number(l.severity)
           /\ l.posted \in 1..MaxValue => Posted(l) = Sent(l.posted)
  <1>1. MaxValue \in Nat /\ SelfClosed = -1 /\ Hollow = -2 /\ NULL = 0 /\ NULL \in Values
    BY CellAssumption DEF SelfClosed, Hollow, NULL, Values
  <1>2. \A v \in 1..MaxValue : v \in Values /\ v \notin {0, SelfClosed, Hollow}
    BY <1>1 DEF Values
  <1>. QED
    BY <1>1, <1>2, TextsIn DEF Severity, Posted

\* The entry e with x as its g.
With(e, g, x) == [e EXCEPT ![g] = x]

\* It field by field, ...
Fields(c, i, j, t, x, w, y) ==
    [g \in Tags |-> CASE g = c -> y
                      [] g = "logID" -> i
                      [] g = "alertID" -> j
                      [] g = "source" -> x
                      [] g = "SNMPtrap_OID" -> t
                      [] g = "severity" -> w
                      [] OTHER -> NULL]

LEMMA MadeFields ==
    ASSUME NEW a, NEW l, l.section \in Sections, NEW s, NEW v, NEW p
    PROVE  Made(a, l, s, v, p) = Fields(l.section, l.id, a.id, Text(a.trapOID), s, v, p)
  <1>1. Tags = {"logID", "alertID", "source", "SNMPtrap_OID", "severity", "callhome", "ealert", "snmp"}
    BY TagAssumption DEF AlertTags, Sections
  <1>2. PICK c \in {"callhome", "ealert", "snmp"} : c = l.section
    BY DEF Sections
  <1>3. PICK i, j, t : i = l.id /\ j = a.id /\ t = Text(a.trapOID)
    OBVIOUS
  <1>4. Made(a, l, s, v, p) = [Zeroed EXCEPT !["logID"] = i, !["alertID"] = j, !["source"] = s,
                                             !["SNMPtrap_OID"] = t, !["severity"] = v, ![c] = p]
    BY <1>2, <1>3 DEF Made
  <1>. QED
    BY <1>1, <1>2, <1>3, <1>4 DEF Zeroed, Fields

\* ... what that says of it, ...
LEMMA MadeIs ==
    ASSUME NEW a, NEW l, a.id \in Values, a.trapOID \in Content, l.id \in Values,
           l.section \in Sections, NEW s \in Values, NEW v \in Values, NEW p \in Values
    PROVE  /\ Made(a, l, s, v, p) \in Entries
           /\ Key(Made(a, l, s, v, p)) = l.id
           /\ Made(a, l, s, v, p)["alertID"] = a.id
           /\ Made(a, l, s, v, p)["source"] = s
  <1>1. /\ Tags = {"logID", "alertID", "source", "SNMPtrap_OID", "severity",
                   "callhome", "ealert", "snmp"}
        /\ KeyTag = "logID"
    BY TagAssumption DEF AlertTags, Sections
  <1>2. PICK c \in {"callhome", "ealert", "snmp"} : c = l.section
    BY DEF Sections
  <1>3. PICK t \in Values : t = Text(a.trapOID)
    BY TextIs
  <1>4. PICK i \in Values : i = l.id
    OBVIOUS
  <1>5. PICK j \in Values : j = a.id
    OBVIOUS
  <1>6. Made(a, l, s, v, p) = Fields(c, i, j, t, s, v, p)
    BY <1>2, <1>3, <1>4, <1>5, MadeFields
  <1>7. NULL \in Values
    BY CellAssumption DEF Values, NULL
  <1>8. Made(a, l, s, v, p) \in Entries
    <2>. HIDE DEF Values
    <2>1. Made(a, l, s, v, p) \in [Tags -> Values]
      BY <1>1, <1>6, <1>7 DEF Fields
    <2>. QED
      BY <2>1 DEF Entries, Values
  <1>9. /\ Key(Made(a, l, s, v, p)) = l.id
        /\ Made(a, l, s, v, p)["alertID"] = a.id
        /\ Made(a, l, s, v, p)["source"] = s
    BY <1>1, <1>4, <1>5, <1>6 DEF Key, Fields
  <1>. QED
    BY <1>8, <1>9

\* ... and how a source, a severity and a section of it are set.
LEMMA MadeWith ==
    ASSUME NEW a, NEW l, l.section \in Sections, NEW s, NEW v, NEW p, NEW x
    PROVE  /\ With(Made(a, l, s, v, p), "source", x) = Made(a, l, x, v, p)
           /\ With(Made(a, l, s, v, p), "severity", x) = Made(a, l, s, x, p)
           /\ \/ With(Made(a, l, s, v, p), "callhome", x) = Made(a, l, s, v, x) /\ l.section = "callhome"
              \/ With(Made(a, l, s, v, p), "ealert", x) = Made(a, l, s, v, x) /\ l.section = "ealert"
              \/ With(Made(a, l, s, v, p), "snmp", x) = Made(a, l, s, v, x) /\ l.section = "snmp"
  <1>1. Tags = {"logID", "alertID", "source", "SNMPtrap_OID", "severity", "callhome", "ealert", "snmp"}
    BY TagAssumption DEF AlertTags, Sections
  <1>2. PICK c \in {"callhome", "ealert", "snmp"} : c = l.section
    BY DEF Sections
  <1>3. PICK i, j, t : i = l.id /\ j = a.id /\ t = Text(a.trapOID)
    OBVIOUS
  <1>4. \A y, w, z : Made(a, l, y, w, z) = Fields(c, i, j, t, y, w, z)
    BY <1>2, <1>3, MadeFields
  <1>5. With(Fields(c, i, j, t, s, v, p), "source", x) = Fields(c, i, j, t, x, v, p)
    BY <1>1, <1>2 DEF Fields, With
  <1>6. With(Fields(c, i, j, t, s, v, p), "severity", x) = Fields(c, i, j, t, s, x, p)
    BY <1>1, <1>2 DEF Fields, With
  <1>7. With(Fields(c, i, j, t, s, v, p), c, x) = Fields(c, i, j, t, s, v, x)
    BY <1>1, <1>2 DEF Fields, With
  <1>. QED
    BY <1>2, <1>4, <1>5, <1>6, <1>7

\* How the source that was found comes about.
LEMMA FoundSourceIs ==
    ASSUME NEW a \in Alerts
    PROVE  /\ FoundSource(a, 0) = NULL
           /\ FoundSource(a, Len(a.logs)) = SourceOf(a)
           /\ \A m \in 0..Len(a.logs) : FoundSource(a, m) \in Values
           /\ \A m \in 1..Len(a.logs) :
                 FoundSource(a, m) = IF a.logs[m].component \in {0, SelfClosed}
                                     THEN FoundSource(a, m - 1) ELSE Text(a.logs[m].component)
  <1>1. PICK M \in Nat : M = Len(a.logs)
    BY AlertIs
  <1>2. PICK ls : ls = a.logs
    OBVIOUS
  <1>3. DOMAIN ls = 1..M /\ \A m \in 1..M : ls[m].component \in Content
    BY <1>1, <1>2, AlertIs
  <1>. DEFINE T(m) == {n \in 1..m : ls[n].component \notin {0, SelfClosed}}
  <1>4. \A m : FoundSource(a, m) = IF T(m) = {} THEN NULL ELSE Text(ls[Max(T(m))].component)
    BY <1>2 DEF FoundSource
  <1>5. FoundSource(a, 0) = NULL
    <2>1. T(0) = {}
      OBVIOUS
    <2>. QED
      BY <1>4, <2>1
  <1>6. FoundSource(a, M) = SourceOf(a)
    <2>1. T(M) = {n \in DOMAIN ls : ls[n].component \notin {0, SelfClosed}}
      BY <1>3
    <2>2. SourceOf(a) = IF T(M) = {} THEN NULL ELSE Text(ls[Max(T(M))].component)
      BY <1>2, <2>1 DEF SourceOf
    <2>. QED
      BY <1>4, <2>2
  <1>7. ASSUME NEW m \in 0..M PROVE FoundSource(a, m) \in Values
    <2>1. CASE T(m) = {}
      <3>1. NULL \in Values
        BY CellAssumption DEF Values, NULL
      <3>. HIDE DEF Values, T
      <3>. QED
        BY <1>4, <2>1, <3>1
    <2>2. CASE T(m) # {}
      <3>1. Max(T(m)) \in T(m)
        <4>1. T(m) \subseteq 1..m /\ m \in Nat
          OBVIOUS
        <4>. HIDE DEF T
        <4>. QED
          BY <2>2, <4>1, MaxIs
      <3>2. Max(T(m)) \in 1..M
        BY <3>1
      <3>. QED
        BY <1>3, <1>4, <2>2, <3>2, TextIs
    <2>. QED
      BY <2>1, <2>2
  <1>8. ASSUME NEW m \in 1..M
        PROVE  FoundSource(a, m) = IF ls[m].component \in {0, SelfClosed}
                                   THEN FoundSource(a, m - 1) ELSE Text(ls[m].component)
    <2>1. CASE ls[m].component \in {0, SelfClosed}
      <3>1. T(m) = T(m - 1)
        BY <2>1
      <3>. QED
        BY <1>4, <2>1, <3>1
    <2>2. CASE ls[m].component \notin {0, SelfClosed}
      <3>1. m \in T(m) /\ T(m) \subseteq 1..m /\ m \in Nat
        BY <2>2
      <3>2. Max(T(m)) \in T(m) /\ Max(T(m)) >= m
        <4>. HIDE DEF T
        <4>. QED
          BY <3>1, MaxIs
      <3>3. Max(T(m)) = m
        BY <3>1, <3>2
      <3>. QED
        BY <1>4, <2>2, <3>1, <3>3
    <2>. QED
      BY <2>1, <2>2
  <1>. QED
    BY <1>1, <1>2, <1>5, <1>6, <1>7, <1>8

\* Leaving the alert makes the entry of a log what it is to be, and leaves an entry
\* alone that has a source if it has an alert.
LEMMA CompletedIs ==
    ASSUME NEW a \in Alerts
    PROVE  /\ \A m \in 1..Len(a.logs) :
                 /\ Partial(a, a.logs[m]) \in Entries
                 /\ EntryOf(a, a.logs[m]) \in Entries
                 /\ Completed(a, Partial(a, a.logs[m])) = EntryOf(a, a.logs[m])
                 /\ Key(EntryOf(a, a.logs[m])) = Key(Partial(a, a.logs[m]))
                 /\ EntryOf(a, a.logs[m])["alertID"] # NULL
                       => EntryOf(a, a.logs[m])["source"] # NULL
           /\ \A e : (e["alertID"] # NULL => e["source"] # NULL) => Completed(a, e) = e
  <1>1. ASSUME NEW m \in 1..Len(a.logs)
        PROVE  /\ Partial(a, a.logs[m]) \in Entries
               /\ EntryOf(a, a.logs[m]) \in Entries
               /\ Completed(a, Partial(a, a.logs[m])) = EntryOf(a, a.logs[m])
               /\ Key(EntryOf(a, a.logs[m])) = Key(Partial(a, a.logs[m]))
               /\ EntryOf(a, a.logs[m])["alertID"] # NULL => EntryOf(a, a.logs[m])["source"] # NULL
    <2>1. PICK l : l = a.logs[m]
      OBVIOUS
    <2>2. /\ a.id \in Values /\ a.trapOID \in Content /\ l.id \in Values /\ l.section \in Sections
          /\ l.component \in Content
      BY <2>1, AlertIs
    <2>3. PICK own \in Values : own = Text(l.component)
      BY <2>2, TextIs
    <2>4. PICK v \in Values, p \in Values : v = Severity(l) /\ p = Posted(l)
      BY PostedIs
    <2>5. PICK found1 \in Values : found1 = SourceOf(a) /\ found1 = FoundSource(a, Len(a.logs))
      <3>1. Len(a.logs) \in 0..Len(a.logs)
        BY AlertIs
      <3>. QED
        BY <3>1, FoundSourceIs
    <2>6. Blank \in Values /\ Blank # NULL /\ NULL = 0
      BY <2>2, TextIs DEF NULL
    <2>7. PICK s : s = IF own # NULL \/ a.id = 0 THEN own ELSE IF found1 # NULL THEN found1 ELSE Blank
      OBVIOUS
    <2>8. s \in Values /\ (a.id # NULL => s # NULL)
      BY <2>6, <2>7
    <2>9. EntryOf(a, l) = Made(a, l, s, v, p)
      BY <2>3, <2>4, <2>5, <2>7, Zenon DEF EntryOf, Made
    <2>10. Partial(a, l) = Made(a, l, own, v, p)
      BY <2>3, <2>4 DEF Partial
    <2>11. /\ Made(a, l, own, v, p) \in Entries /\ Key(Made(a, l, own, v, p)) = l.id
           /\ Made(a, l, own, v, p)["alertID"] = a.id /\ Made(a, l, own, v, p)["source"] = own
           /\ With(Made(a, l, own, v, p), "source", s) = Made(a, l, s, v, p)
           /\ Made(a, l, s, v, p) \in Entries /\ Key(Made(a, l, s, v, p)) = l.id
           /\ Made(a, l, s, v, p)["alertID"] = a.id /\ Made(a, l, s, v, p)["source"] = s
      <3>1. own \in Values /\ v \in Values /\ p \in Values /\ s \in Values
        BY <2>8
      <3>2. a.id \in Values /\ a.trapOID \in Content /\ l.id \in Values /\ l.section \in Sections
        BY <2>2
      <3>3. /\ Made(a, l, own, v, p) \in Entries /\ Key(Made(a, l, own, v, p)) = l.id
            /\ Made(a, l, own, v, p)["alertID"] = a.id /\ Made(a, l, own, v, p)["source"] = own
        BY <3>1, <3>2, MadeIs
      <3>4. With(Made(a, l, own, v, p), "source", s) = Made(a, l, s, v, p)
        BY <3>2, MadeWith
      <3>5. /\ Made(a, l, s, v, p) \in Entries /\ Key(Made(a, l, s, v, p)) = l.id
            /\ Made(a, l, s, v, p)["alertID"] = a.id /\ Made(a, l, s, v, p)["source"] = s
        BY <3>1, <3>2, MadeIs
      <3>. QED
        BY <3>3, <3>4, <3>5
    <2>12. Completed(a, Made(a, l, own, v, p)) = Made(a, l, s, v, p)
      <3>1. CASE a.id # NULL /\ own = NULL
        <4>1. Completed(a, Made(a, l, own, v, p)) = With(Made(a, l, own, v, p), "source", s)
          BY <2>5, <2>6, <2>7, <2>11, <3>1 DEF Completed, With
        <4>. QED
          BY <2>8, <2>11, <4>1
      <3>2. CASE ~(a.id # NULL /\ own = NULL)
        <4>1. s = own
          BY <2>6, <2>7, <3>2
        <4>2. Completed(a, Made(a, l, own, v, p)) = Made(a, l, own, v, p)
          BY <2>11, <3>2 DEF Completed
        <4>. QED
          BY <4>1, <4>2
      <3>. QED
        BY <3>1, <3>2
    <2>. QED
      BY <2>1, <2>8, <2>9, <2>10, <2>11, <2>12
  <1>2. ASSUME NEW e, e["alertID"] # NULL => e["source"] # NULL PROVE Completed(a, e) = e
    BY <1>2 DEF Completed
  <1>. QED
    BY <1>1, <1>2

\* The entries of an alert, of all alerts, of the first n alerts, and of these without
\* the last and the first j logs of the last.
EntriesOf(a) == [m \in DOMAIN a.logs |-> EntryOf(a, a.logs[m])]
Entered(al) == [n \in DOMAIN al |-> EntriesOf(al[n])]
Told(al, n) == FlattenSeq(SubSeq(Entered(al), 1, n))
ToldSoFar(al, n, j) == Told(al, n - 1) \o [i \in 1..j |-> Partial(al[n], al[n].logs[i])]

\* Sequences of entries that have a source if they have an alert.
Sourced == {s \in Seq(Entries) :
               \A k \in 1..Len(s) : s[k]["alertID"] # NULL => s[k]["source"] # NULL}

LEMMA SourcedClosed ==
    <<>> \in Sourced /\ \A s, t \in Sourced : s \o t \in Sourced
  <1>1. <<>> \in Sourced
    BY DEF Sourced
  <1>2. ASSUME NEW s \in Sourced, NEW t \in Sourced PROVE s \o t \in Sourced
    <2>. DEFINE Has(e) == e["alertID"] # NULL => e["source"] # NULL
    <2>1. /\ s \in Seq(Entries) /\ t \in Seq(Entries)
          /\ \A k \in 1..Len(s) : Has(s[k])
          /\ \A k \in 1..Len(t) : Has(t[k])
      BY DEF Sourced
    <2>2. PICK m \in Nat : m = Len(s)
      BY <2>1
    <2>3. PICK n \in Nat : n = Len(t)
      BY <2>1
    <2>4. PICK u : u = s \o t
      OBVIOUS
    <2>. HIDE DEF Has, Entries
    <2>5. /\ u \in Seq(Entries) /\ Len(u) = Len(s) + Len(t)
          /\ \A i \in 1..(Len(s) + Len(t)) : u[i] = IF i <= Len(s) THEN s[i] ELSE t[i - Len(s)]
      BY <2>1, <2>4, ConcatProperties
    <2>6. ASSUME NEW k \in 1..(m + n) PROVE Has(u[k])
      <3>1. CASE k \in 1..m
        BY <2>1, <2>2, <2>3, <2>5, <3>1
      <3>2. CASE k \notin 1..m
        <4>1. k - m \in 1..n /\ ~(k <= m)
          BY <3>2
        <4>. QED
          BY <2>1, <2>2, <2>3, <2>5, <4>1
      <3>. QED
        BY <3>1, <3>2
    <2>7. \A k \in 1..Len(u) : Has(u[k])
      BY <2>2, <2>3, <2>5, <2>6
    <2>. QED
      BY <2>4, <2>5, <2>7 DEF Sourced, Has
  <1>. QED
    BY <1>1, <1>2

LEMMA EntriesOfIs ==
    ASSUME NEW a \in Alerts
    PROVE  /\ EntriesOf(a) \in Sourced
           /\ Len(EntriesOf(a)) = Len(a.logs)
           /\ \A m \in 1..Len(a.logs) : EntriesOf(a)[m] = EntryOf(a, a.logs[m])
  <1>1. PICK M \in Nat : M = Len(a.logs) /\ DOMAIN a.logs = 1..M
    BY AlertIs
  <1>2. PICK es : es = EntriesOf(a)
    OBVIOUS
  <1>3. es = [m \in 1..M |-> EntryOf(a, a.logs[m])]
    BY <1>1, <1>2 DEF EntriesOf
  <1>4. \A m \in 1..M : /\ EntryOf(a, a.logs[m]) \in Entries
                        /\ EntryOf(a, a.logs[m])["alertID"] # NULL
                              => EntryOf(a, a.logs[m])["source"] # NULL
    BY <1>1, CompletedIs
  <1>. HIDE DEF Entries
  <1>5. /\ es \in Seq(Entries) /\ Len(es) = M
        /\ \A m \in 1..M : es[m] = EntryOf(a, a.logs[m])
    BY <1>3, <1>4
  <1>6. es \in Sourced
    BY <1>4, <1>5 DEF Sourced
  <1>. QED
    BY <1>1, <1>2, <1>5, <1>6

\* What the first alerts come to.
LEMMA ToldIs ==
    ASSUME NEW al \in Seq(Alerts)
    PROVE  /\ Told(al, 0) = <<>>
           /\ Told(al, Len(al)) = FlattenSeq(Entered(al))
           /\ \A n \in 0..Len(al) : Told(al, n) \in Sourced
           /\ \A n \in 1..Len(al) : Told(al, n) = Told(al, n - 1) \o EntriesOf(al[n])
  <1>1. PICK N \in Nat : N = Len(al)
    OBVIOUS
  <1>2. DOMAIN al = 1..N /\ \A n \in 1..N : al[n] \in Alerts
    BY <1>1
  <1>3. PICK es : es = Entered(al)
    OBVIOUS
  <1>4. es = [n \in 1..N |-> EntriesOf(al[n])]
    BY <1>2, <1>3 DEF Entered
  <1>5. \A n \in 1..N : EntriesOf(al[n]) \in Sourced
    BY <1>2, EntriesOfIs
  <1>6. es \in Seq(Sourced) /\ Len(es) = N /\ \A n \in 1..N : es[n] = EntriesOf(al[n])
    BY <1>4, <1>5
  <1>7. Sourced \subseteq Seq(Entries)
    BY DEF Sourced
  <1>. HIDE DEF Sourced, Entries
  <1>8. es \in Seq(Seq(Entries))
    BY <1>6, <1>7, SeqMono
  <1>9. PICK f : /\ Flattening(f, Seq(Entries), es)
                 /\ FlattenSeq(es) = f[Len(es)]
                 /\ \A k \in 0..Len(es) : FlattenSeq(SubSeq(es, 1, k)) = f[k]
    BY <1>8, FlattenFirst
  <1>10. f[0] = <<>> /\ \A n \in 1..N : f[n] = f[n - 1] \o es[n]
    BY <1>6, <1>9 DEF Flattening
  <1>11. \A n \in 0..N : Told(al, n) = f[n]
    BY <1>3, <1>6, <1>9 DEF Told
  <1>12. Told(al, 0) = <<>> /\ Told(al, N) = FlattenSeq(es)
    <2>1. 0 \in 0..N /\ N \in 0..N
      OBVIOUS
    <2>. QED
      BY <1>6, <1>9, <1>10, <1>11, <2>1
  <1>13. ASSUME NEW n \in 1..N PROVE Told(al, n) = Told(al, n - 1) \o EntriesOf(al[n])
    <2>1. n \in 0..N /\ n - 1 \in 0..N
      OBVIOUS
    <2>. QED
      BY <1>6, <1>10, <1>11, <2>1
  <1>14. ASSUME NEW n \in 0..N PROVE Told(al, n) \in Sourced
    <2>1. PICK ss : ss = SubSeq(es, 1, n)
      OBVIOUS
    <2>2. ss \in Seq(Sourced)
      BY <1>6, <2>1
    <2>3. FlattenSeq(ss) \in Sourced
      BY <1>7, <2>2, SourcedClosed, FlattenIn
    <2>. QED
      BY <1>3, <2>1, <2>3 DEF Told
  <1>. QED
    BY <1>1, <1>3, <1>12, <1>13, <1>14

\* u is t and then e.
IsThen(u, t, e) == (\A i \in 1..Len(t) : u[i] = t[i]) /\ u[Len(u)] = e

\* What the next logs add to it, and what leaving their alert makes of all.
LEMMA ToldSoFarIs ==
    ASSUME NEW al \in Seq(Alerts), NEW n \in 1..Len(al), NEW a, a = al[n]
    PROVE  /\ ToldSoFar(al, n, 0) = Told(al, n - 1)
           /\ \A j \in 0..Len(a.logs) :
                 /\ ToldSoFar(al, n, j) \in Seq(Entries)
                 /\ Len(ToldSoFar(al, n, j)) = Len(Told(al, n - 1)) + j
           /\ \A j \in 1..Len(a.logs) :
                 IsThen(ToldSoFar(al, n, j), ToldSoFar(al, n, j - 1), Partial(a, a.logs[j]))
           /\ Len(Told(al, n)) = Len(ToldSoFar(al, n, Len(a.logs)))
           /\ \A i \in 1..Len(Told(al, n)) :
                 /\ Told(al, n)[i] = Completed(a, ToldSoFar(al, n, Len(a.logs))[i])
                 /\ Key(Told(al, n)[i]) = Key(ToldSoFar(al, n, Len(a.logs))[i])
  <1>1. a \in Alerts
    OBVIOUS
  <1>2. PICK M \in Nat : M = Len(a.logs)
    BY <1>1, AlertIs
  <1>3. PICK t : t = Told(al, n - 1)
    OBVIOUS
  <1>4. t \in Sourced /\ t \in Seq(Entries)
    <2>1. n - 1 \in 0..Len(al)
      OBVIOUS
    <2>. QED
      BY <1>3, <2>1, ToldIs DEF Sourced
  <1>5. PICK T \in Nat : T = Len(t)
    BY <1>4
  <1>6. \A j \in 1..M : Partial(a, a.logs[j]) \in Entries
    BY <1>1, <1>2, CompletedIs
  <1>. HIDE DEF Entries
  <1>7. ASSUME NEW j \in 0..M
        PROVE  /\ ToldSoFar(al, n, j) \in Seq(Entries)
               /\ Len(ToldSoFar(al, n, j)) = T + j
               /\ \A i \in 1..T : ToldSoFar(al, n, j)[i] = t[i]
               /\ \A i \in 1..j : ToldSoFar(al, n, j)[T + i] = Partial(a, a.logs[i])
    <2>1. PICK p : p = [i \in 1..j |-> Partial(a, a.logs[i])]
      OBVIOUS
    <2>2. p \in Seq(Entries) /\ Len(p) = j /\ \A i \in 1..j : p[i] = Partial(a, a.logs[i])
      BY <1>6, <2>1
    <2>3. PICK u : u = t \o p
      OBVIOUS
    <2>4. ToldSoFar(al, n, j) = u
      BY <1>3, <2>1, <2>3 DEF ToldSoFar
    <2>5. /\ u \in Seq(Entries) /\ Len(u) = Len(t) + Len(p)
          /\ \A i \in 1..(Len(t) + Len(p)) : u[i] = IF i <= Len(t) THEN t[i] ELSE p[i - Len(t)]
      BY <1>4, <2>2, <2>3, ConcatProperties
    <2>6. \A i \in 1..T : u[i] = t[i]
      BY <1>5, <2>2, <2>5
    <2>7. ASSUME NEW i \in 1..j PROVE u[T + i] = p[i]
      <3>1. T + i \in 1..(T + j) /\ ~(T + i <= T) /\ (T + i) - T = i
        OBVIOUS
      <3>. QED
        BY <1>5, <2>2, <2>5, <3>1
    <2>. QED
      BY <1>5, <2>2, <2>4, <2>5, <2>6, <2>7
  <1>8. ToldSoFar(al, n, 0) = t
    <2>1. PICK u : u = ToldSoFar(al, n, 0)
      OBVIOUS
    <2>2. u \in Seq(Entries) /\ Len(u) = T /\ \A i \in 1..T : u[i] = t[i]
      <3>1. 0 \in 0..M /\ T + 0 = T
        OBVIOUS
      <3>. QED
        BY <1>7, <2>1, <3>1
    <2>. QED
      BY <1>4, <1>5, <2>1, <2>2
  <1>9. ASSUME NEW j \in 1..M
        PROVE  IsThen(ToldSoFar(al, n, j), ToldSoFar(al, n, j - 1), Partial(a, a.logs[j]))
    <2>1. j \in 0..M /\ j - 1 \in 0..M /\ j \in 1..j
      OBVIOUS
    <2>2. PICK u : u = ToldSoFar(al, n, j)
      OBVIOUS
    <2>3. PICK v : v = ToldSoFar(al, n, j - 1)
      OBVIOUS
    <2>4. /\ Len(u) = T + j /\ \A i \in 1..T : u[i] = t[i]
          /\ \A i \in 1..j : u[T + i] = Partial(a, a.logs[i])
          /\ Len(v) = T + (j - 1) /\ \A i \in 1..T : v[i] = t[i]
          /\ \A i \in 1..(j - 1) : v[T + i] = Partial(a, a.logs[i])
      BY <1>7, <2>1, <2>2, <2>3
    <2>5. ASSUME NEW i \in 1..(T + (j - 1)) PROVE u[i] = v[i]
      <3>1. CASE i \in 1..T
        BY <2>4, <3>1
      <3>2. CASE i \notin 1..T
        <4>1. PICK k \in 1..(j - 1) : i = T + k
          <5>1. i - T \in 1..(j - 1) /\ i = T + (i - T)
            BY <3>2
          <5>. QED
            BY <5>1
        <4>2. k \in 1..j
          OBVIOUS
        <4>. QED
          BY <2>4, <4>1, <4>2
      <3>. QED
        BY <3>1, <3>2
    <2>. QED
      BY <2>1, <2>2, <2>3, <2>4, <2>5 DEF IsThen
  <1>10. PICK es : es = EntriesOf(a)
    OBVIOUS
  <1>11. /\ es \in Seq(Entries) /\ Len(es) = M
         /\ \A i \in 1..M : es[i] = EntryOf(a, a.logs[i])
    BY <1>1, <1>2, <1>10, EntriesOfIs DEF Sourced
  <1>12. PICK w : w = t \o es
    OBVIOUS
  <1>13. Told(al, n) = w
    BY <1>3, <1>10, <1>12, ToldIs
  <1>14. /\ Len(w) = T + M /\ \A i \in 1..T : w[i] = t[i]
         /\ \A i \in 1..M : w[T + i] = EntryOf(a, a.logs[i])
    <2>1. /\ w \in Seq(Entries) /\ Len(w) = Len(t) + Len(es)
          /\ \A i \in 1..(Len(t) + Len(es)) : w[i] = IF i <= Len(t) THEN t[i] ELSE es[i - Len(t)]
      BY <1>4, <1>11, <1>12, ConcatProperties
    <2>2. \A i \in 1..T : w[i] = t[i]
      BY <1>5, <1>11, <2>1
    <2>3. ASSUME NEW i \in 1..M PROVE w[T + i] = es[i]
      <3>1. T + i \in 1..(T + M) /\ ~(T + i <= T) /\ (T + i) - T = i
        OBVIOUS
      <3>. QED
        BY <1>5, <1>11, <2>1, <3>1
    <2>. QED
      BY <1>5, <1>11, <2>1, <2>2, <2>3
  <1>15. PICK u : u = ToldSoFar(al, n, M)
    OBVIOUS
  <1>16. /\ Len(u) = T + M /\ \A i \in 1..T : u[i] = t[i]
         /\ \A i \in 1..M : u[T + i] = Partial(a, a.logs[i])
    <2>1. M \in 0..M
      OBVIOUS
    <2>. QED
      BY <1>7, <1>15, <2>1
  <1>17. ASSUME NEW i \in 1..(T + M) PROVE w[i] = Completed(a, u[i]) /\ Key(w[i]) = Key(u[i])
    <2>1. CASE i \in 1..T
      <3>1. t[i]["alertID"] # NULL => t[i]["source"] # NULL
        BY <1>4, <1>5, <2>1 DEF Sourced
      <3>2. Completed(a, t[i]) = t[i]
        BY <1>1, <3>1, CompletedIs
      <3>. QED
        BY <1>14, <1>16, <2>1, <3>2
    <2>2. CASE i \notin 1..T
      <3>1. PICK k \in 1..M : i = T + k
        <4>1. i - T \in 1..M /\ i = T + (i - T)
          BY <2>2
        <4>. QED
          BY <4>1
      <3>2. /\ Completed(a, Partial(a, a.logs[k])) = EntryOf(a, a.logs[k])
            /\ Key(EntryOf(a, a.logs[k])) = Key(Partial(a, a.logs[k]))
        BY <1>1, <1>2, CompletedIs
      <3>. QED
        BY <1>14, <1>16, <3>1, <3>2
    <2>. QED
      BY <2>1, <2>2
  <1>. QED
    BY <1>2, <1>3, <1>5, <1>7, <1>8, <1>9, <1>13, <1>14, <1>15, <1>16, <1>17

-----------------------------------------------------------------------------
(* Where the parse of an answer is.                                        *)

\* The message is as much as arrived of an answer, or is one without alerts.
NoAlerts(m) == \A p \in 1..Len(m) : m[p].tag \in {"response", "error", "#text"}
MessageInv ==
    /\ alerts \in Seq(Alerts)
    /\ alerts = <<>> => NoAlerts(message)
    /\ alerts # <<>> => message \in Prefixes(Answer(alerts))

\* The parse is at p and in no log, with f found; the table sorts t.
Apart(p, within, f, t) ==
    /\ pc = "read" /\ in_alert = within /\ ~in_log /\ inside = {}
    /\ at = p /\ found = f
    /\ Sorts(Listed, t)

\* It is in a log whose entry is e so far.
Amid(p, sections, f, e, t) ==
    /\ pc = "read" /\ in_alert /\ in_log /\ inside = sections
    /\ at = p /\ found = f
    /\ entry # NULL /\ rec[entry] = e
    /\ Sorts(Listed, t)

Alert(n) == alerts[n]
LogOf(n, m) == alerts[n].logs[m]

\* No log before the m-th of the n-th alert opens a severity or a posted.
Quiet(al, n, m) ==
    \A k \in DOMAIN al : \A j \in DOMAIN al[k].logs :
        k < n \/ (k = n /\ j < m) => ~Opened(FirstOf(al[k].logs[j]))

\* While temp_value is as the call found it, none has come by; nor a severity in this log.
Calm(n, m) == unset => Quiet(alerts, n, m)
CalmIn(n, m) == unset => Quiet(alerts, n, m) /\ ~Opened(LogOf(n, m).severity)

\* The parse has come to where the message breaks off; to before the answer; to before
\* the n-th alert; in that to its trap; to before the m-th log; in that to its component,
\* to its severity, to its section, in that to what was posted, to the section's end, to
\* the log's end; past that log, which is being linked; or past the answer.
BrokenOff == pc = "read" /\ at = Len(message) /\ Len(message) < Len(Answer(alerts))
BeforeAll == Apart(0, FALSE, NothingFound, <<>>)
Outside(n) ==
    /\ Apart(AlertAt(alerts, n), FALSE, NothingFound, Told(alerts, n - 1))
    /\ Calm(n, 1)
AtTrap(n) ==
    /\ Alert(n).trapOID # 0
    /\ Apart(AlertAt(alerts, n) + 1, TRUE, [NothingFound EXCEPT !.alertID = Alert(n).id],
             Told(alerts, n - 1))
    /\ Calm(n, 1)
Between(n, m) ==
    /\ Apart(LogAt(alerts, n, m), TRUE, FoundBy(Alert(n), m - 1), ToldSoFar(alerts, n, m - 1))
    /\ Calm(n, m)
AtComponent(n, m) ==
    /\ LogOf(n, m).component # 0
    /\ Amid(LogAt(alerts, n, m) + 1, {}, FoundBy(Alert(n), m - 1),
            Made(Alert(n), LogOf(n, m), NULL, NULL, NULL), ToldSoFar(alerts, n, m - 1))
    /\ Calm(n, m)
AtSeverity(n, m) ==
    /\ LogOf(n, m).severity # 0
    /\ Amid(SeverityAt(alerts, n, m), {}, FoundBy(Alert(n), m),
            Made(Alert(n), LogOf(n, m), Text(LogOf(n, m).component), NULL, NULL),
            ToldSoFar(alerts, n, m - 1))
    /\ Calm(n, m)
AtSection(n, m) ==
    /\ Amid(SectionAt(alerts, n, m), {}, FoundBy(Alert(n), m),
            Made(Alert(n), LogOf(n, m), Text(LogOf(n, m).component), Severity(LogOf(n, m)), NULL),
            ToldSoFar(alerts, n, m - 1))
    /\ CalmIn(n, m)
AtPosted(n, m) ==
    /\ LogOf(n, m).posted # 0
    /\ Amid(SectionAt(alerts, n, m) + 1, {LogOf(n, m).section}, FoundBy(Alert(n), m),
            Made(Alert(n), LogOf(n, m), Text(LogOf(n, m).component), Severity(LogOf(n, m)), NULL),
            ToldSoFar(alerts, n, m - 1))
    /\ CalmIn(n, m)
AtEnd(n, m) ==
    /\ Amid(EndAt(alerts, n, m), {LogOf(n, m).section}, FoundBy(Alert(n), m),
            Partial(Alert(n), LogOf(n, m)), ToldSoFar(alerts, n, m - 1))
    /\ Calm(n, m + 1)
AtLogEnd(n, m) ==
    /\ Amid(EndAt(alerts, n, m) + 1, {}, FoundBy(Alert(n), m),
            Partial(Alert(n), LogOf(n, m)), ToldSoFar(alerts, n, m - 1))
    /\ Calm(n, m + 1)
Linking(n, m) ==
    /\ pc = "link" /\ in_alert /\ inside = {}
    /\ at = LogAt(alerts, n, m + 1) /\ found = FoundBy(Alert(n), m)
    /\ rec[entry] = Partial(Alert(n), LogOf(n, m))
    /\ Sorts(Listed, ToldSoFar(alerts, n, m - 1))
    /\ Calm(n, m + 1)
PastAll ==
    Apart(Len(Answer(alerts)), FALSE, NothingFound, Told(alerts, Len(alerts)))

\* In the m-th log of the n-th alert.
InLogOf(n, m) ==
    \/ AtComponent(n, m) \/ AtSeverity(n, m) \/ AtSection(n, m) \/ AtPosted(n, m)
    \/ AtEnd(n, m) \/ AtLogEnd(n, m)

Where ==
    \/ BrokenOff
    \/ BeforeAll
    \/ \E n \in 1..(Len(alerts) + 1) : Outside(n)
    \/ \E n \in 1..Len(alerts) : AtTrap(n)
    \/ \E n \in 1..Len(alerts) : \E m \in 1..(Len(Alert(n).logs) + 1) : Between(n, m)
    \/ \E n \in 1..Len(alerts) : \E m \in 1..Len(Alert(n).logs) : InLogOf(n, m)
    \/ \E n \in 1..Len(alerts) : \E m \in 1..Len(Alert(n).logs) : Linking(n, m)
    \/ PastAll

\* Where the parse is, if no earlier one left a flag set.
ParseIs ==
    clean =>
        /\ pc = "free" => ~in_log /\ inside = {} /\ found = NothingFound
        /\ pc \in {"read", "link"} =>
              /\ alerts = <<>> => pc = "read" /\ Listed = <<>>
              /\ alerts # <<>> => Where

\* The inductive invariant: where the parse is, and what the table lists at its end, or
\* what made it crash.
ParseInv ==
    /\ MessageInv
    /\ stamped => pc = "idle"
    /\ ParseIs
    /\ AllLogsListed
    /\ CrashesForAReason

-----------------------------------------------------------------------------
(* How the table and the parse go on.                                      *)

\* The steps that read a node.
Reading ==
    \/ ReadError \/ EnterAlert \/ LeaveAlert \/ EnterLog \/ LeaveLog \/ LeaveNoLog
    \/ Toggle \/ ReadPosted \/ ReadSeverity \/ Crash \/ ReadComponent \/ ReadTrapOID \/ Skip

LEMMA ReadingIs ==
    ASSUME Reading
    PROVE  /\ pc = "read" /\ at < Len(message)
           /\ UNCHANGED <<alerts, message, table, clean>>
           /\ pc' \in {"idle", "read", "link", "crashed"}
           /\ ~stamped => ~stamped'
           /\ unset' => unset
  <1>1. CASE ReadError
    BY <1>1 DEF ReadError, More, Return
  <1>2. CASE EnterAlert
    BY <1>2 DEF EnterAlert, More, listVars, callVars
  <1>3. CASE LeaveAlert
    BY <1>3 DEF LeaveAlert, More, callVars
  <1>4. CASE EnterLog
    BY <1>4 DEF EnterLog, More, callVars
  <1>5. CASE LeaveLog
    BY <1>5 DEF LeaveLog, More, StartLink, callVars
  <1>6. CASE LeaveNoLog \/ Toggle
    BY <1>6 DEF LeaveNoLog, Toggle, More, listVars, callVars
  <1>7. CASE ReadPosted \/ ReadSeverity \/ Crash
    BY <1>7 DEF ReadPosted, ReadSeverity, ReadTemp, Crash, More, callVars
  <1>8. CASE ReadComponent
    BY <1>8 DEF ReadComponent, More, callVars
  <1>9. CASE ReadTrapOID \/ Skip
    BY <1>9 DEF ReadTrapOID, Skip, More, listVars, callVars
  <1>. QED
    BY <1>1, <1>2, <1>3, <1>4, <1>5, <1>6, <1>7, <1>8, <1>9 DEF Reading

\* A tag that means nothing to the parse is skipped.
LEMMA AtOther ==
    ASSUME Reading, node.tag \notin {"error", "alert", "log", "trapOID"} \cup InnerTags
    PROVE  Skip
  BY DEF Reading, ReadError, EnterAlert, LeaveAlert, EnterLog, LeaveLog, LeaveNoLog, Toggle,
         ReadPosted, ReadSeverity, Crash, OpensPosted, OpensSeverity, ReadComponent, ReadTrapOID,
         Opens, Is, InnerTags

\* An alert is entered or left; and so is a log, ...
LEMMA AtAlert ==
    ASSUME Reading, node.tag = "alert", node.part # "empty"
    PROVE  IF in_alert THEN LeaveAlert ELSE EnterAlert
  <1>1. Named /\ ~Is("error") /\ ~Opens("log") /\ \A s \in Sections : ~Opens(s)
    BY DEF Named, Opens, Is, Sections
  <1>. QED
    BY <1>1 DEF Reading, ReadError, EnterAlert, LeaveAlert, EnterLog, LeaveLog, LeaveNoLog,
                Toggle, ReadPosted, ReadSeverity, Crash, ReadComponent, ReadTrapOID, Skip

LEMMA AtLog ==
    ASSUME Reading, node.tag = "log", node.part # "empty", in_log => entry # NULL
    PROVE  IF in_log THEN LeaveLog ELSE EnterLog
  <1>1. Named /\ ~Is("error") /\ ~Opens("alert") /\ \A s \in Sections : ~Opens(s)
    BY DEF Named, Opens, Is, Sections
  <1>. QED
    BY <1>1 DEF Reading, ReadError, EnterAlert, LeaveAlert, EnterLog, LeaveLog, LeaveNoLog,
                Toggle, ReadPosted, ReadSeverity, Crash, ReadComponent, ReadTrapOID, Skip

\* ... and a section.
LEMMA AtSectionTag ==
    ASSUME Reading, node.tag \in Sections, node.part # "empty"
    PROVE  /\ inside' = IF node.tag \in inside THEN inside \ {node.tag} ELSE inside \cup {node.tag}
           /\ at' = at + 1
           /\ UNCHANGED <<listVars, in_alert, in_log, found>>
  <1>1. Named /\ ~Is("error") /\ ~Opens("alert") /\ ~Opens("log")
    BY DEF Named, Opens, Is, Sections
  <1>2. Toggle
    BY <1>1 DEF Reading, ReadError, EnterAlert, LeaveAlert, EnterLog, LeaveLog, LeaveNoLog,
                ReadPosted, ReadSeverity, Crash, ReadComponent, ReadTrapOID, Skip
  <1>. QED
    BY <1>2 DEF Toggle, Opens, Is

\* A field is read where it belongs.
LEMMA AtField ==
    ASSUME Reading, node.tag \in {"trapOID", "component", "severity", "posted"}
    PROVE  /\ node.tag = "trapOID" /\ in_alert /\ ~in_log => ReadTrapOID
           /\ node.tag = "component" /\ in_alert /\ in_log /\ inside = {} => ReadComponent
           /\ node.tag = "severity" /\ in_alert /\ in_log /\ inside = {}
                 => IF node.part = "empty" THEN Skip ELSE ReadSeverity \/ Crash
           /\ node.tag = "posted" /\ in_alert /\ in_log /\ inside # {}
                 => IF node.part = "empty" THEN Skip ELSE ReadPosted \/ Crash
  <1>1. ~Named /\ ~Is("error") /\ ~Opens("alert") /\ ~Opens("log") /\ \A s \in Sections : ~Opens(s)
    BY DEF Named, Opens, Is, Sections
  <1>2. ReadPosted \/ ReadSeverity \/ Crash \/ ReadComponent \/ ReadTrapOID \/ Skip
    BY <1>1 DEF Reading, ReadError, EnterAlert, LeaveAlert, EnterLog, LeaveLog, LeaveNoLog, Toggle
  <1>. QED
    BY <1>2 DEF ReadPosted, ReadSeverity, Crash, ReadComponent, ReadTrapOID, Skip, Reads,
                OpensPosted, OpensSeverity, InLog, Opens, Is

\* What the table lists.
LEMMA ListedIs ==
    ASSUME Inv
    PROVE  Listed \in Seq(Entries) /\ (table = NULL => Listed = <<>>)
  <1>1. PICK cs : TableIs(cs)
    BY DEF Inv
  <1>2. IsList(cs, next, table) /\ ListTypeOK
    BY <1>1 DEF Inv, TableIs, Heap
  <1>3. Listed = RecordsOf(cs, rec)
    BY <1>2, ListingIs
  <1>4. cs \in Seq(Cells) /\ rec \in [Cells -> Entries]
    BY <1>2 DEF IsList, ListTypeOK
  <1>5. RecordsOf(cs, rec) \in Seq(Entries)
    <2>1. PICK N \in Nat : N = Len(cs)
      BY <1>4
    <2>2. DOMAIN cs = 1..N /\ \A k \in 1..N : rec[cs[k]] \in Entries
      BY <1>4, <2>1
    <2>3. RecordsOf(cs, rec) = [k \in 1..N |-> rec[cs[k]]]
      BY <2>2 DEF RecordsOf
    <2>. HIDE DEF Entries
    <2>. QED
      BY <2>2, <2>3
  <1>6. table = NULL => Listed = <<>>
    <2>1. RecordsOf(<<>>, rec) = <<>>
      BY DEF RecordsOf
    <2>. QED
      BY <1>2, <1>3, <2>1, EmptyIsNull
  <1>. QED
    BY <1>3, <1>5, <1>6

\* Only the cells of the list matter to it.
LEMMA ListedSame ==
    ASSUME Inv, ListTypeOK', table' = table,
           \A c \in used \ Making : rec'[c] = rec[c] /\ next'[c] = next[c]
    PROVE  Listed' = Listed
  <1>1. PICK cs : TableIs(cs)
    BY DEF Inv
  <1>2. Heap(cs, next, table, used, Making, leaked) /\ ListTypeOK
    BY <1>1 DEF Inv, TableIs
  <1>3. IsList(cs, next, table) /\ CellsOf(cs) \subseteq used \ Making
    BY <1>2 DEF Heap
  <1>4. IsList(cs, next', table')
    BY <1>3, OtherCells
  <1>5. RecordsOf(cs, rec') = RecordsOf(cs, rec)
    BY <1>3, SameRecords
  <1>. QED
    BY <1>2, <1>3, <1>4, <1>5, ListingIs, ListingIsNext

\* Reading a node leaves the table as it is, unless it ends an alert.
LEMMA ReadingLists ==
    ASSUME Inv, Inv', Reading, ~LeaveAlert
    PROVE  Listed' = Listed
  <1>1. ListTypeOK /\ ListTypeOK' /\ table' = table /\ pc = "read"
    BY ReadingIs DEF Inv
  <1>2. /\ next \in [Cells -> Cells \cup {NULL}] /\ rec \in [Cells -> Entries] /\ used \subseteq Cells
    BY <1>1 DEF ListTypeOK
  <1>3. CASE UNCHANGED <<next, rec>>
    BY <1>1, <1>3, ListedSame
  <1>4. CASE EnterLog
    <2>1. PICK c \in Cells \ used : /\ next' = [next EXCEPT ![c] = NULL]
                                    /\ rec' = [rec EXCEPT ![c] = NewLog]
      BY <1>4 DEF EnterLog, NewEntry
    <2>2. \A d \in used \ Making : rec'[d] = rec[d] /\ next'[d] = next[d]
      BY <1>2, <2>1
    <2>. QED
      BY <1>1, <2>2, ListedSame
  <1>5. CASE ReadPosted \/ ReadSeverity \/ ReadComponent
    <2>1. /\ in_log /\ entry # NULL /\ next' = next
          /\ \/ rec' = rec
             \/ \E g, v : rec' = [rec EXCEPT ![entry][g] = v]
      <3>1. CASE ReadPosted \/ ReadSeverity
        BY <3>1 DEF ReadPosted, ReadSeverity, OpensPosted, OpensSeverity, ReadTemp, InLog
      <3>2. CASE ReadComponent
        BY <3>2 DEF ReadComponent, InLog
      <3>. QED
        BY <1>5, <3>1, <3>2
    <2>2. Making = {entry}
      BY <1>1, <2>1 DEF Making, Unfinished
    <2>3. \A d \in used \ Making : rec'[d] = rec[d]
      BY <1>2, <2>1, <2>2
    <2>. QED
      BY <1>1, <2>1, <2>3, ListedSame
  <1>6. CASE \/ ReadError \/ EnterAlert \/ LeaveLog \/ LeaveNoLog \/ Toggle \/ Crash
             \/ ReadTrapOID \/ Skip
    <2>1. UNCHANGED <<next, rec>>
      BY <1>6 DEF ReadError, EnterAlert, LeaveLog, LeaveNoLog, Toggle, Crash, ReadTrapOID, Skip,
                  heapVars, listVars
    <2>. QED
      BY <1>3, <2>1
  <1>. QED
    BY <1>4, <1>5, <1>6 DEF Reading

\* The entry is put to its place.
LEMMA ListedLinked ==
    ASSUME Inv, LinkEntry
    PROVE  /\ rec[entry] \in Entries
           /\ \E p \in 0..Len(Listed) :
                 /\ Listed' = Inserted(Listed, p, rec[entry])
                 /\ \A m \in 1..p : Key(Listed[m]) <= Key(rec[entry])
                 /\ p < Len(Listed) => Key(Listed[p + 1]) > Key(rec[entry])
  <1>1. PICK cs : TableIs(cs)
    BY DEF Inv
  <1>2. ListTypeOK /\ CallInv /\ pc = "link" /\ Link
    BY DEF Inv, LinkEntry, Link, LinkFirst, LinkBefore, LinkLast
  <1>3. in_log /\ entry # NULL /\ entry \in Cells /\ rec \in [Cells -> Entries]
    BY <1>2 DEF CallInv, ListTypeOK
  <1>4. Making = {entry}
    BY <1>2, <1>3 DEF Making, Unfinished
  <1>5. Heap(cs, next, table, used, {entry}, leaked)
    BY <1>1, <1>4 DEF TableIs
  <1>6. PICK k : Place(cs, k, loop, prev, rec, entry)
    BY <1>1, <1>2 DEF TableIs, Walking
  <1>7. /\ ListTypeOK'
        /\ k - 1 \in 0..Len(cs)
        /\ Heap(Inserted(cs, k - 1, entry), next', table', used', {}, leaked)
        /\ \A m \in 1..(k - 1) : Key(rec[cs[m]]) <= Key(rec[entry])
        /\ k - 1 < Len(cs) => Key(rec[cs[(k - 1) + 1]]) > Key(rec[entry])
        /\ rec' = rec
    BY <1>2, <1>3, <1>5, <1>6, LinkHeapStep
  <1>8. cs \in Seq(Cells) /\ IsList(cs, next, table)
    BY <1>5 DEF Heap, IsList
  <1>9. Listed = RecordsOf(cs, rec)
    BY <1>2, <1>8, ListingIs
  <1>10. Listed' = RecordsOf(Inserted(cs, k - 1, entry), rec)
    <2>1. IsList(Inserted(cs, k - 1, entry), next', table')
      BY <1>7 DEF Heap
    <2>. QED
      BY <1>7, <2>1, ListingIsNext
  <1>11. Listed' = Inserted(Listed, k - 1, rec[entry])
    BY <1>3, <1>7, <1>8, <1>9, <1>10, InsertedRecords
  <1>12. PICK N \in Nat : N = Len(cs)
    BY <1>8
  <1>13. Len(Listed) = N /\ \A m \in 1..N : Listed[m] = rec[cs[m]]
    BY <1>8, <1>9, <1>12 DEF RecordsOf
  <1>14. \A m \in 1..(k - 1) : Key(Listed[m]) <= Key(rec[entry])
    BY <1>7, <1>12, <1>13
  <1>15. k - 1 < Len(Listed) => Key(Listed[(k - 1) + 1]) > Key(rec[entry])
    BY <1>7, <1>12, <1>13
  <1>. QED
    BY <1>3, <1>7, <1>11, <1>12, <1>13, <1>14, <1>15

-----------------------------------------------------------------------------
(* What a step does where the parse is.                                    *)

\* What arrived is the beginning of the answer.
LEMMA MessageIs ==
    ASSUME MessageInv, alerts # <<>>
    PROVE  /\ alerts \in Seq(Alerts) /\ Len(alerts) \in Nat \ {0}
           /\ Len(Answer(alerts)) \in Nat
           /\ Len(message) \in 0..Len(Answer(alerts))
           /\ \A p \in 1..Len(message) : message[p] = Answer(alerts)[p]
  <1>1. alerts \in Seq(Alerts) /\ message \in Prefixes(Answer(alerts))
    BY DEF MessageInv
  <1>2. Len(alerts) \in Nat \ {0}
    BY <1>1
  <1>3. Answer(alerts) \in Seq(Nodes)
    BY <1>1, AnswerIn DEF Answers, Nodes
  <1>. HIDE DEF Nodes
  <1>4. Len(Answer(alerts)) \in Nat
    BY <1>3
  <1>. QED
    BY <1>1, <1>2, <1>3, <1>4, PrefixOf

\* The node that is read is the answer's next.
LEMMA NodeIs ==
    ASSUME Inv, MessageInv, alerts # <<>>, Reading
    PROVE  /\ node = Answer(alerts)[at + 1]
           /\ at \in Nat
           /\ at < Len(message)
           /\ at + 1 <= Len(Answer(alerts))
  <1>1. at < Len(message) /\ at \in Nat
    BY ReadingIs DEF Inv, CallInv
  <1>2. PICK L \in Nat : L = Len(message) /\ L <= Len(Answer(alerts))
    BY MessageIs
  <1>3. at + 1 \in 1..L
    BY <1>1, <1>2
  <1>4. Len(Answer(alerts)) \in Nat
    BY MessageIs
  <1>. QED
    BY <1>1, <1>2, <1>3, <1>4, MessageIs DEF node

\* The field at hand: its value is found, or the message breaks off in it.
LEMMA FieldAtHand ==
    ASSUME Inv, MessageInv, alerts # <<>>, Reading,
           NEW tag, tag # "#text", NEW value \in Content, value # 0,
           Lies(Answer(alerts), at, Field(tag, value)),
           at + Len(Field(tag, value)) < Len(Answer(alerts))
    PROVE  /\ node.tag = tag
           /\ Len(Field(tag, value)) \in Nat
           /\ value = SelfClosed => node.part = "empty" /\ Len(Field(tag, value)) = 1
           /\ value # SelfClosed =>
                 /\ node.part = "start"
                 /\ \A old :
                       \/ /\ GetTagValue(message, at + 1, tag, old).at = Len(message)
                          /\ ~GetTagValue(message, at + 1, tag, old).ok
                          /\ Len(message) < Len(Answer(alerts))
                       \/ GetTagValue(message, at + 1, tag, old)
                             = [at |-> at + Len(Field(tag, value)),
                                value |-> IF value = Hollow THEN old ELSE Text(value), ok |-> TRUE]
  <1>1. at \in Nat /\ at < Len(message) /\ node = Answer(alerts)[at + 1]
    BY NodeIs
  <1>2. PICK L \in Nat : L = Len(Answer(alerts))
    BY MessageIs
  <1>3. PICK l \in Nat : l = Len(message)
    BY MessageIs
  <1>4. PICK n : n = Len(Field(tag, value))
    OBVIOUS
  <1>5. n \in Nat
    BY <1>4 DEF Field
  <1>6. CASE value = SelfClosed
    <2>1. Field(tag, value) = <<Node(tag, "empty", 0)>>
      BY <1>6 DEF Field, SelfClosed, Hollow
    <2>2. Len(Field(tag, value)) = 1 /\ Answer(alerts)[at + 1] = Node(tag, "empty", 0)
      BY <2>1 DEF Lies
    <2>. QED
      BY <1>1, <1>6, <2>2 DEF Node
  <1>7. CASE value # SelfClosed
    <2>1. value = Hollow \/ value \in 1..MaxValue
      BY <1>7, CellAssumption DEF Content, Hollow, SelfClosed
    <2>2. PICK A : A = Answer(alerts)
      OBVIOUS
    <2>3. /\ l \in Nat /\ l = Len(message) /\ \A p \in 1..l : message[p] = A[p]
          /\ at \in Nat /\ at < l /\ tag # "#text" /\ Lies(A, at, Field(tag, value))
      BY <1>1, <1>3, <2>2, MessageIs
    <2>4. PICK k : k = at
      OBVIOUS
    <2>5. ASSUME NEW old PROVE Yields(message, l, k, tag, value, old)
      BY ONLY <2>1, <2>3, <2>4, FieldGiven
    <2>6. node = Node(tag, "start", 0)
      <3>1. message[at + 1] = Node(tag, "start", 0)
        BY <2>4, <2>5 DEF Yields
      <3>. QED
        BY <3>1 DEF node
    <2>7. ASSUME NEW old
          PROVE  \/ /\ GetTagValue(message, at + 1, tag, old).at = l /\ l < L
                    /\ ~GetTagValue(message, at + 1, tag, old).ok
                 \/ GetTagValue(message, at + 1, tag, old)
                       = [at |-> at + n,
                          value |-> IF value = Hollow THEN old ELSE Text(value), ok |-> TRUE]
      <3>1. \/ /\ GetTagValue(message, at + 1, tag, old).at = l /\ l < at + n
               /\ ~GetTagValue(message, at + 1, tag, old).ok
            \/ GetTagValue(message, at + 1, tag, old)
                  = [at |-> at + n,
                     value |-> IF value = Hollow THEN old ELSE value, ok |-> TRUE]
        BY <1>4, <2>4, <2>5 DEF Yields
      <3>2. value # Hollow => Text(value) = value
        BY <2>1, TextIs
      <3>3. at + n < L
        BY <1>2, <1>4
      <3>4. CASE /\ GetTagValue(message, at + 1, tag, old).at = l /\ l < at + n
                 /\ ~GetTagValue(message, at + 1, tag, old).ok
        <4>1. l < L
          BY <1>1, <1>2, <1>3, <1>5, <3>3, <3>4
        <4>. QED
          BY <3>4, <4>1
      <3>. QED
        BY <3>1, <3>2, <3>4
    <2>8. node.tag = tag /\ node.part = "start"
      BY <2>6 DEF Node
    <2>. QED
      BY <1>2, <1>3, <1>4, <1>5, <1>7, <2>7, <2>8
  <1>. QED
    BY <1>6, <1>7

\* Outside the logs a node may be skipped, ...
LEMMA ApartSkips ==
    ASSUME Inv, Inv', Reading, Skip, NEW p, NEW within, NEW f, NEW t, Apart(p, within, f, t)
    PROVE  Apart(p + 1, within, f, t)'
  <1>1. ~LeaveAlert
    BY DEF Skip, LeaveAlert, Named
  <1>2. Listed' = Listed
    BY <1>1, ReadingLists
  <1>3. /\ at' = at + 1 /\ UNCHANGED <<pc, in_alert, in_log, inside, found>>
    BY DEF Skip, listVars, flagVars
  <1>. QED
    BY <1>2, <1>3 DEF Apart

\* ... an alert may begin, ...
LEMMA ApartEnters ==
    ASSUME Inv, Inv', Reading, EnterAlert, NEW p, NEW f, NEW t, Apart(p, FALSE, f, t),
           NEW id, node.value = id
    PROVE  Apart(p + 1, TRUE, [f EXCEPT !.alertID = id], t)'
  <1>1. ~LeaveAlert
    BY DEF EnterAlert, LeaveAlert
  <1>2. Listed' = Listed
    BY <1>1, ReadingLists
  <1>3. /\ at' = at + 1 /\ in_alert' = TRUE /\ found' = [found EXCEPT !.alertID = node.value]
        /\ UNCHANGED <<pc, in_log, inside>>
    BY DEF EnterAlert, listVars
  <1>. QED
    BY <1>2, <1>3 DEF Apart

\* ... its trap be told, ...
LEMMA ApartReads ==
    ASSUME Inv, Inv', Reading, ReadTrapOID, NEW p, NEW within, NEW f, NEW t,
           Apart(p, within, f, t), NEW q, at' = q,
           NEW g, found' = g
    PROVE  Apart(q, within, g, t)'
  <1>1. ~LeaveAlert
    BY DEF ReadTrapOID, LeaveAlert, Named
  <1>2. Listed' = Listed
    BY <1>1, ReadingLists
  <1>3. UNCHANGED <<pc, in_alert, in_log, inside>>
    BY DEF ReadTrapOID, listVars, flagVars
  <1>. QED
    BY <1>2, <1>3 DEF Apart

\* ... a log begin, ...
LEMMA ApartOpens ==
    ASSUME Inv, Inv', Reading, EnterLog, NEW p, NEW f, NEW t, Apart(p, TRUE, f, t),
           NEW e, NewLog = e
    PROVE  Amid(p + 1, {}, f, e, t)'
  <1>1. ~LeaveAlert
    BY DEF EnterLog, LeaveAlert, Opens, Is
  <1>2. Listed' = Listed
    BY <1>1, ReadingLists
  <1>3. /\ at' = at + 1 /\ in_log' = TRUE /\ UNCHANGED <<pc, in_alert, inside, found>>
        /\ NewEntry(NewLog)
    BY DEF EnterLog
  <1>4. PICK c \in Cells : entry' = c /\ rec' = [rec EXCEPT ![c] = e]
    BY <1>3 DEF NewEntry
  <1>5. entry' # NULL /\ rec'[entry'] = e
    BY <1>4 DEF Cells, NULL, Inv, ListTypeOK
  <1>. QED
    BY <1>2, <1>3, <1>5 DEF Apart, Amid

\* ... or the alert end: every entry of it is complete then.
LEMMA ApartLeaves ==
    ASSUME Inv, Inv', Reading, LeaveAlert, NEW a, NEW p, NEW t,
           Apart(p, TRUE, FoundBy(a, Len(a.logs)), t), NEW w, DOMAIN w = DOMAIN t,
           \A i \in DOMAIN t : w[i] = Completed(a, t[i]) /\ Key(w[i]) = Key(t[i])
    PROVE  Apart(p + 1, FALSE, NothingFound, w)'
  <1>1. /\ at' = at + 1 /\ in_alert' = FALSE /\ found' = NothingFound
        /\ UNCHANGED <<pc, table, next, in_log, inside>>
        /\ rec' = [c \in Cells |->
                     IF found.alertID # NULL /\ c \in ListedCells /\ SourceOfAlert(rec[c])
                     THEN [rec[c] EXCEPT !["source"] =
                              IF found.source # NULL THEN found.source ELSE Blank]
                     ELSE rec[c]]
    BY DEF LeaveAlert
  <1>2. found.alertID = a.id /\ found.source = FoundSource(a, Len(a.logs))
    BY DEF Apart, FoundBy
  <1>3. PICK cs : TableIs(cs)
    BY DEF Inv
  <1>4. IsList(cs, next, table) /\ ListTypeOK /\ ListTypeOK'
    BY <1>3 DEF Inv, TableIs, Heap
  <1>5. ListedCells = CellsOf(cs) /\ Listed = RecordsOf(cs, rec)
    BY <1>4, ListingIs
  <1>6. IsList(cs, next', table')
    BY <1>1, <1>4
  <1>7. Listed' = RecordsOf(cs, rec')
    BY <1>4, <1>6, ListingIsNext
  <1>8. ASSUME NEW c \in CellsOf(cs) PROVE rec'[c] = Completed(a, rec[c])
    <2>1. c \in Cells
      BY <1>4, ListIsShort
    <2>2. SourceOfAlert(rec[c]) <=> rec[c]["alertID"] = a.id /\ rec[c]["source"] = NULL
      BY <1>2 DEF SourceOfAlert
    <2>. QED
      BY <1>1, <1>2, <1>5, <2>1, <2>2 DEF Completed
  <1>9. /\ DOMAIN Listed = DOMAIN cs /\ DOMAIN Listed' = DOMAIN cs
        /\ \A i \in DOMAIN cs : Listed'[i] = Completed(a, Listed[i])
    <2>1. \A i \in DOMAIN cs : cs[i] \in CellsOf(cs)
      BY DEF CellsOf
    <2>. QED
      BY <1>5, <1>7, <1>8, <2>1 DEF RecordsOf
  <1>10. Sorts(Listed, t)
    BY DEF Apart
  <1>11. Sorts(Listed', w)
    <2>1. \A i \in DOMAIN Listed, j \in DOMAIN t : Listed[i] = t[j] => Listed'[i] = w[j]
      BY <1>9
    <2>. QED
      BY <1>9, <1>10, <2>1, SortsChanged
  <1>. QED
    BY <1>1, <1>11 DEF Apart

\* In a log a node may be skipped, ...
LEMMA AmidSkips ==
    ASSUME Inv, Inv', Reading, Skip, NEW p, NEW S, NEW f, NEW e, NEW t, Amid(p, S, f, e, t)
    PROVE  Amid(p + 1, S, f, e, t)'
  <1>1. ~LeaveAlert
    BY DEF Skip, LeaveAlert, Named
  <1>2. Listed' = Listed
    BY <1>1, ReadingLists
  <1>3. at' = at + 1 /\ UNCHANGED <<pc, in_alert, in_log, inside, found, entry, rec>>
    BY DEF Skip, listVars, flagVars, heapVars
  <1>. QED
    BY <1>2, <1>3 DEF Amid

\* ... a section begin or end, ...
LEMMA AmidToggles ==
    ASSUME Inv, Inv', Reading, NEW p, NEW S, NEW f, NEW e, NEW t, Amid(p, S, f, e, t),
           node.tag \in Sections, node.part # "empty",
           NEW T, T = IF node.tag \in S THEN S \ {node.tag} ELSE S \cup {node.tag}
    PROVE  Amid(p + 1, T, f, e, t)'
  <1>1. ~LeaveAlert
    BY DEF LeaveAlert, Opens, Is, Sections
  <1>2. Listed' = Listed
    BY <1>1, ReadingLists
  <1>3. /\ inside' = IF node.tag \in inside THEN inside \ {node.tag} ELSE inside \cup {node.tag}
        /\ at' = at + 1 /\ UNCHANGED <<pc, in_alert, in_log, found, entry, rec>>
    BY AtSectionTag DEF listVars, heapVars
  <1>. QED
    BY <1>2, <1>3 DEF Amid

\* ... a field be read.
LEMMA AmidReads ==
    ASSUME Inv, Inv', Reading, ReadComponent \/ ReadPosted \/ ReadSeverity,
           NEW p, NEW S, NEW f, NEW e, NEW t, Amid(p, S, f, e, t),
           NEW q, at' = q, NEW g, found' = g, NEW d, rec'[entry] = d
    PROVE  Amid(q, S, g, d, t)'
  <1>1. ~LeaveAlert
    BY DEF ReadComponent, ReadPosted, ReadSeverity, LeaveAlert, Named
  <1>2. Listed' = Listed
    BY <1>1, ReadingLists
  <1>3. UNCHANGED <<pc, in_alert, in_log, inside, entry>>
    BY DEF ReadComponent, ReadPosted, ReadSeverity, ReadTemp, flagVars
  <1>. QED
    BY <1>2, <1>3 DEF Amid

\* It has broken off.
LEMMA BreaksOff ==
    ASSUME Reading, pc' = "read", at' = Len(message), Len(message) < Len(Answer(alerts))
    PROVE  BrokenOff'
  BY ReadingIs DEF BrokenOff

\* Which logs come before which.
LEMMA QuietIs ==
    ASSUME NEW al \in Seq(Alerts)
    PROVE  /\ Quiet(al, 1, 1)
           /\ \A n \in 1..Len(al) : Quiet(al, n, Len(al[n].logs) + 1) => Quiet(al, n + 1, 1)
           /\ \A n \in 1..Len(al) : \A m \in 1..Len(al[n].logs) :
                 Quiet(al, n, m) /\ ~Opened(FirstOf(al[n].logs[m])) => Quiet(al, n, m + 1)
  <1>1. PICK N \in Nat : N = Len(al) /\ DOMAIN al = 1..N
    OBVIOUS
  <1>2. \A k \in 1..N : Len(al[k].logs) \in Nat /\ DOMAIN al[k].logs = 1..Len(al[k].logs)
    BY <1>1, AlertIs
  <1>3. Quiet(al, 1, 1)
    BY <1>1, <1>2 DEF Quiet
  <1>4. ASSUME NEW n \in 1..N, Quiet(al, n, Len(al[n].logs) + 1) PROVE Quiet(al, n + 1, 1)
    <2>. SUFFICES ASSUME NEW k \in 1..N, NEW j \in 1..Len(al[k].logs),
                         k < n + 1 \/ (k = n + 1 /\ j < 1)
                  PROVE  ~Opened(FirstOf(al[k].logs[j]))
      BY <1>1, <1>2 DEF Quiet
    <2>1. Len(al[k].logs) \in Nat /\ j \in DOMAIN al[k].logs /\ k \in DOMAIN al
      BY <1>1, <1>2
    <2>2. k < n \/ (k = n /\ j < Len(al[n].logs) + 1)
      BY <2>1
    <2>. QED
      BY <1>4, <2>1, <2>2 DEF Quiet
  <1>5. ASSUME NEW n \in 1..N, NEW m \in 1..Len(al[n].logs),
               Quiet(al, n, m), ~Opened(FirstOf(al[n].logs[m]))
        PROVE  Quiet(al, n, m + 1)
    <2>. SUFFICES ASSUME NEW k \in 1..N, NEW j \in 1..Len(al[k].logs),
                         k < n \/ (k = n /\ j < m + 1)
                  PROVE  ~Opened(FirstOf(al[k].logs[j]))
      BY <1>1, <1>2 DEF Quiet
    <2>1. j \in Nat /\ m \in Nat /\ j \in DOMAIN al[k].logs /\ k \in DOMAIN al
      BY <1>1, <1>2
    <2>2. (k < n \/ (k = n /\ j < m)) \/ (k = n /\ j = m)
      BY <2>1
    <2>. QED
      BY <1>5, <2>1, <2>2 DEF Quiet
  <1>. QED
    BY <1>1, <1>3, <1>4, <1>5

\* Reading does not take back what temp_value came to.
LEMMA CalmOn ==
    ASSUME Reading
    PROVE  \A n, m : (Calm(n, m) => Calm(n, m)') /\ (CalmIn(n, m) => CalmIn(n, m)')
  BY ReadingIs DEF Calm, CalmIn, LogOf

\* Past a log that opens neither, it is as calm.
LEMMA CalmPast ==
    ASSUME NEW al \in Seq(Alerts), al = alerts', NEW n \in 1..Len(al),
           NEW m \in 1..Len(al[n].logs), CalmIn(n, m)',
           unset' => ~Opened(al[n].logs[m].posted)
    PROVE  Calm(n, m + 1)'
  <1>. SUFFICES ASSUME unset' PROVE Quiet(al, n, m + 1)
    BY DEF Calm
  <1>1. Quiet(al, n, m) /\ ~Opened(al[n].logs[m].severity)
    BY DEF CalmIn, LogOf
  <1>2. ~Opened(FirstOf(al[n].logs[m]))
    BY <1>1 DEF FirstOf
  <1>. QED
    BY <1>1, <1>2, QuietIs

\* The log at hand is the first that opens one of the two, and that is hollow.
LEMMA HollowFirst ==
    ASSUME NEW al \in Seq(Alerts), al = alerts', NEW n \in 1..Len(al),
           NEW m \in 1..Len(al[n].logs), Quiet(al, n, m), FirstOf(al[n].logs[m]) = Hollow
    PROVE  FirstIsHollow'
  <1>1. n \in DOMAIN al /\ m \in DOMAIN al[n].logs
    BY AlertIs
  <1>. QED
    BY <1>1 DEF FirstIsHollow, Quiet

\* The answer begins.
LEMMA FromBefore ==
    ASSUME Inv, Inv', MessageInv, alerts # <<>>, Reading, BeforeAll
    PROVE  Outside(1)'
  <1>1. PICK al : al = alerts /\ alerts' = al
    BY ReadingIs
  <1>2. al \in Seq(Alerts)
    BY <1>1, MessageIs
  <1>3. PICK p : p = 0
    OBVIOUS
  <1>4. PICK t : t = <<>>
    OBVIOUS
  <1>5. Apart(p, FALSE, NothingFound, t) /\ at = 0
    BY <1>3, <1>4 DEF BeforeAll, Apart
  <1>6. node = Node("response", "start", 0)
    <2>1. node = Answer(al)[1]
      BY <1>1, <1>5, NodeIs
    <2>. QED
      BY <1>2, <2>1, AlertPlaces
  <1>7. Skip
    BY <1>6, AtOther DEF Node, InnerTags, Sections
  <1>8. Apart(p + 1, FALSE, NothingFound, t)'
    BY <1>5, <1>7, ApartSkips
  <1>9. AlertAt(al, 1) = p + 1 /\ Told(al, 1 - 1) = t
    <2>1. 1 - 1 = 0 /\ p + 1 = 1
      BY <1>3
    <2>. QED
      BY <1>2, <1>4, <2>1, AlertPlaces, ToldIs
  <1>10. Calm(1, 1)'
    BY <1>1, <1>2, QuietIs DEF Calm
  <1>. QED
    BY <1>1, <1>8, <1>9, <1>10 DEF Outside, Apart

\* The answer ends.
LEMMA FromAlertsEnd ==
    ASSUME Inv, Inv', MessageInv, alerts # <<>>, Reading, Outside(Len(alerts) + 1)
    PROVE  PastAll'
  <1>1. PICK al : al = alerts /\ alerts' = al
    BY ReadingIs
  <1>2. al \in Seq(Alerts)
    BY <1>1, MessageIs
  <1>3. PICK N \in Nat : N = Len(al)
    BY <1>2
  <1>4. PICK p : p = AlertAt(al, N + 1)
    OBVIOUS
  <1>5. PICK t : t = Told(al, N)
    OBVIOUS
  <1>6. Apart(p, FALSE, NothingFound, t) /\ at = p
    <2>1. (N + 1) - 1 = N
      BY <1>3
    <2>. QED
      BY <1>1, <1>3, <1>4, <1>5, <2>1 DEF Outside, Apart
  <1>7. p + 1 = Len(Answer(al)) /\ Answer(al)[Len(Answer(al))] = Node("response", "end", 0)
    BY <1>2, <1>3, <1>4, AlertPlaces
  <1>8. node = Node("response", "end", 0)
    BY <1>1, <1>6, <1>7, NodeIs
  <1>9. Skip
    BY <1>8, AtOther DEF Node, InnerTags, Sections
  <1>10. Apart(p + 1, FALSE, NothingFound, t)'
    BY <1>6, <1>9, ApartSkips
  <1>. QED
    BY <1>1, <1>3, <1>5, <1>7, <1>10 DEF PastAll, Apart

\* What was found when an alert has begun is what was found by its first log, but for the trap.
LEMMA FoundFirst ==
    ASSUME NEW a \in Alerts
    PROVE  FoundBy(a, 0) = [[NothingFound EXCEPT !.alertID = a.id]
                               EXCEPT !.SNMPtrapOID = Text(a.trapOID)]
  <1>1. PICK s, t : s = FoundSource(a, 0) /\ t = Text(a.trapOID)
    OBVIOUS
  <1>2. PICK f : f = [NothingFound EXCEPT !.alertID = a.id]
    OBVIOUS
  <1>3. f = [alertID |-> a.id, source |-> NULL, SNMPtrapOID |-> NULL]
    BY <1>2 DEF NothingFound
  <1>4. [f EXCEPT !.SNMPtrapOID = t] = [alertID |-> a.id, source |-> NULL, SNMPtrapOID |-> t]
    BY <1>3
  <1>5. s = NULL
    BY <1>1, FoundSourceIs
  <1>. QED
    BY <1>1, <1>2, <1>4, <1>5 DEF FoundBy

\* An alert begins: to its trap, or to its first log.
LEMMA FromOutside ==
    ASSUME Inv, Inv', MessageInv, alerts # <<>>, Reading, NEW n \in 1..Len(alerts), Outside(n)
    PROVE  AtTrap(n)' \/ Between(n, 1)'
  <1>1. PICK al : al = alerts /\ alerts' = al
    BY ReadingIs
  <1>2. al \in Seq(Alerts) /\ n \in 1..Len(al)
    BY <1>1, MessageIs
  <1>3. PICK a \in Alerts : a = al[n]
    BY <1>2
  <1>4. PICK p : p = AlertAt(al, n)
    OBVIOUS
  <1>5. PICK t : t = Told(al, n - 1)
    OBVIOUS
  <1>6. Apart(p, FALSE, NothingFound, t) /\ at = p /\ ~in_alert
    BY <1>1, <1>4, <1>5 DEF Outside, Apart
  <1>7. p \in Nat /\ Answer(al)[p + 1] = Node("alert", "start", a.id)
        /\ LogAt(al, n, 1) = p + 1 + Len(Given("trapOID", a.trapOID))
    BY <1>2, <1>3, <1>4, LogPlaces
  <1>8. node = Node("alert", "start", a.id)
    BY <1>1, <1>6, <1>7, NodeIs
  <1>9. EnterAlert /\ node.value = a.id
    BY <1>6, <1>8, AtAlert DEF Node
  <1>10. PICK f : f = [NothingFound EXCEPT !.alertID = a.id]
    OBVIOUS
  <1>11. Apart(p + 1, TRUE, f, t)'
    BY <1>6, <1>9, <1>10, ApartEnters
  <1>12. Calm(n, 1)'
    BY CalmOn DEF Outside
  <1>13. CASE a.trapOID # 0
    BY <1>1, <1>3, <1>4, <1>5, <1>10, <1>11, <1>12, <1>13 DEF AtTrap, Alert, Apart
  <1>14. CASE a.trapOID = 0
    <2>1. LogAt(al, n, 1) = p + 1
      BY <1>7, <1>14 DEF Given
    <2>2. FoundBy(a, 0) = f
      <3>1. Text(a.trapOID) = NULL
        BY <1>14, TextIs, AlertIs
      <3>2. f = [alertID |-> a.id, source |-> NULL, SNMPtrapOID |-> NULL]
        BY <1>10 DEF NothingFound
      <3>3. FoundBy(a, 0) = [f EXCEPT !.SNMPtrapOID = NULL]
        BY <1>10, <3>1, FoundFirst
      <3>. QED
        BY <3>2, <3>3
    <2>3. ToldSoFar(al, n, 0) = t
      BY <1>2, <1>5, ToldSoFarIs
    <2>4. 1 - 1 = 0
      OBVIOUS
    <2>5. Between(n, 1)'
      BY <1>1, <1>3, <1>11, <1>12, <2>1, <2>2, <2>3, <2>4 DEF Between, Alert, Apart
    <2>. QED
      BY <2>5
  <1>. QED
    BY <1>13, <1>14

\* The trap is told: to the first log, or the message breaks off.
LEMMA FromTrap ==
    ASSUME Inv, Inv', MessageInv, alerts # <<>>, Reading, NEW n \in 1..Len(alerts), AtTrap(n)
    PROVE  Between(n, 1)' \/ BrokenOff'
  <1>1. PICK al : al = alerts /\ alerts' = al
    BY ReadingIs
  <1>2. al \in Seq(Alerts) /\ n \in 1..Len(al)
    BY <1>1, MessageIs
  <1>3. PICK a \in Alerts : a = al[n]
    BY <1>2
  <1>4. PICK p : p = AlertAt(al, n) + 1
    OBVIOUS
  <1>5. PICK t : t = Told(al, n - 1)
    OBVIOUS
  <1>6. PICK f : f = [NothingFound EXCEPT !.alertID = a.id]
    OBVIOUS
  <1>7. PICK v \in Content : v = a.trapOID
    BY AlertIs
  <1>8. Apart(p, TRUE, f, t) /\ v # 0
    BY <1>1, <1>3, <1>4, <1>5, <1>6, <1>7 DEF AtTrap, Alert
  <1>9. at = p /\ in_alert /\ ~in_log /\ found = f /\ pc = "read"
    BY <1>8 DEF Apart
  <1>10. PICK k \in Nat : k = Len(Field("trapOID", v))
    BY DEF Field
  <1>11. /\ Lies(Answer(al), p, Field("trapOID", v)) /\ LogAt(al, n, 1) = p + k
         /\ p + k < Len(Answer(al))
    <2>1. /\ Lies(Answer(al), p, Given("trapOID", a.trapOID))
          /\ LogAt(al, n, 1) = p + Len(Given("trapOID", a.trapOID))
      BY <1>2, <1>3, <1>4, LogPlaces
    <2>2. Given("trapOID", a.trapOID) = Field("trapOID", v)
      BY <1>7, <1>8 DEF Given
    <2>3. LogAt(al, n, 1) \in Nat /\ LogAt(al, n, 1) < Len(Answer(al)) - 1
      <3>1. 1 \in 1..(Len(a.logs) + 1)
        BY AlertIs
      <3>. QED
        BY <1>2, <1>3, <3>1, LogPlaces
    <2>. QED
      BY <1>2, <1>10, <2>1, <2>2, <2>3, AlertPlaces
  <1>12. /\ node.tag = "trapOID"
         /\ v = SelfClosed => node.part = "empty" /\ k = 1
         /\ v # SelfClosed =>
               /\ node.part = "start"
               /\ \A old :
                     \/ /\ GetTagValue(message, at + 1, "trapOID", old).at = Len(message)
                        /\ ~GetTagValue(message, at + 1, "trapOID", old).ok
                        /\ Len(message) < Len(Answer(al))
                     \/ GetTagValue(message, at + 1, "trapOID", old)
                           = [at |-> at + k,
                              value |-> IF v = Hollow THEN old ELSE Text(v), ok |-> TRUE]
    BY <1>1, <1>8, <1>9, <1>10, <1>11, FieldAtHand
  <1>13. ReadTrapOID
    BY <1>9, <1>12, AtField
  <1>14. CASE v # SelfClosed /\ GetTagValue(message, at + 1, "trapOID", found.SNMPtrapOID).at = Len(message)
              /\ Len(message) < Len(Answer(al))
    <2>1. at' = Len(message) /\ pc' = "read"
      BY <1>9, <1>12, <1>13, <1>14 DEF ReadTrapOID, listVars
    <2>. QED
      BY <1>1, <1>14, <2>1, BreaksOff
  <1>15. CASE \/ v = SelfClosed
              \/ GetTagValue(message, at + 1, "trapOID", found.SNMPtrapOID)
                    = [at |-> at + k,
                       value |-> IF v = Hollow THEN found.SNMPtrapOID ELSE Text(v), ok |-> TRUE]
    <2>1. found.SNMPtrapOID = NULL
      BY <1>6, <1>9 DEF NothingFound
    <2>2. Text(v) = IF v = SelfClosed THEN Blank ELSE IF v = Hollow THEN NULL ELSE Text(v)
      BY TextIs
    <2>3. at' = p + k /\ found' = [found EXCEPT !.SNMPtrapOID = Text(v)]
      <3>1. CASE v = SelfClosed
        BY <1>9, <1>12, <1>13, <2>2, <3>1 DEF ReadTrapOID
      <3>2. CASE v # SelfClosed
        BY <1>9, <1>12, <1>13, <1>15, <2>1, <2>2, <3>2 DEF ReadTrapOID
      <3>. QED
        BY <3>1, <3>2
    <2>4. found' = FoundBy(a, 0)
      BY <1>6, <1>7, <1>9, <2>3, FoundFirst
    <2>5. Apart(p + k, TRUE, FoundBy(a, 0), t)'
      BY <1>8, <1>13, <2>3, <2>4, ApartReads
    <2>6. ToldSoFar(al, n, 0) = t /\ 1 - 1 = 0
      BY <1>2, <1>5, ToldSoFarIs
    <2>7. Calm(n, 1)'
      BY CalmOn DEF AtTrap
    <2>8. Between(n, 1)'
      BY <1>1, <1>3, <1>11, <2>5, <2>6, <2>7 DEF Between, Alert, Apart
    <2>. QED
      BY <2>8
  <1>. QED
    BY <1>12, <1>14, <1>15

\* An alert ends.
LEMMA FromLogsEnd ==
    ASSUME Inv, Inv', MessageInv, alerts # <<>>, Reading, NEW n \in 1..Len(alerts),
           Between(n, Len(Alert(n).logs) + 1)
    PROVE  Outside(n + 1)'
  <1>1. PICK al : al = alerts /\ alerts' = al
    BY ReadingIs
  <1>2. al \in Seq(Alerts) /\ n \in 1..Len(al)
    BY <1>1, MessageIs
  <1>3. PICK a \in Alerts : a = al[n]
    BY <1>2
  <1>4. PICK M \in Nat : M = Len(a.logs)
    BY AlertIs
  <1>5. PICK p : p = LogAt(al, n, M + 1)
    OBVIOUS
  <1>6. PICK t : t = ToldSoFar(al, n, M)
    OBVIOUS
  <1>7. Apart(p, TRUE, FoundBy(a, M), t) /\ at = p /\ in_alert
    <2>1. (M + 1) - 1 = M
      OBVIOUS
    <2>. QED
      BY <1>1, <1>3, <1>4, <1>5, <1>6, <2>1 DEF Between, Alert, Apart
  <1>8. p \in Nat /\ Answer(al)[p + 1] = Node("alert", "end", a.id) /\ AlertAt(al, n + 1) = p + 1
    <2>1. M + 1 \in 1..(M + 1)
      OBVIOUS
    <2>. QED
      BY <1>2, <1>3, <1>4, <1>5, <2>1, LogPlaces
  <1>9. node = Node("alert", "end", a.id)
    BY <1>1, <1>7, <1>8, NodeIs
  <1>10. LeaveAlert
    BY <1>7, <1>9, AtAlert DEF Node
  <1>11. PICK w : w = Told(al, n)
    OBVIOUS
  <1>12. t \in Seq(Entries) /\ w \in Seq(Entries) /\ Len(w) = Len(t)
         /\ \A i \in 1..Len(w) : w[i] = Completed(a, t[i]) /\ Key(w[i]) = Key(t[i])
    <2>1. M \in 0..M /\ n \in 0..Len(al)
      BY <1>2
    <2>2. w \in Sourced
      BY <1>2, <1>11, <2>1, ToldIs
    <2>3. w \in Seq(Entries)
      BY <2>2 DEF Sourced
    <2>4. t \in Seq(Entries)
      BY <1>2, <1>3, <1>4, <1>6, <2>1, ToldSoFarIs
    <2>. QED
      BY <1>2, <1>3, <1>4, <1>6, <1>11, <2>3, <2>4, ToldSoFarIs, SMTT(30)
  <1>13. DOMAIN w = DOMAIN t /\ \A i \in DOMAIN t : w[i] = Completed(a, t[i]) /\ Key(w[i]) = Key(t[i])
    <2>. HIDE DEF Entries
    <2>1. PICK N \in Nat : N = Len(t)
      BY <1>12
    <2>. QED
      BY <1>12, <2>1
  <1>14. Apart(p + 1, FALSE, NothingFound, w)'
    BY <1>4, <1>7, <1>10, <1>13, ApartLeaves
  <1>15. (n + 1) - 1 = n
    OBVIOUS
  <1>16. Calm(n + 1, 1)'
    <2>1. Calm(n, M + 1)'
      BY <1>1, <1>3, <1>4, CalmOn DEF Between, Alert
    <2>. QED
      BY <1>1, <1>2, <1>3, <1>4, <2>1, QuietIs DEF Calm
  <1>. QED
    BY <1>1, <1>8, <1>11, <1>14, <1>15, <1>16 DEF Outside, Apart

\* The entry of a log that begins.
LEMMA NewLogIs ==
    ASSUME NEW a \in Alerts, NEW m \in 1..Len(a.logs), NEW l, l = a.logs[m],
           node.value = l.id, found = FoundBy(a, m - 1)
    PROVE  NewLog = Made(a, l, NULL, NULL, NULL)
  <1>1. Tags = {"logID", "alertID", "source", "SNMPtrap_OID", "severity", "callhome", "ealert", "snmp"}
    BY TagAssumption DEF AlertTags, Sections
  <1>2. PICK c \in {"callhome", "ealert", "snmp"} : c = l.section
    BY AlertIs DEF Sections
  <1>3. PICK t : t = Text(a.trapOID)
    OBVIOUS
  <1>4. PICK i, j : i = l.id /\ j = a.id
    OBVIOUS
  <1>5. NewLog = [Zeroed EXCEPT !["logID"] = i, !["alertID"] = j, !["SNMPtrap_OID"] = t]
    BY <1>3, <1>4 DEF NewLog, FoundBy
  <1>6. Made(a, l, NULL, NULL, NULL)
           = [Zeroed EXCEPT !["logID"] = i, !["alertID"] = j, !["source"] = NULL,
                            !["SNMPtrap_OID"] = t, !["severity"] = NULL, ![c] = NULL]
    BY <1>2, <1>3, <1>4 DEF Made
  <1>. QED
    BY <1>1, <1>5, <1>6 DEF Zeroed

\* Its component told or left out, a log goes on to its severity or to its section.
LEMMA ToSeverity ==
    ASSUME NEW al \in Seq(Alerts), al = alerts', NEW n \in 1..Len(al), NEW a, a = al[n],
           NEW m \in 1..Len(a.logs), NEW l, l = a.logs[m], NEW t, t = ToldSoFar(al, n, m - 1),
           Amid(SeverityAt(al, n, m), {}, FoundBy(a, m), Made(a, l, Text(l.component), NULL, NULL), t)',
           Calm(n, m)'
    PROVE  AtSeverity(n, m)' \/ AtSection(n, m)'
  <1>1. CASE l.severity # 0
    <2>1. AtSeverity(n, m)'
      BY <1>1 DEF AtSeverity, Alert, LogOf, Amid
    <2>. QED
      BY <2>1
  <1>2. CASE l.severity = 0
    <2>1. SectionAt(al, n, m) = SeverityAt(al, n, m)
      <3>1. Len(Given("severity", l.severity)) = 0
        BY <1>2 DEF Given
      <3>2. SeverityAt(al, n, m) \in Nat
        BY SectionPlaces
      <3>. QED
        BY <3>1, <3>2 DEF SectionAt
    <2>2. Severity(l) = NULL
      BY <1>2, PostedIs
    <2>3. CalmIn(n, m)'
      BY <1>2 DEF Calm, CalmIn, LogOf, Opened
    <2>4. AtSection(n, m)'
      BY <2>1, <2>2, <2>3 DEF AtSection, Alert, LogOf, Amid
    <2>. QED
      BY <2>4
  <1>. QED
    BY <1>1, <1>2

\* A log begins: to its component, to its severity, or to its section.
LEMMA FromBetween ==
    ASSUME Inv, Inv', MessageInv, alerts # <<>>, Reading, NEW n \in 1..Len(alerts),
           NEW m \in 1..Len(Alert(n).logs), Between(n, m)
    PROVE  AtComponent(n, m)' \/ AtSeverity(n, m)' \/ AtSection(n, m)'
  <1>1. PICK al : al = alerts /\ alerts' = al
    BY ReadingIs
  <1>2. al \in Seq(Alerts) /\ n \in 1..Len(al) /\ m \in 1..Len(al[n].logs)
    BY <1>1, MessageIs DEF Alert
  <1>3. PICK a \in Alerts : a = al[n]
    BY <1>2
  <1>4. PICK l : l = al[n].logs[m]
    OBVIOUS
  <1>5. PICK p : p = LogAt(al, n, m)
    OBVIOUS
  <1>6. PICK t : t = ToldSoFar(al, n, m - 1)
    OBVIOUS
  <1>7. PICK f : f = FoundBy(a, m - 1)
    OBVIOUS
  <1>8. Apart(p, TRUE, f, t) /\ at = p /\ ~in_log /\ found = f
    BY <1>1, <1>3, <1>5, <1>6, <1>7 DEF Between, Alert, Apart
  <1>9. p \in Nat /\ Answer(al)[p + 1] = Node("log", "start", l.id)
    <2>1. /\ LogAt(al, n, m) \in Nat
          /\ Answer(al)[LogAt(al, n, m) + 1] = Node("log", "start", l.id)
      BY <1>2, <1>4, SectionPlaces
    <2>. QED
      BY <1>5, <2>1
  <1>10. node = Node("log", "start", l.id)
    BY <1>1, <1>8, <1>9, NodeIs
  <1>11. EnterLog /\ node.value = l.id
    BY <1>8, <1>10, AtLog DEF Node
  <1>12. PICK e : e = Made(a, l, NULL, NULL, NULL)
    OBVIOUS
  <1>13. NewLog = e
    BY <1>2, <1>3, <1>4, <1>7, <1>8, <1>11, <1>12, NewLogIs
  <1>14. Amid(p + 1, {}, f, e, t)'
    BY <1>8, <1>11, <1>13, ApartOpens
  <1>15. Calm(n, m)'
    BY CalmOn DEF Between
  <1>16. CASE l.component # 0
    <2>1. AtComponent(n, m)'
      BY <1>1, <1>3, <1>4, <1>5, <1>6, <1>7, <1>12, <1>14, <1>15, <1>16
         DEF AtComponent, Alert, LogOf, Amid
    <2>. QED
      BY <2>1
  <1>17. CASE l.component = 0
    <2>1. SeverityAt(al, n, m) = p + 1
      <3>1. Len(Given("component", l.component)) = 0
        BY <1>17 DEF Given
      <3>. QED
        BY <1>4, <1>5, <1>9, <3>1 DEF SeverityAt
    <2>2. FoundBy(a, m) = f
      BY <1>2, <1>3, <1>4, <1>7, <1>17, FoundSourceIs DEF FoundBy
    <2>3. Text(l.component) = NULL
      BY <1>2, <1>3, <1>4, <1>17, AlertIs, TextIs
    <2>4. Amid(SeverityAt(al, n, m), {}, FoundBy(a, m), Made(a, l, Text(l.component), NULL, NULL), t)'
      BY <1>12, <1>14, <2>1, <2>2, <2>3
    <2>. QED
      BY <1>1, <1>2, <1>3, <1>4, <1>6, <1>15, <2>4, ToSeverity
  <1>. QED
    BY <1>16, <1>17

\* The component is told: to the severity or the section, or the message breaks off.
LEMMA FromComponent ==
    ASSUME Inv, Inv', MessageInv, alerts # <<>>, Reading, NEW n \in 1..Len(alerts),
           NEW m \in 1..Len(Alert(n).logs), AtComponent(n, m)
    PROVE  AtSeverity(n, m)' \/ AtSection(n, m)' \/ BrokenOff'
  <1>1. PICK al : al = alerts /\ alerts' = al
    BY ReadingIs
  <1>2. al \in Seq(Alerts) /\ n \in 1..Len(al) /\ m \in 1..Len(al[n].logs)
    BY <1>1, MessageIs DEF Alert
  <1>3. PICK a \in Alerts : a = al[n]
    BY <1>2
  <1>4. PICK l : l = al[n].logs[m]
    OBVIOUS
  <1>5. PICK p : p = LogAt(al, n, m) + 1
    OBVIOUS
  <1>6. PICK t : t = ToldSoFar(al, n, m - 1)
    OBVIOUS
  <1>7. PICK f : f = FoundBy(a, m - 1)
    OBVIOUS
  <1>8. PICK e : e = Made(a, l, NULL, NULL, NULL)
    OBVIOUS
  <1>9. PICK v \in Content : v = l.component
    BY <1>2, <1>3, <1>4, AlertIs
  <1>10. Amid(p, {}, f, e, t) /\ v # 0
    BY <1>1, <1>3, <1>4, <1>5, <1>6, <1>7, <1>8, <1>9 DEF AtComponent, Alert, LogOf
  <1>11. /\ at = p /\ in_alert /\ in_log /\ inside = {} /\ found = f /\ pc = "read"
         /\ entry # NULL /\ rec[entry] = e
    BY <1>10 DEF Amid
  <1>12. PICK k \in Nat : k = Len(Field("component", v))
    BY DEF Field
  <1>13. /\ Lies(Answer(al), p, Field("component", v)) /\ SeverityAt(al, n, m) = p + k
         /\ p + k < Len(Answer(al))
    <2>1. /\ Lies(Answer(al), p, Given("component", l.component))
          /\ SeverityAt(al, n, m) = p + Len(Given("component", l.component))
      BY <1>2, <1>4, <1>5, SectionPlaces DEF SeverityAt
    <2>2. Given("component", l.component) = Field("component", v)
      BY <1>9, <1>10 DEF Given
    <2>3. /\ SeverityAt(al, n, m) \in Nat /\ SectionAt(al, n, m) \in Nat /\ EndAt(al, n, m) \in Nat
          /\ SeverityAt(al, n, m) <= SectionAt(al, n, m) /\ SectionAt(al, n, m) < EndAt(al, n, m)
          /\ EndAt(al, n, m) + 2 < Len(Answer(al))
      BY <1>2, <1>4, SectionPlaces
    <2>4. Len(Answer(al)) \in Nat
      BY <1>2, AlertPlaces
    <2>. QED
      BY <1>12, <2>1, <2>2, <2>3, <2>4
  <1>14. /\ node.tag = "component"
         /\ v = SelfClosed => node.part = "empty" /\ k = 1
         /\ v # SelfClosed =>
               /\ node.part = "start"
               /\ \A old :
                     \/ /\ GetTagValue(message, at + 1, "component", old).at = Len(message)
                        /\ ~GetTagValue(message, at + 1, "component", old).ok
                        /\ Len(message) < Len(Answer(al))
                     \/ GetTagValue(message, at + 1, "component", old)
                           = [at |-> at + k,
                              value |-> IF v = Hollow THEN old ELSE Text(v), ok |-> TRUE]
    BY <1>1, <1>10, <1>11, <1>12, <1>13, FieldAtHand
  <1>15. ReadComponent
    BY <1>11, <1>14, AtField
  <1>16. pc' = "read"
    BY <1>11, <1>15 DEF ReadComponent
  <1>17. PICK got : got = GetTagValue(message, at + 1, "component", rec[entry].source)
    OBVIOUS
  <1>18. v # SelfClosed => at' = got.at
    BY <1>14, <1>15, <1>17 DEF ReadComponent
  <1>19. CASE v # SelfClosed /\ got.at = Len(message) /\ Len(message) < Len(Answer(al))
    <2>1. at' = Len(message)
      BY <1>18, <1>19
    <2>. QED
      BY <1>1, <1>16, <1>19, <2>1, BreaksOff
  <1>20. CASE \/ v = SelfClosed
              \/ got = [at |-> at + k,
                        value |-> IF v = Hollow THEN rec[entry].source ELSE Text(v), ok |-> TRUE]
    <2>1. PICK x \in Values : x = Text(v)
      BY TextIs
    <2>2. /\ e \in Entries /\ e["source"] = NULL
          /\ [e EXCEPT !["source"] = x] = Made(a, l, x, NULL, NULL)
      <3>1. NULL \in Values
        BY TextIs
      <3>2. a.id \in Values /\ a.trapOID \in Content /\ l.id \in Values /\ l.section \in Sections
        BY <1>2, <1>3, <1>4, AlertIs
      <3>3. /\ Made(a, l, NULL, NULL, NULL) \in Entries
            /\ Made(a, l, NULL, NULL, NULL)["source"] = NULL
        BY <3>1, <3>2, MadeIs
      <3>4. With(Made(a, l, NULL, NULL, NULL), "source", x) = Made(a, l, x, NULL, NULL)
        BY <3>2, MadeWith
      <3>. QED
        BY <1>8, <3>3, <3>4 DEF With
    <2>3. x = IF v = SelfClosed THEN Blank ELSE IF v = Hollow THEN NULL ELSE Text(v)
      BY <2>1, TextIs
    <2>4. /\ at' = p + k /\ rec' = [rec EXCEPT ![entry]["source"] = x]
          /\ found' = IF v = SelfClosed THEN found ELSE [found EXCEPT !.source = x]
      <3>1. CASE v = SelfClosed
        BY <1>11, <1>14, <1>15, <2>3, <3>1 DEF ReadComponent
      <3>2. CASE v # SelfClosed
        <4>1. got.value = x /\ got.at = p + k
          BY <1>11, <1>20, <2>2, <2>3, <3>2
        <4>. QED
          BY <1>14, <1>15, <1>17, <3>2, <4>1 DEF ReadComponent
      <3>. QED
        BY <3>1, <3>2
    <2>5. PICK d : d = Made(a, l, x, NULL, NULL)
      OBVIOUS
    <2>6. rec'[entry] = d
      <3>1. rec \in [Cells -> Entries] /\ entry \in Cells
        BY <1>11 DEF Inv, ListTypeOK
      <3>2. rec'[entry] = [rec[entry] EXCEPT !["source"] = x]
        <4>. HIDE DEF Entries
        <4>. QED
          BY <2>4, <3>1
      <3>. QED
        BY <1>11, <2>2, <2>5, <3>2
    <2>7. PICK g : g = FoundBy(a, m)
      OBVIOUS
    <2>8. found' = g
      <3>1. FoundSource(a, m) = IF v = SelfClosed THEN FoundSource(a, m - 1) ELSE x
        BY <1>2, <1>3, <1>4, <1>9, <1>10, <2>1, FoundSourceIs
      <3>. QED
        BY <1>7, <1>11, <2>4, <2>7, <3>1 DEF FoundBy
    <2>9. Amid(p + k, {}, g, d, t)'
      BY <1>10, <1>15, <2>4, <2>6, <2>8, AmidReads
    <2>10. Calm(n, m)'
      BY CalmOn DEF AtComponent
    <2>11. Amid(SeverityAt(al, n, m), {}, FoundBy(a, m), Made(a, l, Text(l.component), NULL, NULL), t)'
      BY <1>9, <1>13, <2>1, <2>5, <2>7, <2>9
    <2>. QED
      BY <1>1, <1>2, <1>3, <1>4, <1>6, <2>10, <2>11, ToSeverity
  <1>. QED
    BY <1>14, <1>17, <1>19, <1>20

\* A text is read through temp_value: to what follows it, or the message breaks off in it, or
\* what temp_value came with is used.
LEMMA TempReads ==
    ASSUME Inv, Inv', MessageInv, alerts # <<>>, Reading, NEW p, NEW S, NEW f, NEW e, NEW t,
           Amid(p, S, f, e, t), NEW tag \in {"severity", "posted"}, tag = "severity" <=> S = {},
           NEW v \in Content, v # 0, Lies(Answer(alerts), p, Field(tag, v)),
           NEW q, q = p + Len(Field(tag, v)), q < Len(Answer(alerts)),
           NEW field, field = (IF tag = "severity" THEN "severity" ELSE Section),
           NEW x, x = (IF tag = "severity" THEN Number(v) ELSE Sent(v)),
           NEW d, d = (IF v \in 1..MaxValue THEN [e EXCEPT ![field] = x] ELSE e)
    PROVE  \/ BrokenOff'
           \/ Amid(q, S, f, d, t)' /\ (v = SelfClosed \/ ~unset')
           \/ pc' = "crashed" /\ v = Hollow /\ unset
  <1>1. /\ at = p /\ in_alert /\ in_log /\ inside = S /\ found = f /\ pc = "read"
        /\ entry # NULL /\ rec[entry] = e
    BY DEF Amid
  <1>2. PICK k \in Nat : k = Len(Field(tag, v))
    BY DEF Field
  <1>3. v \in {SelfClosed, Hollow} \cup 1..MaxValue /\ SelfClosed # Hollow
    BY DEF Content, SelfClosed, Hollow
  <1>4. v \in 1..MaxValue => v \notin {SelfClosed, Hollow, NULL} /\ Text(v) = v
    <2>1. v \in 1..MaxValue => v \notin {SelfClosed, Hollow, NULL}
      BY CellAssumption DEF SelfClosed, Hollow, NULL
    <2>. QED
      BY <2>1 DEF Text
  <1>5. PICK got : got = GetTagValue(message, at + 1, tag, NULL)
    OBVIOUS
  <1>6. /\ node.tag = tag
        /\ v = SelfClosed => node.part = "empty" /\ k = 1
        /\ v # SelfClosed =>
              /\ node.part = "start"
              /\ \/ got.at = Len(message) /\ ~got.ok /\ Len(message) < Len(Answer(alerts))
                 \/ got = [at |-> at + k, value |-> IF v = Hollow THEN NULL ELSE Text(v), ok |-> TRUE]
    <2>1. tag # "#text" /\ at + Len(Field(tag, v)) < Len(Answer(alerts))
      BY <1>1
    <2>. QED
      BY <1>1, <1>2, <1>5, <2>1, FieldAtHand
  <1>7. TempText = got
    BY <1>5, <1>6 DEF TempText
  <1>8. IF v = SelfClosed THEN Skip
        ELSE \/ ReadTemp(field, IF tag = "severity" THEN Number(got.value) ELSE Sent(got.value))
                /\ (ReadPosted \/ ReadSeverity)
             \/ Crash
    <2>1. CASE tag = "severity"
      <3>1. IF v = SelfClosed THEN Skip ELSE ReadSeverity \/ Crash
        BY <1>1, <1>6, <2>1, AtField
      <3>. QED
        BY <1>7, <2>1, <3>1 DEF ReadSeverity
    <2>2. CASE tag = "posted"
      <3>1. IF v = SelfClosed THEN Skip ELSE ReadPosted \/ Crash
        BY <1>1, <1>6, <2>2, AtField
      <3>. QED
        BY <1>7, <2>2, <3>1 DEF ReadPosted
    <2>. QED
      BY <2>1, <2>2
  <1>9. CASE v = SelfClosed
    <2>1. Amid(p + 1, S, f, e, t)'
      BY <1>8, <1>9, AmidSkips
    <2>2. q = p + 1 /\ d = e
      BY <1>2, <1>4, <1>6, <1>9
    <2>. QED
      BY <1>9, <2>1, <2>2
  <1>10. CASE v # SelfClosed /\ Crash
    <2>1. got.ok /\ got.value = NULL /\ unset /\ pc' = "crashed"
      BY <1>7, <1>10 DEF Crash
    <2>2. v = Hollow
      BY <1>3, <1>4, <1>6, <1>10, <2>1
    <2>. QED
      BY <2>1, <2>2
  <1>11. CASE v # SelfClosed /\ ~Crash
    <2>1. /\ ReadPosted \/ ReadSeverity
          /\ pc' = "read" /\ found' = f /\ ~unset' /\ at' = got.at
          /\ rec' = IF got.ok /\ got.value # NULL
                    THEN [rec EXCEPT ![entry][field] =
                             IF tag = "severity" THEN Number(got.value) ELSE Sent(got.value)]
                    ELSE rec
      BY <1>1, <1>7, <1>8, <1>11 DEF ReadTemp, HasText
    <2>2. CASE got.at = Len(message) /\ Len(message) < Len(Answer(alerts))
      BY <2>1, <2>2, BreaksOff
    <2>3. CASE got = [at |-> at + k, value |-> IF v = Hollow THEN NULL ELSE Text(v), ok |-> TRUE]
      <3>1. at' = q
        BY <1>1, <1>2, <2>1, <2>3
      <3>2. rec \in [Cells -> Entries] /\ entry \in Cells
        BY <1>1 DEF Inv, ListTypeOK
      <3>3. rec'[entry] = d
        <4>1. CASE v = Hollow
          BY <1>1, <1>4, <2>1, <2>3, <4>1
        <4>2. CASE v \in 1..MaxValue
          <5>1. got.value = v /\ v # NULL /\ got.ok
            BY <1>4, <2>3, <4>2
          <5>2. rec' = [rec EXCEPT ![entry][field] = x]
            BY <2>1, <5>1
          <5>3. rec'[entry] = [rec[entry] EXCEPT ![field] = x]
            <6>. HIDE DEF Entries
            <6>. QED
              BY <3>2, <5>2
          <5>. QED
            BY <1>1, <4>2, <5>3
        <4>. QED
          BY <1>3, <1>11, <4>1, <4>2
      <3>. QED
        BY <2>1, <3>1, <3>3, AmidReads
    <2>. QED
      BY <1>6, <1>11, <2>2, <2>3
  <1>. QED
    BY <1>9, <1>10, <1>11

\* The severity is told: to the section, or the message breaks off.
LEMMA FromSeverity ==
    ASSUME Inv, Inv', MessageInv, alerts # <<>>, Reading, NEW n \in 1..Len(alerts),
           NEW m \in 1..Len(Alert(n).logs), AtSeverity(n, m)
    PROVE  AtSection(n, m)' \/ BrokenOff' \/ (pc' = "crashed" /\ FirstIsHollow')
  <1>1. PICK al : al = alerts /\ alerts' = al
    BY ReadingIs
  <1>2. al \in Seq(Alerts) /\ n \in 1..Len(al) /\ m \in 1..Len(al[n].logs)
    BY <1>1, MessageIs DEF Alert
  <1>3. PICK a \in Alerts : a = al[n]
    BY <1>2
  <1>4. PICK l : l = al[n].logs[m]
    OBVIOUS
  <1>5. PICK p : p = SeverityAt(al, n, m)
    OBVIOUS
  <1>6. PICK t : t = ToldSoFar(al, n, m - 1)
    OBVIOUS
  <1>7. PICK f : f = FoundBy(a, m)
    OBVIOUS
  <1>8. PICK s \in Values : s = Text(l.component)
    BY <1>2, <1>3, <1>4, AlertIs, TextIs
  <1>9. PICK e : e = Made(a, l, s, NULL, NULL)
    OBVIOUS
  <1>10. PICK v \in Content : v = l.severity
    BY <1>2, <1>3, <1>4, AlertIs
  <1>11. PICK S : S = {}
    OBVIOUS
  <1>12. Amid(p, S, f, e, t) /\ v # 0 /\ Calm(n, m)
    BY <1>1, <1>3, <1>4, <1>5, <1>6, <1>7, <1>8, <1>9, <1>10, <1>11 DEF AtSeverity, Alert, LogOf
  <1>13. PICK q : q = SectionAt(al, n, m)
    OBVIOUS
  <1>14. /\ Lies(Answer(al), p, Field("severity", v)) /\ q = p + Len(Field("severity", v))
         /\ q < Len(Answer(al))
    <2>1. Given("severity", l.severity) = Field("severity", v)
      BY <1>10, <1>12 DEF Given
    <2>2. /\ Lies(Answer(al), p, Given("severity", l.severity))
          /\ q = p + Len(Given("severity", l.severity))
      BY <1>2, <1>4, <1>5, <1>13, SectionPlaces DEF SectionAt
    <2>3. q \in Nat /\ EndAt(al, n, m) \in Nat /\ q < EndAt(al, n, m)
          /\ EndAt(al, n, m) + 2 < Len(Answer(al))
      BY <1>2, <1>4, <1>13, SectionPlaces
    <2>4. Len(Answer(al)) \in Nat
      BY <1>2, AlertPlaces
    <2>. QED
      BY <2>1, <2>2, <2>3, <2>4
  <1>15. PICK x : x = Number(v)
    OBVIOUS
  <1>16. PICK field : field = "severity"
    OBVIOUS
  <1>17. PICK d : d = IF v \in 1..MaxValue THEN [e EXCEPT ![field] = x] ELSE e
    OBVIOUS
  <1>18. \/ BrokenOff'
         \/ Amid(q, S, f, d, t)' /\ (v = SelfClosed \/ ~unset')
         \/ pc' = "crashed" /\ v = Hollow /\ unset
    <2>1. PICK tag \in {"severity", "posted"} : tag = "severity"
      OBVIOUS
    <2>. QED
      BY <1>1, <1>11, <1>12, <1>14, <1>15, <1>16, <1>17, <2>1, TempReads
  <1>19. CASE Amid(q, S, f, d, t)' /\ (v = SelfClosed \/ ~unset')
    <2>1. d = Made(a, l, s, Severity(l), NULL)
      <3>1. a.id \in Values /\ a.trapOID \in Content /\ l.id \in Values /\ l.section \in Sections
        BY <1>2, <1>3, <1>4, AlertIs
      <3>2. NULL \in Values
        BY TextIs
      <3>3. CASE v \in 1..MaxValue
        <4>1. x = Severity(l) /\ Severity(l) \in Values
          BY <1>10, <1>15, <3>3, PostedIs
        <4>2. With(Made(a, l, s, NULL, NULL), "severity", x) = Made(a, l, s, x, NULL)
          BY <3>1, MadeWith
        <4>. QED
          BY <1>9, <1>16, <1>17, <3>3, <4>1, <4>2 DEF With
      <3>4. CASE v \notin 1..MaxValue
        <4>1. Severity(l) = NULL
          BY <1>10, <3>4, PostedIs DEF Content
        <4>. QED
          BY <1>9, <1>17, <3>4, <4>1
      <3>. QED
        BY <3>3, <3>4
    <2>2. CalmIn(n, m)'
      <3>1. Calm(n, m)'
        BY <1>12, CalmOn
      <3>. QED
        BY <1>1, <1>4, <1>10, <1>19, <3>1 DEF Calm, CalmIn, LogOf, Opened
    <2>3. AtSection(n, m)'
      BY <1>1, <1>3, <1>4, <1>6, <1>7, <1>8, <1>11, <1>13, <1>19, <2>1, <2>2
         DEF AtSection, Alert, LogOf, Amid
    <2>. QED
      BY <2>3
  <1>20. CASE pc' = "crashed" /\ v = Hollow /\ unset
    <2>1. Quiet(al, n, m)
      BY <1>1, <1>12, <1>20 DEF Calm
    <2>2. FirstOf(al[n].logs[m]) = Hollow
      BY <1>4, <1>10, <1>20 DEF FirstOf, Opened, Hollow, SelfClosed
    <2>3. FirstIsHollow'
      BY <1>1, <1>2, <2>1, <2>2, HollowFirst
    <2>. QED
      BY <1>20, <2>3
  <1>. QED
    BY <1>18, <1>19, <1>20

\* The section begins: to what was posted, or to its end.
LEMMA FromSection ==
    ASSUME Inv, Inv', MessageInv, alerts # <<>>, Reading, NEW n \in 1..Len(alerts),
           NEW m \in 1..Len(Alert(n).logs), AtSection(n, m)
    PROVE  AtPosted(n, m)' \/ AtEnd(n, m)'
  <1>1. PICK al : al = alerts /\ alerts' = al
    BY ReadingIs
  <1>2. al \in Seq(Alerts) /\ n \in 1..Len(al) /\ m \in 1..Len(al[n].logs)
    BY <1>1, MessageIs DEF Alert
  <1>3. PICK a \in Alerts : a = al[n]
    BY <1>2
  <1>4. PICK l : l = al[n].logs[m]
    OBVIOUS
  <1>5. PICK p : p = SectionAt(al, n, m)
    OBVIOUS
  <1>6. PICK t : t = ToldSoFar(al, n, m - 1)
    OBVIOUS
  <1>7. PICK f : f = FoundBy(a, m)
    OBVIOUS
  <1>8. PICK e : e = Made(a, l, Text(l.component), Severity(l), NULL)
    OBVIOUS
  <1>9. Amid(p, {}, f, e, t) /\ at = p
    BY <1>1, <1>3, <1>4, <1>5, <1>6, <1>7, <1>8 DEF AtSection, Alert, LogOf, Amid
  <1>10. p \in Nat /\ Answer(al)[p + 1] = Node(l.section, "start", 0)
    BY <1>2, <1>4, <1>5, SectionPlaces
  <1>11. node = Node(l.section, "start", 0) /\ l.section \in Sections /\ l.posted \in Content
    BY <1>1, <1>2, <1>3, <1>4, <1>9, <1>10, NodeIs, AlertIs
  <1>12. PICK S : S = {l.section}
    OBVIOUS
  <1>13. Amid(p + 1, S, f, e, t)'
    <2>1. node.tag \in Sections /\ node.part # "empty" /\ S = {} \cup {node.tag}
      BY <1>11, <1>12 DEF Node
    <2>2. S = IF node.tag \in {} THEN {} \ {node.tag} ELSE {} \cup {node.tag}
      BY <2>1
    <2>. QED
      BY <1>9, <2>1, <2>2, AmidToggles
  <1>14. CalmIn(n, m)'
    BY CalmOn DEF AtSection
  <1>15. CASE l.posted # 0
    <2>1. AtPosted(n, m)'
      BY <1>1, <1>3, <1>4, <1>5, <1>6, <1>7, <1>8, <1>12, <1>13, <1>14, <1>15
         DEF AtPosted, Alert, LogOf, Amid
    <2>. QED
      BY <2>1
  <1>16. CASE l.posted = 0
    <2>1. EndAt(al, n, m) = p + 1
      <3>1. Len(Given("posted", l.posted)) = 0
        BY <1>16 DEF Given
      <3>. QED
        BY <1>4, <1>5, <1>10, <3>1 DEF EndAt
    <2>2. Partial(a, l) = e
      BY <1>8, <1>11, <1>16, PostedIs DEF Partial
    <2>3. Calm(n, m + 1)'
      BY <1>1, <1>2, <1>4, <1>14, <1>16, CalmPast DEF Opened
    <2>4. AtEnd(n, m)'
      BY <1>1, <1>3, <1>4, <1>6, <1>7, <1>12, <1>13, <2>1, <2>2, <2>3 DEF AtEnd, Alert, LogOf, Amid
    <2>. QED
      BY <2>4
  <1>. QED
    BY <1>15, <1>16

\* What was posted is told: to the section's end, or the message breaks off.
LEMMA FromPosted ==
    ASSUME Inv, Inv', MessageInv, alerts # <<>>, Reading, NEW n \in 1..Len(alerts),
           NEW m \in 1..Len(Alert(n).logs), AtPosted(n, m)
    PROVE  AtEnd(n, m)' \/ BrokenOff' \/ (pc' = "crashed" /\ FirstIsHollow')
  <1>1. PICK al : al = alerts /\ alerts' = al
    BY ReadingIs
  <1>2. al \in Seq(Alerts) /\ n \in 1..Len(al) /\ m \in 1..Len(al[n].logs)
    BY <1>1, MessageIs DEF Alert
  <1>3. PICK a \in Alerts : a = al[n]
    BY <1>2
  <1>4. PICK l : l = al[n].logs[m]
    OBVIOUS
  <1>5. PICK p : p = SectionAt(al, n, m) + 1
    OBVIOUS
  <1>6. PICK t : t = ToldSoFar(al, n, m - 1)
    OBVIOUS
  <1>7. PICK f : f = FoundBy(a, m)
    OBVIOUS
  <1>8. PICK s, w \in Values : s = Text(l.component) /\ w = Severity(l)
    BY <1>2, <1>3, <1>4, AlertIs, TextIs, PostedIs
  <1>9. PICK e : e = Made(a, l, s, w, NULL)
    OBVIOUS
  <1>10. PICK v \in Content : v = l.posted
    BY <1>2, <1>3, <1>4, AlertIs
  <1>11. PICK S : S = {l.section}
    OBVIOUS
  <1>12. Amid(p, S, f, e, t) /\ v # 0 /\ CalmIn(n, m)
    BY <1>1, <1>3, <1>4, <1>5, <1>6, <1>7, <1>8, <1>9, <1>10, <1>11 DEF AtPosted, Alert, LogOf
  <1>13. PICK q : q = EndAt(al, n, m)
    OBVIOUS
  <1>14. /\ Lies(Answer(al), p, Field("posted", v)) /\ q = p + Len(Field("posted", v))
         /\ q < Len(Answer(al))
    <2>1. Given("posted", l.posted) = Field("posted", v)
      BY <1>10, <1>12 DEF Given
    <2>2. /\ Lies(Answer(al), p, Given("posted", l.posted))
          /\ q = p + Len(Given("posted", l.posted))
      BY <1>2, <1>4, <1>5, <1>13, SectionPlaces DEF EndAt
    <2>3. q \in Nat /\ q + 2 < Len(Answer(al))
      BY <1>2, <1>4, <1>13, SectionPlaces
    <2>4. Len(Answer(al)) \in Nat
      BY <1>2, AlertPlaces
    <2>. QED
      BY <2>1, <2>2, <2>3, <2>4
  <1>15. a.id \in Values /\ a.trapOID \in Content /\ l.id \in Values /\ l.section \in Sections
    BY <1>2, <1>3, <1>4, AlertIs
  <1>16. PICK x : x = Sent(v)
    OBVIOUS
  <1>17. PICK field : field = l.section /\ field = Section
    BY <1>11, <1>12, <1>15 DEF Amid, Section, Sections
  <1>18. PICK d : d = IF v \in 1..MaxValue THEN [e EXCEPT ![field] = x] ELSE e
    OBVIOUS
  <1>19. \/ BrokenOff'
         \/ Amid(q, S, f, d, t)' /\ (v = SelfClosed \/ ~unset')
         \/ pc' = "crashed" /\ v = Hollow /\ unset
    <2>1. PICK tag \in {"severity", "posted"} : tag = "posted"
      OBVIOUS
    <2>2. S # {}
      BY <1>11
    <2>. QED
      BY <1>1, <1>12, <1>14, <1>16, <1>17, <1>18, <2>1, <2>2, TempReads
  <1>20. CASE Amid(q, S, f, d, t)' /\ (v = SelfClosed \/ ~unset')
    <2>1. d = Made(a, l, s, w, Posted(l))
      <3>1. NULL \in Values
        BY <1>15, TextIs
      <3>2. CASE v \in 1..MaxValue
        <4>1. x = Posted(l) /\ Posted(l) \in Values
          BY <1>10, <1>16, <3>2, PostedIs
        <4>2. With(Made(a, l, s, w, NULL), field, x) = Made(a, l, s, w, x)
          <5>1. \/ With(Made(a, l, s, w, NULL), "callhome", x) = Made(a, l, s, w, x) /\ l.section = "callhome"
                \/ With(Made(a, l, s, w, NULL), "ealert", x) = Made(a, l, s, w, x) /\ l.section = "ealert"
                \/ With(Made(a, l, s, w, NULL), "snmp", x) = Made(a, l, s, w, x) /\ l.section = "snmp"
            BY <1>15, MadeWith
          <5>. QED
            BY <1>17, <5>1
        <4>. QED
          BY <1>9, <1>17, <1>18, <3>2, <4>1, <4>2 DEF With
      <3>3. CASE v \notin 1..MaxValue
        <4>1. Posted(l) = NULL
          BY <1>10, <3>3, PostedIs DEF Content
        <4>. QED
          BY <1>9, <1>18, <3>3, <4>1
      <3>. QED
        BY <3>2, <3>3
    <2>2. d = Partial(a, l)
      BY <1>8, <2>1 DEF Partial
    <2>3. Calm(n, m + 1)'
      <3>1. CalmIn(n, m)'
        BY <1>12, CalmOn
      <3>2. unset' => ~Opened(al[n].logs[m].posted)
        BY <1>4, <1>10, <1>20 DEF Opened
      <3>. QED
        BY <1>1, <1>2, <3>1, <3>2, CalmPast
    <2>4. AtEnd(n, m)'
      BY <1>1, <1>3, <1>4, <1>6, <1>7, <1>11, <1>13, <1>20, <2>2, <2>3 DEF AtEnd, Alert, LogOf, Amid
    <2>. QED
      BY <2>4
  <1>21. CASE pc' = "crashed" /\ v = Hollow /\ unset
    <2>1. Quiet(al, n, m) /\ ~Opened(l.severity)
      BY <1>1, <1>4, <1>12, <1>21 DEF CalmIn, LogOf
    <2>2. FirstOf(al[n].logs[m]) = Hollow
      BY <1>4, <1>10, <1>21, <2>1 DEF FirstOf
    <2>3. FirstIsHollow'
      BY <1>1, <1>2, <2>1, <2>2, HollowFirst
    <2>. QED
      BY <1>21, <2>3
  <1>. QED
    BY <1>19, <1>20, <1>21

\* The section ends.
LEMMA FromEnd ==
    ASSUME Inv, Inv', MessageInv, alerts # <<>>, Reading, NEW n \in 1..Len(alerts),
           NEW m \in 1..Len(Alert(n).logs), AtEnd(n, m)
    PROVE  AtLogEnd(n, m)'
  <1>1. PICK al : al = alerts /\ alerts' = al
    BY ReadingIs
  <1>2. al \in Seq(Alerts) /\ n \in 1..Len(al) /\ m \in 1..Len(al[n].logs)
    BY <1>1, MessageIs DEF Alert
  <1>3. PICK a \in Alerts : a = al[n]
    BY <1>2
  <1>4. PICK l : l = al[n].logs[m]
    OBVIOUS
  <1>5. PICK p : p = EndAt(al, n, m)
    OBVIOUS
  <1>6. PICK t : t = ToldSoFar(al, n, m - 1)
    OBVIOUS
  <1>7. PICK f : f = FoundBy(a, m)
    OBVIOUS
  <1>8. PICK e : e = Partial(a, l)
    OBVIOUS
  <1>9. PICK S : S = {l.section}
    OBVIOUS
  <1>10. Amid(p, S, f, e, t) /\ at = p
    BY <1>1, <1>3, <1>4, <1>5, <1>6, <1>7, <1>8, <1>9 DEF AtEnd, Alert, LogOf, Amid
  <1>11. p \in Nat /\ Answer(al)[p + 1] = Node(l.section, "end", 0)
    BY <1>2, <1>4, <1>5, SectionPlaces
  <1>12. node = Node(l.section, "end", 0) /\ l.section \in Sections
    BY <1>1, <1>2, <1>3, <1>4, <1>10, <1>11, NodeIs, AlertIs
  <1>13. Amid(p + 1, {}, f, e, t)'
    <2>1. node.tag \in Sections /\ node.part # "empty" /\ node.tag \in S /\ S \ {node.tag} = {}
      BY <1>9, <1>12 DEF Node
    <2>2. {} = IF node.tag \in S THEN S \ {node.tag} ELSE S \cup {node.tag}
      BY <2>1
    <2>. QED
      BY <1>10, <2>1, <2>2, AmidToggles
  <1>14. Calm(n, m + 1)'
    BY CalmOn DEF AtEnd
  <1>. QED
    BY <1>1, <1>3, <1>4, <1>5, <1>6, <1>7, <1>8, <1>13, <1>14 DEF AtLogEnd, Alert, LogOf, Amid

\* The log ends: its entry is to be linked.
LEMMA FromLogEnd ==
    ASSUME Inv, Inv', MessageInv, alerts # <<>>, Reading, NEW n \in 1..Len(alerts),
           NEW m \in 1..Len(Alert(n).logs), AtLogEnd(n, m)
    PROVE  Linking(n, m)'
  <1>1. PICK al : al = alerts /\ alerts' = al
    BY ReadingIs
  <1>2. al \in Seq(Alerts) /\ n \in 1..Len(al) /\ m \in 1..Len(al[n].logs)
    BY <1>1, MessageIs DEF Alert
  <1>3. PICK a : a = al[n]
    OBVIOUS
  <1>4. PICK l : l = al[n].logs[m]
    OBVIOUS
  <1>5. PICK q : q = EndAt(al, n, m)
    OBVIOUS
  <1>6. PICK t : t = ToldSoFar(al, n, m - 1)
    OBVIOUS
  <1>7. /\ at = q + 1 /\ in_alert /\ in_log /\ inside = {} /\ found = FoundBy(a, m)
        /\ entry # NULL /\ rec[entry] = Partial(a, l) /\ Sorts(Listed, t)
    BY <1>1, <1>3, <1>4, <1>5, <1>6 DEF AtLogEnd, Alert, LogOf, Amid
  <1>8. q \in Nat /\ Answer(al)[q + 2] = Node("log", "end", l.id) /\ LogAt(al, n, m + 1) = q + 2
    <2>1. /\ EndAt(al, n, m) \in Nat /\ LogAt(al, n, m + 1) = EndAt(al, n, m) + 2
          /\ Answer(al)[EndAt(al, n, m) + 2] = Node("log", "end", l.id)
      BY <1>2, <1>4, SectionPlaces
    <2>. QED
      BY <1>5, <2>1
  <1>9. node = Node("log", "end", l.id)
    <2>1. (q + 1) + 1 = q + 2
      BY <1>8
    <2>. QED
      BY <1>1, <1>7, <1>8, <2>1, NodeIs
  <1>10. LeaveLog
    BY <1>7, <1>9, AtLog DEF Node
  <1>11. /\ pc' = "link" /\ at' = q + 2 /\ UNCHANGED <<in_alert, inside, found, rec, entry>>
    BY <1>7, <1>8, <1>10 DEF LeaveLog, StartLink, flagVars, heapVars
  <1>12. Listed' = Listed
    <2>1. ~LeaveAlert
      BY <1>10 DEF LeaveLog, LeaveAlert, Opens, Is
    <2>. QED
      BY <2>1, ReadingLists
  <1>13. Calm(n, m + 1)'
    BY CalmOn DEF AtLogEnd
  <1>. QED
    BY <1>1, <1>3, <1>4, <1>6, <1>7, <1>8, <1>11, <1>12, <1>13 DEF Linking, Alert, LogOf

\* Reading on, the parse stays somewhere in the answer, or comes to grief over its first
\* severity or posted.
LEMMA ReadingGoesOn ==
    ASSUME Inv, Inv', MessageInv, alerts # <<>>, Reading, Where
    PROVE  Where' \/ (pc' = "crashed" /\ FirstIsHollow')
  <1>1. pc = "read" /\ at < Len(message) /\ alerts' = alerts
    BY ReadingIs
  <1>2. PICK al : al = alerts /\ al = alerts'
    BY <1>1
  <1>3. PICK N \in Nat \ {0} : N = Len(al)
    BY <1>2, MessageIs
  <1>4. \A n \in 1..N : Len(al[n].logs) \in Nat
    BY <1>2, <1>3, MessageIs, AlertIs
  <1>5. ~BrokenOff /\ ~PastAll
    BY NodeIs, MessageIs DEF BrokenOff, PastAll, Apart
  <1>6. CASE BeforeAll
    <2>1. Outside(1)' /\ 1 \in 1..(Len(alerts') + 1)
      BY <1>2, <1>3, <1>6, FromBefore
    <2>. QED
      BY <2>1 DEF Where
  <1>7. ASSUME NEW n \in 1..(N + 1), Outside(n) PROVE Where'
    <2>1. CASE n = N + 1
      <3>1. PastAll'
        BY <1>2, <1>3, <1>7, <2>1, FromAlertsEnd
      <3>. QED
        BY <3>1 DEF Where
    <2>2. CASE n # N + 1
      <3>1. n \in 1..Len(alerts) /\ n \in 1..Len(alerts')
        BY <1>2, <1>3, <2>2
      <3>2. 1 \in 1..(Len(Alert(n)'.logs) + 1)
        BY <1>2, <1>3, <1>4, <3>1 DEF Alert
      <3>3. AtTrap(n)' \/ Between(n, 1)'
        BY <1>7, <3>1, FromOutside
      <3>. QED
        BY <3>1, <3>2, <3>3 DEF Where
    <2>. QED
      BY <2>1, <2>2
  <1>8. ASSUME NEW n \in 1..N, AtTrap(n) PROVE Where'
    <2>1. n \in 1..Len(alerts) /\ n \in 1..Len(alerts')
      BY <1>2, <1>3
    <2>2. 1 \in 1..(Len(Alert(n)'.logs) + 1)
      BY <1>2, <1>3, <1>4 DEF Alert
    <2>3. Between(n, 1)' \/ BrokenOff'
      BY <1>8, <2>1, FromTrap
    <2>. QED
      BY <2>1, <2>2, <2>3 DEF Where
  <1>9. ASSUME NEW n \in 1..N, NEW m \in 1..(Len(Alert(n).logs) + 1), Between(n, m) PROVE Where'
    <2>1. n \in 1..Len(alerts) /\ n \in 1..Len(alerts')
      BY <1>2, <1>3
    <2>2. PICK M \in Nat : M = Len(Alert(n).logs) /\ M = Len(Alert(n)'.logs)
      BY <1>2, <1>4 DEF Alert
    <2>3. CASE m = M + 1
      <3>1. Outside(n + 1)'
        BY <1>9, <2>1, <2>2, <2>3, FromLogsEnd
      <3>2. n + 1 \in 1..(Len(alerts') + 1)
        BY <1>2, <1>3
      <3>. QED
        BY <3>1, <3>2 DEF Where
    <2>4. CASE m # M + 1
      <3>1. m \in 1..Len(Alert(n).logs) /\ m \in 1..Len(Alert(n)'.logs)
        BY <2>2, <2>4
      <3>2. InLogOf(n, m)'
        BY <1>9, <2>1, <3>1, FromBetween DEF InLogOf
      <3>. QED
        BY <2>1, <3>1, <3>2 DEF Where
    <2>. QED
      BY <2>3, <2>4
  <1>10. ASSUME NEW n \in 1..N, NEW m \in 1..Len(Alert(n).logs), InLogOf(n, m)
         PROVE  Where' \/ (pc' = "crashed" /\ FirstIsHollow')
    <2>1. n \in 1..Len(alerts) /\ n \in 1..Len(alerts')
      BY <1>2, <1>3
    <2>2. m \in 1..Len(Alert(n)'.logs)
      BY <1>2 DEF Alert
    <2>3. \/ InLogOf(n, m)' \/ Linking(n, m)' \/ BrokenOff'
          \/ pc' = "crashed" /\ FirstIsHollow'
      <3>1. CASE AtComponent(n, m)
        BY <2>1, <3>1, FromComponent DEF InLogOf
      <3>2. CASE AtSeverity(n, m)
        BY <2>1, <3>2, FromSeverity DEF InLogOf
      <3>3. CASE AtSection(n, m)
        BY <2>1, <3>3, FromSection DEF InLogOf
      <3>4. CASE AtPosted(n, m)
        BY <2>1, <3>4, FromPosted DEF InLogOf
      <3>5. CASE AtEnd(n, m)
        BY <2>1, <3>5, FromEnd DEF InLogOf
      <3>6. CASE AtLogEnd(n, m)
        BY <2>1, <3>6, FromLogEnd
      <3>. QED
        BY <1>10, <3>1, <3>2, <3>3, <3>4, <3>5, <3>6 DEF InLogOf
    <2>. QED
      BY <2>1, <2>2, <2>3 DEF Where
  <1>11. \A n, m : ~Linking(n, m)
    BY <1>1 DEF Linking
  <1>. QED
    BY <1>2, <1>3, <1>5, <1>6, <1>7, <1>8, <1>9, <1>10, <1>11 DEF Where

\* So does a pass of the loop that links an entry.
LEMMA LinkingGoesOn ==
    ASSUME Inv, Inv', MessageInv, alerts # <<>>, WalkOn \/ LinkEntry, Where
    PROVE  Where'
  <1>1. pc = "link" /\ UNCHANGED <<at, alerts, in_alert, inside, found, unset>>
    BY DEF WalkOn, Walk, LinkEntry, Link, LinkFirst, LinkBefore, LinkLast, callVars, flagVars
  <1>2. PICK al : al = alerts /\ al = alerts'
    BY <1>1
  <1>3. al \in Seq(Alerts)
    BY <1>2, MessageIs
  <1>4. PICK n \in 1..Len(al) : \E m \in 1..Len(Alert(n).logs) : Linking(n, m)
    BY <1>1, <1>2 DEF Where, BrokenOff, BeforeAll, Outside, AtTrap, Between, InLogOf, AtComponent,
                      AtSeverity, AtSection, AtPosted, AtEnd, AtLogEnd, PastAll, Apart, Amid
  <1>5. PICK m \in 1..Len(Alert(n).logs) : Linking(n, m)
    BY <1>4
  <1>6. PICK a \in Alerts : a = al[n]
    BY <1>3
  <1>7. PICK M \in Nat : M = Len(a.logs) /\ m \in 1..M
    BY <1>2, <1>5, <1>6, AlertIs DEF Alert
  <1>8. PICK l : l = a.logs[m]
    OBVIOUS
  <1>9. PICK t : t = ToldSoFar(al, n, m - 1)
    OBVIOUS
  <1>10. /\ in_alert /\ inside = {} /\ at = LogAt(al, n, m + 1) /\ found = FoundBy(a, m)
         /\ rec[entry] = Partial(a, l) /\ Sorts(Listed, t)
    BY <1>2, <1>5, <1>6, <1>8, <1>9 DEF Linking, Alert, LogOf
  <1>11. n \in 1..Len(alerts') /\ Len(Alert(n)'.logs) = M
    BY <1>2, <1>6, <1>7 DEF Alert
  <1>12. Calm(n, m + 1)'
    BY <1>1, <1>5 DEF Linking, Calm
  <1>13. CASE WalkOn
    <2>1. pc' = pc /\ UNCHANGED <<table, rec, next, entry>>
      BY <1>13 DEF WalkOn, Walk, heapVars
    <2>2. Listed' = Listed
      BY <2>1, ListedSame DEF Inv
    <2>3. Linking(n, m)'
      BY <1>1, <1>2, <1>6, <1>8, <1>9, <1>10, <1>12, <2>1, <2>2 DEF Linking, Alert, LogOf
    <2>4. m \in 1..Len(Alert(n)'.logs)
      BY <1>7, <1>11
    <2>. QED
      BY <1>11, <2>3, <2>4 DEF Where
  <1>14. CASE LinkEntry
    <2>1. PICK e \in Entries : e = rec[entry]
      BY <1>14, ListedLinked
    <2>2. PICK s \in Seq(Entries) : s = Listed
      BY ListedIs
    <2>3. PICK p \in 0..Len(s) :
             /\ Listed' = Inserted(s, p, e)
             /\ \A k \in 1..p : Key(s[k]) <= Key(e)
             /\ p < Len(s) => Key(s[p + 1]) > Key(e)
      BY <1>14, <2>1, <2>2, ListedLinked
    <2>4. PICK u : u = ToldSoFar(al, n, m)
      OBVIOUS
    <2>5. /\ t \in Seq(Entries) /\ u \in Seq(Entries) /\ Len(u) = Len(t) + 1
          /\ \A i \in 1..Len(t) : u[i] = t[i]
          /\ u[Len(u)] = e
      <3>1. m \in 0..M /\ m - 1 \in 0..M
        BY <1>7
      <3>2. PICK T \in Nat : T = Len(Told(al, n - 1))
        <4>1. n - 1 \in 0..Len(al)
          BY <1>3
        <4>2. Told(al, n - 1) \in Seq(Entries)
          BY <1>3, <4>1, ToldIs DEF Sourced
        <4>. HIDE DEF Entries
        <4>. QED
          BY <4>2
      <3>3. /\ t \in Seq(Entries) /\ Len(t) = T + (m - 1)
            /\ u \in Seq(Entries) /\ Len(u) = T + m
        BY <1>3, <1>6, <1>7, <1>9, <2>4, <3>1, <3>2, ToldSoFarIs
      <3>4. (\A i \in 1..Len(t) : u[i] = t[i]) /\ u[Len(u)] = Partial(a, l)
        <4>1. IsThen(ToldSoFar(al, n, m), ToldSoFar(al, n, m - 1), Partial(a, a.logs[m]))
          BY <1>3, <1>6, <1>7, ToldSoFarIs
        <4>. QED
          BY <1>8, <1>9, <2>4, <4>1 DEF IsThen
      <3>. QED
        BY <1>7, <1>10, <2>1, <3>2, <3>3, <3>4
    <2>6. PICK K \in Nat : K = Len(t)
      BY <2>5
    <2>7. /\ DOMAIN t = 1..K /\ DOMAIN u = 1..(K + 1)
          /\ \A k \in 1..K : t[k] \in Entries /\ u[k] = t[k]
          /\ u[K + 1] = e
      <3>. HIDE DEF Entries
      <3>. QED
        BY <2>5, <2>6
    <2>8. Sorts(Inserted(s, p, e), u)
      BY <1>10, <2>2, <2>3, <2>7, SortsInserted
    <2>9. pc' = "read" /\ ~in_log'
      BY <1>14 DEF LinkEntry, Link, LinkFirst, LinkBefore, LinkLast
    <2>10. (m + 1) - 1 = m
      BY <1>7
    <2>11. Between(n, m + 1)'
      BY <1>1, <1>2, <1>6, <1>10, <1>12, <2>3, <2>4, <2>8, <2>9, <2>10 DEF Between, Alert, Apart
    <2>12. m + 1 \in 1..(Len(Alert(n)'.logs) + 1)
      BY <1>7, <1>11
    <2>. QED
      BY <1>11, <2>11, <2>12 DEF Where
  <1>. QED
    BY <1>13, <1>14

\* A message without alerts has none of their nodes.
LEMMA NoneReported ==
    ASSUME NEW m, \/ m \in Prefixes(Answer(<<>>))
                  \/ \E text \in {LoginRequired, OtherError} : m \in Prefixes(Refusal(text))
    PROVE  NoAlerts(m)
  <1>. DEFINE T == {"response", "error"}
              S == NodesOf(T, Values)
  <1>1. 0 \in Values /\ 1 \in Values /\ 2 \in Values
    BY CellAssumption, TagAssumption DEF Values, Blank
  <1>2. PICK W : W = Seq(S)
    OBVIOUS
  <1>3. Answer(<<>>) \in Seq(S)
    <2>1. PICK parts : parts = [n \in DOMAIN <<>> |-> AlertNodes(<<>>[n])]
      OBVIOUS
    <2>2. DOMAIN <<>> = 1..0
      OBVIOUS
    <2>3. parts \in Seq(W)
      BY <2>1, <2>2
    <2>4. Element("response", 0, parts) \in Seq(S)
      BY <1>1, <1>2, <2>3, ElementIn
    <2>. QED
      BY <2>1, <2>4 DEF Answer
  <1>4. ASSUME NEW text \in {LoginRequired, OtherError} PROVE Refusal(text) \in Seq(S)
    <2>1. text \in Values
      BY <1>1 DEF LoginRequired, OtherError
    <2>. HIDE DEF Values
    <2>2. Field("error", text) \in Seq(S)
      BY <1>1, <2>1, FieldIn
    <2>3. <<Field("error", text)>> \in Seq(W)
      BY <1>2, <2>2
    <2>4. Element("response", 0, <<Field("error", text)>>) \in Seq(S)
      BY <1>1, <1>2, <2>3, ElementIn
    <2>. QED
      BY <2>4 DEF Refusal
  <1>5. m \in Seq(S)
    <2>. HIDE DEF S
    <2>1. PICK s : s \in Seq(S) /\ m \in Prefixes(s)
      BY <1>3, <1>4
    <2>. QED
      BY <2>1, PrefixOf
  <1>6. \A p \in 1..Len(m) : m[p] \in S
    <2>. HIDE DEF S
    <2>. QED
      BY <1>5
  <1>. QED
    BY <1>6 DEF NoAlerts, NodesOf

\* Such a message leaves the table empty.
LEMMA NothingGoesOn ==
    ASSUME Inv, Inv', MessageInv, alerts = <<>>, Reading, Listed = <<>>
    PROVE  pc' \in {"idle", "read"} /\ Listed' = <<>>
  <1>1. pc = "read" /\ at < Len(message)
    BY ReadingIs
  <1>2. node.tag \in {"response", "error", "#text"}
    <2>1. at + 1 \in 1..Len(message)
      BY <1>1 DEF Inv, CallInv
    <2>. QED
      BY <2>1 DEF MessageInv, NoAlerts, node
  <1>3. ReadError \/ Skip
    BY <1>2 DEF Reading, EnterAlert, LeaveAlert, EnterLog, LeaveLog, LeaveNoLog, Toggle,
                ReadPosted, ReadSeverity, Crash, OpensPosted, OpensSeverity, ReadComponent,
                ReadTrapOID, Opens, Is, Sections
  <1>4. Listed' = Listed
    BY <1>2, ReadingLists DEF LeaveAlert, Opens, Is
  <1>5. pc' \in {"idle", "read"}
    BY <1>1, <1>3 DEF ReadError, Return, Skip, listVars
  <1>. QED
    BY <1>4, <1>5

\* The table is to sort what all alerts told.
LEMMA LogsAreTold ==
    ASSUME MessageInv
    PROVE  LogsAreListed <=> Sorts(Listed, Told(alerts, Len(alerts)))
  <1>1. alerts \in Seq(Alerts)
    BY DEF MessageInv
  <1>2. Told(alerts, Len(alerts)) = FlattenSeq(Entered(alerts))
    BY <1>1, ToldIs
  <1>. QED
    BY <1>2 DEF LogsAreListed, Entered, EntriesOf

\* A complete answer is listed.
LEMMA AtTheEnd ==
    ASSUME Inv, MessageInv, message = Answer(alerts), at = Len(message), pc = "read",
           alerts = <<>> => Listed = <<>>, alerts # <<>> => Where
    PROVE  LogsAreListed
  <1>1. CASE alerts = <<>>
    <2>1. Told(alerts, Len(alerts)) = <<>>
      <3>1. Len(alerts) = 0 /\ alerts \in Seq(Alerts)
        BY <1>1
      <3>. QED
        BY <3>1, ToldIs
    <2>2. Sorts(Listed, Told(alerts, Len(alerts)))
      <3>1. PICK t : t = <<>>
        OBVIOUS
      <3>2. DOMAIN t = {}
        BY <3>1
      <3>. QED
        BY <1>1, <2>1, <3>1, <3>2, SortsNothing
    <2>. QED
      BY <2>2, LogsAreTold
  <1>2. CASE alerts # <<>>
    <2>1. PICK al \in Seq(Alerts) : al = alerts
      BY DEF MessageInv
    <2>2. PICK L \in Nat : L = Len(Answer(al)) /\ at = L
      BY <1>2, <2>1, MessageIs
    <2>3. PICK N \in Nat \ {0} : N = Len(al)
      BY <1>2, <2>1
    <2>4. \A n \in 1..(N + 1) : AlertAt(al, n) \in 1..(L - 1)
      BY <2>2, <2>3, AlertPlaces
    <2>5. ~BrokenOff /\ ~BeforeAll
      <3>1. 1 \in 1..(N + 1)
        BY <2>3
      <3>2. AlertAt(al, 1) \in 1..(L - 1)
        BY <2>4, <3>1
      <3>3. L # 0
        BY <2>2, <3>2
      <3>. QED
        BY <2>1, <2>2, <3>3 DEF BrokenOff, BeforeAll, Apart
    <2>6. ASSUME NEW n \in 1..(N + 1) PROVE ~Outside(n)
      BY <2>1, <2>2, <2>4 DEF Outside, Apart
    <2>7. ASSUME NEW n \in 1..N
          PROVE  /\ ~AtTrap(n)
                 /\ \A m \in 1..(Len(Alert(n).logs) + 1) : ~Between(n, m)
      <3>1. PICK a \in Alerts : a = al[n] /\ a = Alert(n)
        BY <2>1, <2>3 DEF Alert
      <3>2. PICK M \in Nat : M = Len(a.logs)
        BY AlertIs
      <3>3. /\ AlertAt(al, n) \in Nat
            /\ \A m \in 1..(M + 1) : /\ LogAt(al, n, m) \in Nat
                                     /\ AlertAt(al, n) < LogAt(al, n, m)
                                     /\ LogAt(al, n, m) < L - 1
        BY <2>2, <2>3, <3>1, <3>2, LogPlaces
      <3>4. ~AtTrap(n)
        <4>1. AlertAt(al, n) + 1 < L
          <5>1. 1 \in 1..(M + 1)
            BY <3>2
          <5>. QED
            BY <2>2, <3>3, <5>1
        <4>. QED
          BY <2>1, <2>2, <4>1 DEF AtTrap, Apart
      <3>5. \A m \in 1..(M + 1) : ~Between(n, m)
        BY <2>1, <2>2, <3>3 DEF Between, Apart
      <3>. QED
        BY <3>1, <3>2, <3>4, <3>5
    <2>8. ASSUME NEW n \in 1..N, NEW m \in 1..Len(Alert(n).logs)
          PROVE  ~InLogOf(n, m) /\ ~Linking(n, m)
      <3>1. PICK p, r, s, e : /\ p = LogAt(al, n, m) /\ r = SeverityAt(al, n, m)
                              /\ s = SectionAt(al, n, m) /\ e = EndAt(al, n, m)
        OBVIOUS
      <3>2. /\ p \in Nat /\ r \in Nat /\ s \in Nat /\ e \in Nat
            /\ p < r /\ r <= s /\ s < e /\ e + 2 < L
        <4>1. m \in 1..Len(al[n].logs) /\ n \in 1..Len(al)
          BY <2>1, <2>3 DEF Alert
        <4>. QED
          BY <2>2, <3>1, <4>1, SectionPlaces
      <3>3. p + 1 # L /\ r # L /\ s # L /\ s + 1 # L /\ e # L /\ e + 1 # L
        BY <2>2, <3>2
      <3>. QED
        BY <2>1, <2>2, <3>1, <3>3 DEF InLogOf, AtComponent, AtSeverity, AtSection, AtPosted, AtEnd,
                                      AtLogEnd, Linking, Amid
    <2>9. PastAll
      BY <1>2, <2>1, <2>3, <2>5, <2>6, <2>7, <2>8 DEF Where
    <2>. QED
      BY <2>9, LogsAreTold DEF PastAll, Apart
  <1>. QED
    BY <1>1, <1>2

\* A call begins, ...
LEMMA ParseByPopulate ==
    ASSUME Inv, ParseInv, Populate
    PROVE  ParseInv'
  <1>1. /\ pc' = "free" /\ stamped' = FALSE /\ found' = NothingFound
        /\ clean' = (~in_log /\ inside = {}) /\ in_log' = in_log /\ inside' = inside
    BY DEF Populate, flagVars
  <1>2. MessageInv'
    <2>1. CASE /\ alerts' \in BoundedSeq(Alerts, MaxAlerts - total)
               /\ message' \in Prefixes(Answer(alerts'))
      <3>1. alerts' \in Seq(Alerts)
        BY <2>1 DEF BoundedSeq, SeqOf
      <3>2. alerts' = <<>> => NoAlerts(message')
        BY <2>1, NoneReported
      <3>. QED
        BY <2>1, <3>1, <3>2 DEF MessageInv
    <2>2. CASE /\ alerts' = <<>>
               /\ \E text \in {LoginRequired, OtherError} : message' \in Prefixes(Refusal(text))
      <3>1. NoAlerts(message')
        BY <2>2, NoneReported
      <3>2. alerts' \in Seq(Alerts)
        BY <2>2
      <3>. QED
        BY <2>2, <3>1, <3>2 DEF MessageInv
    <2>. QED
      BY <2>1, <2>2 DEF Populate
  <1>3. AllLogsListed'
    BY <1>1 DEF AllLogsListed, Complete
  <1>4. ParseIs'
    BY <1>1 DEF ParseIs
  <1>. QED
    BY <1>1, <1>2, <1>3, <1>4 DEF ParseInv, CrashesForAReason

\* ... is read node by node, ...
LEMMA ParseByReading ==
    ASSUME Inv, Inv', ParseInv, Reading
    PROVE  ParseInv'
  <1>1. pc = "read" /\ pc' \in {"idle", "read", "link", "crashed"} /\ UNCHANGED <<alerts, message, clean>>
    BY ReadingIs
  <1>2. MessageInv /\ MessageInv' /\ ~stamped
    BY <1>1 DEF ParseInv, MessageInv
  <1>3. ~stamped'
    BY <1>2, ReadingIs
  <1>4. ParseIs' /\ CrashesForAReason'
    <2>. SUFFICES ASSUME clean
                  PROVE  /\ pc' \in {"read", "link"} =>
                               /\ alerts' = <<>> => pc' = "read" /\ Listed' = <<>>
                               /\ alerts' # <<>> => Where'
                         /\ pc' = "crashed" => FirstIsHollow'
      BY <1>1 DEF ParseIs, CrashesForAReason
    <2>1. CASE alerts = <<>>
      <3>1. Listed = <<>>
        BY <1>1, <2>1 DEF ParseInv, ParseIs
      <3>2. pc' \in {"idle", "read"} /\ Listed' = <<>>
        BY <1>2, <2>1, <3>1, NothingGoesOn
      <3>. QED
        BY <1>1, <2>1, <3>2
    <2>2. CASE alerts # <<>>
      <3>1. Where
        BY <1>1, <2>2 DEF ParseInv, ParseIs
      <3>2. Where' \/ (pc' = "crashed" /\ FirstIsHollow')
        BY <1>2, <2>2, <3>1, ReadingGoesOn
      <3>3. pc' = "crashed" => ~Where'
        BY DEF Where, BrokenOff, BeforeAll, Outside, AtTrap, Between, InLogOf, AtComponent,
               AtSeverity, AtSection, AtPosted, AtEnd, AtLogEnd, Linking, PastAll, Apart, Amid
      <3>. QED
        BY <1>1, <2>2, <3>2, <3>3
    <2>. QED
      BY <2>1, <2>2
  <1>5. AllLogsListed'
    BY <1>3 DEF AllLogsListed, Complete
  <1>. QED
    BY <1>2, <1>3, <1>4, <1>5 DEF ParseInv

\* ... and linked entry by entry, ...
LEMMA ParseByLinking ==
    ASSUME Inv, Inv', ParseInv, WalkOn \/ LinkEntry
    PROVE  ParseInv'
  <1>1. /\ pc = "link" /\ pc' \in {"read", "link"}
        /\ UNCHANGED <<alerts, message, stamped, clean>>
    BY DEF WalkOn, Walk, LinkEntry, Link, LinkFirst, LinkBefore, LinkLast, callVars
  <1>2. MessageInv /\ MessageInv' /\ ~stamped'
    BY <1>1 DEF ParseInv, MessageInv
  <1>3. clean => alerts # <<>> /\ Where
    BY <1>1 DEF ParseInv, ParseIs
  <1>4. clean => alerts # <<>> /\ Where'
    BY <1>2, <1>3, LinkingGoesOn
  <1>5. ParseIs'
    BY <1>1, <1>4 DEF ParseIs
  <1>6. AllLogsListed'
    BY <1>2 DEF AllLogsListed, Complete
  <1>. QED
    BY <1>1, <1>2, <1>5, <1>6 DEF ParseInv, CrashesForAReason

\* ... once the table is free, ...
LEMMA ParseByFreeing ==
    ASSUME Inv, Inv', ParseInv, Free \/ StartReading
    PROVE  ParseInv'
  <1>1. /\ pc = "free" /\ at = 0
        /\ UNCHANGED <<at, in_log, inside, found, alerts, message, stamped, clean>>
    BY DEF Free, FreeHead, StartReading, callVars, flagVars, Inv, CallInv
  <1>2. MessageInv /\ MessageInv' /\ ~stamped'
    BY <1>1 DEF ParseInv, MessageInv
  <1>3. AllLogsListed'
    BY <1>2 DEF AllLogsListed, Complete
  <1>4. clean => ~in_log /\ inside = {} /\ found = NothingFound
    BY <1>1 DEF ParseInv, ParseIs
  <1>5. CASE Free
    <2>1. pc' = "free"
      BY <1>1, <1>5 DEF Free, FreeHead
    <2>2. ParseIs'
      BY <1>1, <1>4, <2>1 DEF ParseIs
    <2>. QED
      BY <1>2, <1>3, <2>1, <2>2 DEF ParseInv, CrashesForAReason
  <1>6. CASE StartReading
    <2>1. pc' = "read" /\ in_alert' = FALSE /\ table = NULL /\ UNCHANGED <<table, next, rec>>
      BY <1>6 DEF StartReading, heapVars
    <2>2. Listed' = <<>>
      BY <2>1, ListedIs, ListedSame DEF Inv
    <2>3. clean => BeforeAll'
      <3>1. PICK t : t = <<>>
        OBVIOUS
      <3>2. DOMAIN t = {}
        BY <3>1
      <3>3. Sorts(Listed', <<>>)
        BY <2>2, <3>1, <3>2, SortsNothing
      <3>. QED
        BY <1>1, <1>4, <2>1, <3>3 DEF BeforeAll, Apart
    <2>4. ParseIs'
      BY <1>1, <2>1, <2>2, <2>3 DEF ParseIs, Where
    <2>. QED
      BY <1>2, <1>3, <2>1, <2>4 DEF ParseInv, CrashesForAReason
  <1>. QED
    BY <1>5, <1>6

\* ... and returns.
LEMMA ParseByReturn ==
    ASSUME Inv, Inv', ParseInv, EndOfMessage
    PROVE  ParseInv'
  <1>1. /\ pc = "read" /\ pc' = "idle" /\ at = Len(message)
        /\ UNCHANGED <<alerts, message, clean, table, next, rec>>
    BY DEF EndOfMessage, Return, heapVars
  <1>2. MessageInv /\ MessageInv'
    BY <1>1 DEF ParseInv, MessageInv
  <1>3. Listed' = Listed
    BY <1>1, ListedSame DEF Inv
  <1>4. ASSUME Complete', clean' PROVE LogsAreListed'
    <2>1. clean /\ message = Answer(alerts)
      BY <1>1, <1>4 DEF Complete
    <2>2. LogsAreListed
      BY <1>1, <1>2, <2>1, AtTheEnd DEF ParseInv, ParseIs
    <2>. QED
      BY <1>1, <1>3, <2>2 DEF LogsAreListed
  <1>5. ParseIs'
    BY <1>1 DEF ParseIs
  <1>. QED
    BY <1>1, <1>2, <1>4, <1>5 DEF ParseInv, AllLogsListed, CrashesForAReason

LEMMA ParseInit == Init => ParseInv
  <1>. SUFFICES ASSUME Init PROVE ParseInv
    OBVIOUS
  <1>1. pc = "idle" /\ alerts = <<>> /\ message = <<>> /\ ~stamped
    BY DEF Init, ListInit
  <1>2. MessageInv
    <2>1. 1..Len(message) = {}
      BY <1>1
    <2>. QED
      BY <1>1, <2>1 DEF MessageInv, NoAlerts
  <1>. QED
    BY <1>1, <1>2 DEF ParseInv, ParseIs, AllLogsListed, Complete, CrashesForAReason

LEMMA ParseNext == Inv /\ Inv' /\ ParseInv /\ [Next]_vars => ParseInv'
  <1>. SUFFICES ASSUME Inv, Inv', ParseInv, [Next]_vars PROVE ParseInv'
    OBVIOUS
  <1>1. CASE Populate
    BY <1>1, ParseByPopulate
  <1>2. CASE Free \/ StartReading
    BY <1>2, ParseByFreeing
  <1>3. CASE Reading
    BY <1>3, ParseByReading
  <1>4. CASE WalkOn \/ LinkEntry
    BY <1>4, ParseByLinking
  <1>5. CASE EndOfMessage
    BY <1>5, ParseByReturn
  <1>6. CASE UNCHANGED vars
    <2>1. /\ UNCHANGED <<pc, table, next, rec, entry>>
          /\ UNCHANGED <<in_alert, in_log, inside, found, at, unset, alerts, message, stamped, clean>>
      BY <1>6 DEF vars, listVars, heapVars, flagVars, callVars
    <2>2. Listed' = Listed
      BY <2>1, ListedSame DEF Inv
    <2>3. UNCHANGED <<MessageInv, Complete, LogsAreListed, FirstIsHollow>>
      BY <2>1, <2>2 DEF MessageInv, Complete, LogsAreListed, FirstIsHollow
    <2>4. UNCHANGED Where
      BY <2>1, <2>2 DEF Where, BrokenOff, BeforeAll, Outside, AtTrap, Between, InLogOf,
                        AtComponent, AtSeverity, AtSection, AtPosted, AtEnd, AtLogEnd, Linking,
                        PastAll, Apart, Amid, Calm, CalmIn, Alert, LogOf
    <2>. QED
      BY <2>1, <2>2, <2>3, <2>4 DEF ParseInv, ParseIs, AllLogsListed, CrashesForAReason
  <1>. QED
    BY <1>1, <1>2, <1>3, <1>4, <1>5, <1>6 DEF Next, Step, Reading

\* The invariant of the parse.
THEOREM ParseIsSomewhere == Spec => []ParseInv
  BY ParseInit, ParseNext, TableIsAList, PTL DEF Spec

\* An answer that is complete is listed completely, each log with its alert's id, trap and
\* source, its severity and what was posted, if no message before it broke off inside a log or
\* a section.
THEOREM AlertListed == Spec => []AllLogsListed
  <1>1. ParseInv => AllLogsListed
    BY DEF ParseInv
  <1>. QED
    BY <1>1, ParseIsSomewhere, PTL

\* If no message before it broke off inside a log or a section, a message can crash the parse
\* only if the first severity or posted it opens is hollow.
THEOREM AlertCrashes == Spec => []CrashesForAReason
  <1>1. ParseInv => CrashesForAReason
    BY DEF ParseInv
  <1>. QED
    BY <1>1, ParseIsSomewhere, PTL

=============================================================================

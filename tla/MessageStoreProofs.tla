-------------------------- MODULE MessageStoreProofs --------------------------
(***************************************************************************)
(* Proofs about MessageStore for any readers, writers and guids, and any   *)
(* granularity of the time of a file.                                      *)
(***************************************************************************)
EXTENDS MessageStore, SequenceTheorems, TLAPS

-----------------------------------------------------------------------------
(* Sequences.                                                              *)

\* What follows the first k items of a sequence.
LEMMA SuffixProperties ==
    ASSUME NEW S, NEW s \in Seq(S), NEW k \in 0..Len(s)
    PROVE  /\ SubSeq(s, k + 1, Len(s)) \in Seq(S)
           /\ Len(SubSeq(s, k + 1, Len(s))) = Len(s) - k
           /\ \A i \in 1..(Len(s) - k) : SubSeq(s, k + 1, Len(s))[i] = s[k + i]
  <1>1. \A i \in (k + 1)..Len(s) : s[i] \in S
    OBVIOUS
  <1>. DEFINE t == SubSeq(s, k + 1, Len(s))
  <1>2. /\ t \in Seq(S)
        /\ Len(t) = IF k + 1 <= Len(s) THEN Len(s) - (k + 1) + 1 ELSE 0
        /\ \A i \in 1..(Len(s) - (k + 1) + 1) : t[i] = s[(k + 1) + i - 1]
    BY <1>1, SubSeqProperties
  <1>. HIDE DEF t
  <1>3. \A i \in 1..(Len(s) - k) : t[i] = s[k + i]
    BY <1>2
  <1>4. t \in Seq(S) /\ Len(t) = Len(s) - k
    BY <1>2
  <1>. QED
    BY <1>3, <1>4 DEF t

\* An item at the end of a sequence is at the end of what follows its first k.
LEMMA SuffixOfAppend ==
    ASSUME NEW S, NEW s \in Seq(S), NEW k \in 0..Len(s), NEW e \in S
    PROVE  SubSeq(Append(s, e), k + 1, Len(Append(s, e)))
              = Append(SubSeq(s, k + 1, Len(s)), e)
  <1>. DEFINE a == Append(s, e)
              t == SubSeq(s, k + 1, Len(s))
              u == SubSeq(a, k + 1, Len(a))
  <1>0. Len(s) \in Nat /\ k \in 0..Len(s)
    OBVIOUS
  <1>1. /\ a \in Seq(S) /\ Len(a) = Len(s) + 1
        /\ \A i \in 1..Len(s) : a[i] = s[i]
        /\ a[Len(s) + 1] = e
    BY AppendProperties
  <1>2. /\ t \in Seq(S) /\ Len(t) = Len(s) - k
        /\ \A i \in 1..(Len(s) - k) : t[i] = s[k + i]
    BY SuffixProperties
  <1>3. k \in 0..Len(a)
    BY <1>1
  <1>4. /\ u \in Seq(S) /\ Len(u) = Len(a) - k
        /\ \A i \in 1..(Len(a) - k) : u[i] = a[k + i]
    BY <1>1, <1>3, SuffixProperties
  <1>. HIDE DEF a, t, u
  <1>5. /\ Append(t, e) \in Seq(S) /\ Len(Append(t, e)) = Len(t) + 1
        /\ \A i \in 1..Len(t) : Append(t, e)[i] = t[i]
        /\ Append(t, e)[Len(t) + 1] = e
    BY <1>2, AppendProperties
  <1>6. Len(u) = Len(Append(t, e))
    BY <1>1, <1>2, <1>4, <1>5
  <1>7. ASSUME NEW i \in 1..Len(u) PROVE u[i] = Append(t, e)[i]
    <2>1. CASE i = Len(u)
      <3>1. i = Len(t) + 1 /\ k + i = Len(s) + 1
        BY <1>1, <1>2, <1>4, <2>1
      <3>2. u[i] = a[k + i]
        BY <1>4
      <3>3. a[k + i] = e /\ Append(t, e)[i] = e
        BY <1>1, <1>5, <3>1
      <3>. QED
        BY <3>2, <3>3
    <2>2. CASE i # Len(u)
      <3>3. Len(u) = Len(s) + 1 - k /\ Len(t) = Len(s) - k
        BY <1>1, <1>2, <1>4
      <3>4. i \in 1..(Len(s) + 1 - k) /\ i # Len(s) + 1 - k
        BY <2>2, <3>3
      <3>5. i \in 1..(Len(s) - k) /\ k + i \in 1..Len(s)
        BY <1>0, <3>4
      <3>1. i \in 1..Len(t) /\ i \in 1..(Len(s) - k) /\ k + i \in 1..Len(s)
        BY <3>3, <3>5
      <3>2. u[i] = a[k + i]
        BY <1>4
      <3>. QED
        BY <1>1, <1>2, <1>5, <3>1, <3>2
    <2>. QED
      BY <2>1, <2>2
  <1>8. u = Append(t, e)
    BY <1>4, <1>5, <1>6, <1>7, SeqEqual
  <1>. QED
    BY <1>8 DEF a, t, u

-----------------------------------------------------------------------------
(* A file: a title, perhaps what a title has left of a message, messages.  *)

Items == Messages \cup {Title, Torn}

\* The first h items are no messages, the others are.
Headed(items, h) ==
    /\ h \in 0..2 /\ h <= Len(items)
    /\ \A i \in 1..Len(items) : items[i] \in Messages <=> h < i
    /\ h >= 1 => items[1] = Title
    /\ h = 2 => items[2] = Torn

\* A title, or what it leaves of a message, is not taken for a message.
LEMMA MessagesAreNoTitles == Title \notin Messages /\ Torn \notin Messages /\ Title # Torn
  BY DEF Title, Torn, Messages, Message

\* purify drops the head of a file and keeps the messages.
LEMMA PurifyDropsHead ==
    ASSUME NEW items \in Seq(Items), NEW h, Headed(items, h)
    PROVE  Purify(items) = SubSeq(items, h + 1, Len(items))
  <1>. DEFINE I == {i \in 1..Len(items) : items[i] \in Messages}
  <1>1. I = {i \in 1..Len(items) : h < i} /\ h \in 0..Len(items) /\ Len(items) \in Nat
    BY DEF Headed
  <1>2. FirstResult(items) = IF I # {} THEN Min(I) ELSE 0
    BY DEF FirstResult, SelectInSeq
  <1>. HIDE DEF I
  <1>3. CASE h = Len(items)
    <2>1. I = {}
      BY <1>1, <1>3
    <2>2. SubSeq(items, h + 1, Len(items)) = <<>>
      BY <1>1, <1>3, SubSeqEmpty
    <2>. QED
      BY <1>2, <2>1, <2>2 DEF Purify
  <1>4. CASE h # Len(items)
    <2>1. h + 1 \in I /\ \A i \in I : h + 1 <= i /\ i \in Int
      BY <1>1, <1>4
    <2>2. \A m \in I : (\A i \in I : m <= i) => m = h + 1
      BY <1>1, <2>1
    <2>3. Min(I) = h + 1
      BY <2>1, <2>2 DEF Min
    <2>4. FirstResult(items) = h + 1
      BY <1>2, <2>1, <2>3
    <2>. QED
      BY <1>1, <2>4 DEF Purify
  <1>. QED
    BY <1>3, <1>4

-----------------------------------------------------------------------------
(* Type correctness.                                                       *)

Maps == UNION {[D -> Seq(Messages)] : D \in SUBSET Guids}
Results == [kind : {"none", "exception", "cached", "loaded"}, lists : Maps, time : Nat,
            file : Guids \cup {All}]
Seens == [items : Seq(Messages), time : Nat, unsettled : BOOLEAN]
ReaderStates ==
    [pc : {"idle", "test", "fresh", "list", "load", "hit", "clear", "fill", "stamp"},
     guid : Guids \cup {All}, names : SUBSET Guids, loaded : Maps, result : Results,
     began : [Guids -> Seens]]
WriterStates == [pc : {"idle", "create", "title", "append"}, count : 0..MaxWrites,
                 guid : Guids \cup {All}]
FileStates == [there : BOOLEAN, items : Seq(Items), time : Nat]

Shapes ==
    /\ now \in Nat /\ stamp \in Nat /\ cache \in Maps
    /\ file \in [Guids -> FileStates]
    /\ writer \in [Writers -> WriterStates]
    /\ reader \in [Readers -> ReaderStates]
    /\ log \in [Guids -> Seq(Messages)] /\ created \in [Guids -> Nat]

\* What a file has before its first message; a writer at work has a guid, and
\* from its title on there is a file.
FileInv ==
    /\ \A g \in Guids : /\ \E h \in 0..2 : Headed(file[g].items, h)
                        /\ ~file[g].there => file[g].items = <<>>
    /\ \A w \in Writers :
          /\ writer[w].pc # "idle" => writer[w].guid \in Guids /\ writer[w].count >= 1
          /\ writer[w].pc \in {"title", "append"} => file[writer[w].guid].there

TypeInv == TypeOK /\ Shapes /\ FileInv

\* Maps of lists, and what the put and putAll of a HashMap and generateResultMap
\* make of them.
LEMMA MapProperties ==
    /\ Empty \in Maps /\ DOMAIN Empty = {}
    /\ \A map \in Maps : IsLists(map)
    /\ \A D \in SUBSET Guids : [D -> Seq(Messages)] \subseteq Maps
    /\ \A map \in Maps, g \in Guids, list \in Seq(Messages) :
          /\ Put(map, g, list) \in Maps
          /\ DOMAIN Put(map, g, list) = DOMAIN map \cup {g}
          /\ \A h \in DOMAIN map \cup {g} :
                Put(map, g, list)[h] = IF h = g THEN list ELSE map[h]
    /\ \A map \in Maps, new \in Maps : PutAll(map, new) \in Maps
    /\ \A map \in Maps : PutAll(Empty, map) = map
    /\ \A map \in Maps, guid \in Guids \cup {All} : GenerateResultMap(guid, map) \in Maps
  <1>1. \A D \in SUBSET Guids : [D -> Seq(Messages)] \subseteq Maps
    BY DEF Maps
  <1>2. ASSUME NEW map \in Maps
        PROVE  DOMAIN map \in SUBSET Guids /\ map \in [DOMAIN map -> Seq(Messages)]
    BY DEF Maps
  <1>3. Empty \in Maps /\ DOMAIN Empty = {}
    <2>1. Empty \in [{} -> Seq(Messages)] /\ {} \in SUBSET Guids /\ DOMAIN Empty = {}
      BY DEF Empty
    <2>. QED
      BY <1>1, <2>1
  <1>4. \A map \in Maps : IsLists(map)
    BY <1>2 DEF IsLists
  <1>5. ASSUME NEW map \in Maps, NEW g \in Guids, NEW list \in Seq(Messages)
        PROVE  /\ Put(map, g, list) \in Maps
               /\ DOMAIN Put(map, g, list) = DOMAIN map \cup {g}
               /\ \A h \in DOMAIN map \cup {g} :
                     Put(map, g, list)[h] = IF h = g THEN list ELSE map[h]
    <2>1. DOMAIN map \cup {g} \in SUBSET Guids
      BY <1>2
    <2>2. Put(map, g, list) \in [DOMAIN map \cup {g} -> Seq(Messages)]
      BY <1>2 DEF Put
    <2>. QED
      BY <1>1, <2>1, <2>2 DEF Put
  <1>6. ASSUME NEW map \in Maps, NEW new \in Maps PROVE PutAll(map, new) \in Maps
    <2>1. DOMAIN map \cup DOMAIN new \in SUBSET Guids
      BY <1>2
    <2>2. PutAll(map, new) \in [DOMAIN map \cup DOMAIN new -> Seq(Messages)]
      BY <1>2 DEF PutAll
    <2>. QED
      BY <1>1, <2>1, <2>2
  <1>7. ASSUME NEW map \in Maps PROVE PutAll(Empty, map) = map
    BY <1>2, <1>3 DEF PutAll
  <1>8. ASSUME NEW map \in Maps, NEW guid \in Guids \cup {All}
        PROVE  GenerateResultMap(guid, map) \in Maps
    <2>1. CASE guid = All
      BY <2>1 DEF GenerateResultMap
    <2>2. CASE guid # All
      <3>1. {guid} \in SUBSET Guids
        BY <2>2
      <3>2. GenerateResultMap(guid, map) \in [{guid} -> Seq(Messages)]
        BY <1>2, <2>2 DEF GenerateResultMap
      <3>. QED
        BY <1>1, <3>1, <3>2
    <2>. QED
      BY <2>1, <2>2
  <1>. QED
    BY <1>1, <1>3, <1>4, <1>5, <1>6, <1>7, <1>8

\* What a read of a file gives are messages.
LEMMA IntactProperties ==
    ASSUME TypeInv, NEW g \in Guids
    PROVE  /\ Intact(g) \in Seq(Messages)
           /\ \A h \in 0..2 : Headed(file[g].items, h) =>
                 /\ Len(Intact(g)) = Len(file[g].items) - h
                 /\ \A i \in 1..Len(Intact(g)) : Intact(g)[i] = file[g].items[h + i]
           /\ ~file[g].there => Intact(g) = <<>>
  <1>. DEFINE items == file[g].items
  <1>1. items \in Seq(Items) /\ (~file[g].there => items = <<>>)
    BY DEF TypeInv, Shapes, FileInv, FileStates
  <1>2. PICK h0 \in 0..2 : Headed(items, h0)
    BY DEF TypeInv, FileInv
  <1>. HIDE DEF items
  <1>3. ASSUME NEW h \in 0..2, Headed(items, h)
        PROVE  /\ Purify(items) \in Seq(Messages)
               /\ Len(Purify(items)) = Len(items) - h
               /\ \A i \in 1..Len(Purify(items)) : Purify(items)[i] = items[h + i]
    <2>1. h \in 0..Len(items) /\ Len(items) \in Nat
      BY <1>1, <1>3 DEF Headed
    <2>2. \A i \in (h + 1)..Len(items) : items[i] \in Messages
      BY <1>3, <2>1 DEF Headed
    <2>3. Purify(items) = SubSeq(items, h + 1, Len(items))
      BY <1>1, <1>3, PurifyDropsHead
    <2>4. Purify(items) \in Seq(Messages)
      BY <2>1, <2>2, <2>3, SubSeqProperties
    <2>5. /\ Len(Purify(items)) = Len(items) - h
          /\ \A i \in 1..(Len(items) - h) : Purify(items)[i] = items[h + i]
      BY <1>1, <2>1, <2>3, SuffixProperties
    <2>. QED
      BY <2>4, <2>5
  <1>4. items = <<>> => Purify(items) = <<>>
    <2>. SUFFICES ASSUME items = <<>> PROVE Purify(items) = <<>>
      OBVIOUS
    <2>1. Len(Purify(items)) = 0
      BY <1>2, <1>3 DEF Headed
    <2>. QED
      BY <1>2, <1>3, <2>1, EmptySeq
  <1>. QED
    BY <1>1, <1>2, <1>3, <1>4 DEF Intact, items

\* A file that is begun has no head and nothing to read.
LEMMA EmptyFile == <<>> \in Seq(Items) /\ Headed(<<>>, 0) /\ Purify(<<>>) = <<>>
  <1>1. <<>> \in Seq(Items) /\ Len(<<>>) = 0
    BY EmptySeq
  <1>2. Headed(<<>>, 0)
    BY <1>1 DEF Headed
  <1>3. SubSeq(<<>>, 0 + 1, Len(<<>>)) = <<>>
    BY <1>1, SubSeqEmpty
  <1>. QED
    BY <1>1, <1>2, <1>3, PurifyDropsHead

\* A title goes before what is to be read of the file, or costs its first message.
LEMMA TitledFile ==
    ASSUME NEW items \in Seq(Items), NEW h, Headed(items, h)
    PROVE  /\ WithTitle(items) \in Seq(Items)
           /\ \E k \in 0..2 : Headed(WithTitle(items), k)
           /\ \/ Purify(WithTitle(items)) = Purify(items)
              \/ /\ Purify(items) # <<>>
                 /\ Purify(WithTitle(items)) = SubSeq(Purify(items), 2, Len(Purify(items)))
  <1>. USE MessagesAreNoTitles
  <1>0. Len(items) \in Nat /\ h \in 0..2 /\ h \in 0..Len(items)
    BY DEF Headed
  <1>1. CASE items = <<>>
    <2>1. WithTitle(items) = <<Title>>
      BY <1>1 DEF WithTitle
    <2>2. <<Title>> \in Seq(Items) /\ Len(<<Title>>) = 1 /\ <<Title>>[1] = Title
      BY DEF Items
    <2>3. Headed(<<Title>>, 1)
      BY <2>2 DEF Headed
    <2>4. Purify(<<Title>>) = SubSeq(<<Title>>, 1 + 1, 1)
      BY <2>2, <2>3, PurifyDropsHead
    <2>5. Purify(<<Title>>) = <<>> /\ Purify(items) = <<>>
      BY <1>1, <2>4, SubSeqEmpty, EmptyFile
    <2>. QED
      BY <2>1, <2>2, <2>3, <2>5
  <1>2. CASE items # <<>> /\ items[1] = Title
    BY <1>2 DEF WithTitle, Headed
  <1>3. CASE items # <<>> /\ items[1] # Title
    <2>. DEFINE t == Tail(items)
                p == <<Title, Torn>>
                u == p \o t
    <2>1. h = 0
      BY <1>0, <1>3 DEF Headed
    <2>2. /\ t \in Seq(Items) /\ Len(t) = Len(items) - 1
          /\ \A i \in 1..Len(t) : t[i] = items[i + 1]
          /\ Len(t) \in Nat /\ Len(items) >= 1
      BY <1>0, <1>3, HeadTailProperties, EmptySeq
    <2>3. p \in Seq(Items) /\ Len(p) = 2 /\ p[1] = Title /\ p[2] = Torn
      BY DEF Items
    <2>. HIDE DEF t, p
    <2>4. /\ u \in Seq(Items) /\ Len(u) = 2 + Len(t)
          /\ \A i \in 1..(2 + Len(t)) : u[i] = IF i <= 2 THEN p[i] ELSE t[i - 2]
      <3>1. /\ u \in Seq(Items) /\ Len(u) = Len(p) + Len(t)
            /\ \A i \in 1..(Len(p) + Len(t)) :
                  u[i] = IF i <= Len(p) THEN p[i] ELSE t[i - Len(p)]
        BY <2>2, <2>3, ConcatProperties
      <3>. HIDE DEF u
      <3>. QED
        BY <2>3, <3>1
    <2>. HIDE DEF u
    <2>5. u[1] = Title /\ u[2] = Torn
      BY <2>2, <2>3, <2>4
    <2>6. ASSUME NEW i \in 1..Len(u), i > 2 PROVE u[i] \in Messages
      <3>1. i - 2 \in 1..Len(t) /\ i - 1 \in 1..Len(items) /\ i - 1 > 0 /\ (i - 2) + 1 = i - 1
            /\ i <= 2 + Len(t) /\ i \in 1..(2 + Len(t)) /\ ~(i <= 2)
        BY <2>2, <2>4, <2>6
      <3>2. u[i] = t[i - 2]
        BY <2>4, <3>1
      <3>3. t[i - 2] = items[i - 1]
        BY <2>2, <3>1
      <3>. QED
        BY <2>1, <3>1, <3>2, <3>3 DEF Headed
    <2>7. Headed(u, 2)
      <3>1. ASSUME NEW i \in 1..Len(u) PROVE u[i] \in Messages <=> 2 < i
        <4>1. i = 1 \/ i = 2 \/ i > 2
          OBVIOUS
        <4>. QED
          BY <2>5, <2>6, <4>1
      <3>. QED
        BY <2>2, <2>4, <2>5, <3>1 DEF Headed
    <2>8. Purify(u) = SubSeq(u, 2 + 1, Len(u)) /\ Purify(items) = SubSeq(items, 0 + 1, Len(items))
      BY <2>1, <2>4, <2>7, PurifyDropsHead
    <2>9. Purify(items) = items
      BY <2>8, SubSeqFull
    <2>10. /\ SubSeq(u, 2 + 1, Len(u)) \in Seq(Items)
           /\ Len(SubSeq(u, 2 + 1, Len(u))) = Len(t)
           /\ \A i \in 1..Len(t) : SubSeq(u, 2 + 1, Len(u))[i] = u[2 + i]
      <3>1. 2 \in 0..Len(u) /\ Len(u) - 2 = Len(t)
        BY <2>2, <2>4
      <3>. QED
        BY <2>4, <3>1, SuffixProperties
    <2>11. ASSUME NEW i \in 1..Len(t) PROVE Purify(u)[i] = t[i]
      <3>1. 2 + i \in 1..(2 + Len(t)) /\ ~(2 + i <= 2) /\ (2 + i) - 2 = i
        BY <2>2
      <3>. QED
        BY <2>4, <2>8, <2>10, <3>1
    <2>12. Purify(u) = t
      BY <2>2, <2>8, <2>10, <2>11, SeqEqual
    <2>13. t = SubSeq(items, 2, Len(items))
      BY <1>3, TailIsSubSeq DEF t
    <2>14. WithTitle(items) = u
      BY <1>3 DEF WithTitle, u, p, t
    <2>. QED
      BY <1>3, <2>4, <2>7, <2>9, <2>12, <2>13, <2>14
  <1>. QED
    BY <1>1, <1>2, <1>3

\* A message that is appended is the last to be read.
LEMMA AppendedFile ==
    ASSUME NEW items \in Seq(Items), NEW h, Headed(items, h), NEW m \in Messages
    PROVE  /\ WithMessage(items, m) \in Seq(Items)
           /\ Headed(WithMessage(items, m), h)
           /\ Purify(WithMessage(items, m)) = Append(Purify(items), m)
  <1>. DEFINE a == Append(items, m)
  <1>0. Len(items) \in Nat /\ h \in 0..2 /\ h \in 0..Len(items) /\ m \in Items
    BY DEF Headed, Items
  <1>1. WithMessage(items, m) = a
    BY <1>0, AppendIsConcat DEF WithMessage
  <1>2. /\ a \in Seq(Items) /\ Len(a) = Len(items) + 1
        /\ \A i \in 1..Len(items) : a[i] = items[i]
        /\ a[Len(items) + 1] = m
    BY <1>0, AppendProperties
  <1>3. Purify(items) = SubSeq(items, h + 1, Len(items))
    BY PurifyDropsHead
  <1>4. SubSeq(a, h + 1, Len(a)) = Append(SubSeq(items, h + 1, Len(items)), m)
    BY <1>0, SuffixOfAppend
  <1>. HIDE DEF a
  <1>5. Headed(a, h)
    <2>1. ASSUME NEW i \in 1..Len(a) PROVE a[i] \in Messages <=> h < i
      <3>1. CASE i = Len(items) + 1
        BY <1>0, <1>2, <3>1
      <3>2. CASE i # Len(items) + 1
        <4>1. i \in 1..Len(items)
          BY <1>0, <1>2, <3>2
        <4>. QED
          BY <1>2, <4>1 DEF Headed
      <3>. QED
        BY <3>1, <3>2
    <2>2. (h >= 1 => a[1] = Title) /\ (h = 2 => a[2] = Torn)
      BY <1>0, <1>2 DEF Headed
    <2>. QED
      BY <1>0, <1>2, <2>1, <2>2 DEF Headed
  <1>6. Purify(a) = SubSeq(a, h + 1, Len(a))
    BY <1>2, <1>5, PurifyDropsHead
  <1>. QED
    BY <1>1, <1>2, <1>3, <1>4, <1>5, <1>6

\* What a step can do to what is to be read of a file, and to its log.
LogKept(g) ==
    /\ Intact(g)' = Intact(g)
    /\ log'[g] = log[g] /\ created'[g] \in created[g]..Len(log[g])
LogCut(g) ==
    /\ Intact(g)' = <<>> \/ (Intact(g) # <<>> /\ Intact(g)' = SubSeq(Intact(g), 2, Len(Intact(g))))
    /\ log'[g] = log[g] /\ created'[g] = Len(log[g])
LogGrown(g, m) ==
    /\ Intact(g)' = Append(Intact(g), m)
    /\ log'[g] = Append(log[g], m) /\ created'[g] = created[g]

\* A writer's step, or none, leaves the files well-formed and each log kept, cut
\* at its beginning, or longer by the message that is written.
FilesStep ==
    /\ file' \in [Guids -> FileStates]
    /\ \A g \in Guids : /\ \E h \in 0..2 : Headed(file'[g].items, h)
                        /\ ~file'[g].there => file'[g].items = <<>>
                        /\ file[g].there => file'[g].there
                        /\ file[g].time <= file'[g].time /\ file'[g].time \in 0..now
    /\ log' \in [Guids -> Seq(Messages)] /\ created' \in [Guids -> Nat]

\* What is to be read of a file after a step.
LEMMA IntactNext == \A g : Intact(g)' = Purify(file[g].items')
  BY DEF Intact, Purify, FirstResult, SelectInSeq

\* A step that writes nothing keeps every file and log.
LEMMA UnwrittenStep ==
    ASSUME TypeInv, UNCHANGED <<file, log, created>>
    PROVE  FilesStep /\ \A g \in Guids : LogKept(g)
  <1>1. FilesStep
    BY DEF TypeInv, TypeOK, Shapes, FileInv, FilesStep, FileStates
  <1>2. \A g \in Guids : Intact(g)' = Intact(g)
    BY IntactNext DEF Intact
  <1>3. \A g \in Guids : created[g] \in 0..Len(log[g]) /\ Len(log[g]) \in Nat
    BY DEF TypeInv, TypeOK, Shapes
  <1>. QED
    BY <1>1, <1>2, <1>3 DEF LogKept

\* new FileWriter(filePath, false) leaves nothing to be read of its file, and the
\* other files alone.
LEMMA OpenNewStep ==
    ASSUME TypeInv, NEW w \in Writers, OpenNew(w), NEW f, f = writer[w].guid
    PROVE  /\ FilesStep
           /\ file'[f].there
           /\ LogCut(f)
           /\ \A g \in Guids \ {f} : LogKept(g)
  <1>1. f \in Guids
    BY DEF OpenNew, TypeInv, FileInv
  <1>2. /\ file' = [file EXCEPT ![f] = [there |-> TRUE, items |-> <<>>, time |-> now]]
        /\ created' = [created EXCEPT ![f] = Len(log[f])]
        /\ log' = log
    BY DEF OpenNew
  <1>3. /\ file \in [Guids -> FileStates] /\ created \in [Guids -> Nat] /\ now \in Nat
        /\ \A g \in Guids : /\ created[g] \in 0..Len(log[g]) /\ Len(log[g]) \in Nat
                            /\ file[g].time \in 0..now
                            /\ \E h \in 0..2 : Headed(file[g].items, h)
                            /\ ~file[g].there => file[g].items = <<>>
        /\ log \in [Guids -> Seq(Messages)]
    BY DEF TypeInv, TypeOK, Shapes, FileInv
  <1>4. /\ file'[f].items = <<>> /\ file'[f].there /\ file'[f].time = now
        /\ \A g \in Guids \ {f} : file'[g] = file[g] /\ created'[g] = created[g]
        /\ created'[f] = Len(log[f])
    BY <1>1, <1>2, <1>3
  <1>5. file' \in [Guids -> FileStates] /\ created' \in [Guids -> Nat]
    BY <1>1, <1>2, <1>3, EmptyFile DEF FileStates
  <1>6. FilesStep
    BY <1>2, <1>3, <1>4, <1>5, EmptyFile DEF FilesStep
  <1>7. Intact(f)' = <<>>
    BY <1>4, EmptyFile, IntactNext
  <1>8. \A g \in Guids \ {f} : Intact(g)' = Intact(g)
    BY <1>4, IntactNext DEF Intact
  <1>. QED
    BY <1>2, <1>3, <1>4, <1>6, <1>7, <1>8 DEF LogCut, LogKept

\* The title costs its file at most the first message.
LEMMA WriteTitleStep ==
    ASSUME TypeInv, NEW w \in Writers, WriteTitle(w), NEW f, f = writer[w].guid
    PROVE  /\ FilesStep
           /\ LogKept(f) \/ LogCut(f)
           /\ \A g \in Guids \ {f} : LogKept(g)
  <1>. DEFINE t == WithTitle(file[f].items)
  <1>1. f \in Guids /\ file[f].there
    BY DEF WriteTitle, TypeInv, FileInv
  <1>3. /\ file \in [Guids -> FileStates] /\ created \in [Guids -> Nat] /\ now \in Nat
        /\ \A g \in Guids : /\ created[g] \in 0..Len(log[g]) /\ Len(log[g]) \in Nat
                            /\ file[g].time \in 0..now
                            /\ \E h \in 0..2 : Headed(file[g].items, h)
                            /\ ~file[g].there => file[g].items = <<>>
        /\ log \in [Guids -> Seq(Messages)]
    BY DEF TypeInv, TypeOK, Shapes, FileInv
  <1>2. /\ file' = [file EXCEPT ![f].items = t, ![f].time = now]
        /\ created' = [created EXCEPT ![f] = Len(log[f])]
        /\ log' = log
    BY DEF WriteTitle
  <1>9. /\ t \in Seq(Items)
        /\ \E k \in 0..2 : Headed(t, k)
        /\ \/ Purify(t) = Intact(f)
           \/ Intact(f) # <<>> /\ Purify(t) = SubSeq(Intact(f), 2, Len(Intact(f)))
    <2>1. file[f].items \in Seq(Items) /\ \E h \in 0..2 : Headed(file[f].items, h)
      BY <1>1, <1>3 DEF FileStates
    <2>. QED
      BY <2>1, TitledFile DEF Intact
  <1>. HIDE DEF t
  <1>4. /\ file'[f].items = t /\ file'[f].there /\ file'[f].time = now
        /\ \A g \in Guids \ {f} : file'[g] = file[g] /\ created'[g] = created[g]
        /\ created'[f] = Len(log[f])
    BY <1>1, <1>2, <1>3 DEF FileStates
  <1>12. [file[f] EXCEPT !.items = t, !.time = now] \in FileStates
    BY <1>1, <1>3, <1>9 DEF FileStates
  <1>5. file' \in [Guids -> FileStates] /\ created' \in [Guids -> Nat]
    BY <1>1, <1>2, <1>3, <1>12
  <1>6. FilesStep
    <2>1. ASSUME NEW g \in Guids
          PROVE  /\ \E h \in 0..2 : Headed(file'[g].items, h)
                 /\ ~file'[g].there => file'[g].items = <<>>
                 /\ file[g].there => file'[g].there
                 /\ file[g].time <= file'[g].time /\ file'[g].time \in 0..now
      <3>1. CASE g = f
        <4>1. file'[g].items = t /\ file'[g].there /\ file'[g].time = now
          BY <1>4, <3>1
        <4>2. file[g].time <= now /\ now \in 0..now
          BY <1>3
        <4>. QED
          BY <1>9, <4>1, <4>2
      <3>2. CASE g # f
        <4>1. file'[g] = file[g]
          BY <1>4, <3>2
        <4>2. file[g].time \in 0..now /\ file[g].time <= file[g].time
          BY <1>3
        <4>3. (\E h \in 0..2 : Headed(file[g].items, h)) /\ (~file[g].there => file[g].items = <<>>)
          BY <1>3
        <4>. QED
          BY <4>1, <4>2, <4>3
      <3>. QED
        BY <3>1, <3>2
    <2>. QED
      BY <1>2, <1>3, <1>5, <2>1 DEF FilesStep
  <1>7. Intact(f)' = Purify(t)
    BY <1>4, IntactNext
  <1>8. \A g \in Guids \ {f} : Intact(g)' = Intact(g)
    BY <1>4, IntactNext DEF Intact
  <1>10. LogKept(f) \/ LogCut(f)
    BY <1>1, <1>2, <1>3, <1>4, <1>7, <1>9 DEF LogKept, LogCut
  <1>11. \A g \in Guids \ {f} : LogKept(g)
    BY <1>2, <1>3, <1>4, <1>8 DEF LogKept
  <1>. QED
    BY <1>6, <1>10, <1>11

\* A message goes to the end of its file and of its log.
LEMMA AppendBlockStep ==
    ASSUME TypeInv, NEW w \in Writers, AppendBlock(w), NEW f, f = writer[w].guid,
           NEW m \in Messages, m = Message(w, writer[w].count)
    PROVE  /\ FilesStep
           /\ LogGrown(f, m)
           /\ \A g \in Guids \ {f} : LogKept(g)
  <1>. DEFINE t == WithMessage(file[f].items, m)
  <1>1. f \in Guids /\ file[f].there /\ m \in Messages
    BY DEF AppendBlock, TypeInv, FileInv
  <1>3. /\ file \in [Guids -> FileStates] /\ created \in [Guids -> Nat] /\ now \in Nat
        /\ \A g \in Guids : /\ created[g] \in 0..Len(log[g]) /\ Len(log[g]) \in Nat
                            /\ file[g].time \in 0..now
                            /\ \E h \in 0..2 : Headed(file[g].items, h)
                            /\ ~file[g].there => file[g].items = <<>>
        /\ log \in [Guids -> Seq(Messages)]
    BY DEF TypeInv, TypeOK, Shapes, FileInv
  <1>2. /\ file' = [file EXCEPT ![f].items = t, ![f].time = now]
        /\ log' = [log EXCEPT ![f] = Append(log[f], m)]
        /\ created' = created
    BY DEF AppendBlock
  <1>9. /\ t \in Seq(Items)
        /\ \E k \in 0..2 : Headed(t, k)
        /\ Purify(t) = Append(Intact(f), m)
    <2>1. file[f].items \in Seq(Items) /\ \E h \in 0..2 : Headed(file[f].items, h)
      BY <1>1, <1>3 DEF FileStates
    <2>. QED
      BY <1>1, <2>1, AppendedFile DEF Intact
  <1>. HIDE DEF t
  <1>4. /\ file'[f].items = t /\ file'[f].there /\ file'[f].time = now
        /\ \A g \in Guids \ {f} : file'[g] = file[g] /\ log'[g] = log[g]
        /\ log'[f] = Append(log[f], m)
    BY <1>1, <1>2, <1>3 DEF FileStates
  <1>13. [file[f] EXCEPT !.items = t, !.time = now] \in FileStates
    BY <1>1, <1>3, <1>9 DEF FileStates
  <1>5. file' \in [Guids -> FileStates]
    BY <1>2, <1>3, <1>13
  <1>12. log' \in [Guids -> Seq(Messages)]
    <2>1. Append(log[f], m) \in Seq(Messages)
      BY <1>1, <1>3, AppendProperties
    <2>. QED
      BY <1>2, <1>3, <2>1
  <1>6. FilesStep
    <2>1. ASSUME NEW g \in Guids
          PROVE  /\ \E h \in 0..2 : Headed(file'[g].items, h)
                 /\ ~file'[g].there => file'[g].items = <<>>
                 /\ file[g].there => file'[g].there
                 /\ file[g].time <= file'[g].time /\ file'[g].time \in 0..now
      <3>1. CASE g = f
        <4>1. file'[g].items = t /\ file'[g].there /\ file'[g].time = now
          BY <1>4, <3>1
        <4>2. file[g].time <= now /\ now \in 0..now
          BY <1>3
        <4>. QED
          BY <1>9, <4>1, <4>2
      <3>2. CASE g # f
        <4>1. file'[g] = file[g]
          BY <1>4, <3>2
        <4>2. file[g].time \in 0..now /\ file[g].time <= file[g].time
          BY <1>3
        <4>3. (\E h \in 0..2 : Headed(file[g].items, h)) /\ (~file[g].there => file[g].items = <<>>)
          BY <1>3
        <4>. QED
          BY <4>1, <4>2, <4>3
      <3>. QED
        BY <3>1, <3>2
    <2>. QED
      BY <1>2, <1>3, <1>5, <1>12, <2>1 DEF FilesStep
  <1>7. Intact(f)' = Append(Intact(f), m)
    BY <1>4, <1>9, IntactNext
  <1>8. \A g \in Guids \ {f} : Intact(g)' = Intact(g)
    BY <1>4, IntactNext DEF Intact
  <1>10. LogGrown(f, m)
    BY <1>2, <1>4, <1>7 DEF LogGrown
  <1>11. \A g \in Guids \ {f} : LogKept(g)
    BY <1>2, <1>3, <1>4, <1>8 DEF LogKept
  <1>. QED
    BY <1>6, <1>10, <1>11

-----------------------------------------------------------------------------
(* What a step of a reader changes.                                        *)

ReaderPcs == {"idle", "test", "fresh", "list", "load", "hit", "clear", "fill", "stamp"}

\* Reader r is where it is said to be, in the same read; the others stay.
Turned(r, pc, names, loaded, result) ==
    /\ reader' \in [Readers -> ReaderStates]
    /\ \A q \in Readers \ {r} : reader'[q] = reader[q]
    /\ reader'[r].pc = pc /\ reader'[r].guid = reader[r].guid
    /\ reader'[r].names = names /\ reader'[r].loaded = loaded
    /\ reader'[r].result = result /\ reader'[r].began = reader[r].began

\* A step that gives one reader a new state.
LEMMA TurnedByRecord ==
    ASSUME TypeInv, NEW r \in Readers, NEW s \in ReaderStates,
           reader' = [reader EXCEPT ![r] = s]
    PROVE  /\ reader' \in [Readers -> ReaderStates]
           /\ \A q \in Readers \ {r} : reader'[q] = reader[q]
           /\ reader'[r] = s
  BY DEF TypeInv, Shapes

\* The state of one reader.
LEMMA ReaderType ==
    ASSUME TypeInv, NEW r \in Readers
    PROVE  /\ reader[r] \in ReaderStates
           /\ reader[r].pc \in ReaderPcs /\ reader[r].guid \in Guids \cup {All}
           /\ reader[r].names \in SUBSET Guids /\ reader[r].loaded \in Maps
           /\ reader[r].result \in Results /\ reader[r].began \in [Guids -> Seens]
  <1>1. reader[r] \in ReaderStates
    BY DEF TypeInv, Shapes
  <1>. QED
    BY <1>1 DEF ReaderStates, ReaderPcs

\* A reader moves on.
LEMMA MoveTurns ==
    ASSUME TypeInv, NEW r \in Readers, NEW pc \in ReaderPcs, Move(r, pc)
    PROVE  Turned(r, pc, reader[r].names, reader[r].loaded, reader[r].result)
  <1>. DEFINE s == [reader[r] EXCEPT !.pc = pc]
  <1>1. /\ s \in ReaderStates
        /\ s.pc = pc /\ s.guid = reader[r].guid /\ s.names = reader[r].names
        /\ s.loaded = reader[r].loaded /\ s.result = reader[r].result
        /\ s.began = reader[r].began
    BY ReaderType DEF ReaderStates, ReaderPcs
  <1>2. reader' = [reader EXCEPT ![r] = s]
    BY DEF Move
  <1>. HIDE DEF s
  <1>. QED
    BY <1>1, <1>2, TurnedByRecord DEF Turned

\* A reader moves on with other files to look at.
LEMMA NamesTurn ==
    ASSUME TypeInv, NEW r \in Readers, NEW pc \in ReaderPcs, NEW names \in SUBSET Guids,
           reader' = [reader EXCEPT ![r].pc = pc, ![r].names = names]
    PROVE  Turned(r, pc, names, reader[r].loaded, reader[r].result)
  <1>. DEFINE s == [reader[r] EXCEPT !.pc = pc, !.names = names]
  <1>1. /\ s \in ReaderStates
        /\ s.pc = pc /\ s.guid = reader[r].guid /\ s.names = names
        /\ s.loaded = reader[r].loaded /\ s.result = reader[r].result
        /\ s.began = reader[r].began
    BY ReaderType DEF ReaderStates, ReaderPcs
  <1>2. reader' = [reader EXCEPT ![r] = s]
    BY DEF TypeInv, Shapes
  <1>. HIDE DEF s
  <1>. QED
    BY <1>1, <1>2, TurnedByRecord DEF Turned

\* A reader is done with a file.
LEMMA DropTurns ==
    ASSUME TypeInv, NEW r \in Readers, NEW names \in SUBSET Guids,
           reader' = [reader EXCEPT ![r].names = names]
    PROVE  Turned(r, reader[r].pc, names, reader[r].loaded, reader[r].result)
  <1>. DEFINE s == [reader[r] EXCEPT !.names = names]
  <1>1. /\ s \in ReaderStates
        /\ s.pc = reader[r].pc /\ s.guid = reader[r].guid /\ s.names = names
        /\ s.loaded = reader[r].loaded /\ s.result = reader[r].result
        /\ s.began = reader[r].began
    BY ReaderType DEF ReaderStates, ReaderPcs
  <1>2. reader' = [reader EXCEPT ![r] = s]
    OBVIOUS
  <1>. HIDE DEF s
  <1>. QED
    BY <1>1, <1>2, TurnedByRecord DEF Turned

\* A reader is done with a file and has another list.
LEMMA LoadTurns ==
    ASSUME TypeInv, NEW r \in Readers, NEW names \in SUBSET Guids, NEW loaded \in Maps,
           reader' = [reader EXCEPT ![r].names = names, ![r].loaded = loaded]
    PROVE  Turned(r, reader[r].pc, names, loaded, reader[r].result)
  <1>. DEFINE s == [reader[r] EXCEPT !.names = names, !.loaded = loaded]
  <1>1. /\ s \in ReaderStates
        /\ s.pc = reader[r].pc /\ s.guid = reader[r].guid /\ s.names = names
        /\ s.loaded = loaded /\ s.result = reader[r].result
        /\ s.began = reader[r].began
    BY ReaderType DEF ReaderStates, ReaderPcs
  <1>2. reader' = [reader EXCEPT ![r] = s]
    BY DEF TypeInv, Shapes
  <1>. HIDE DEF s
  <1>. QED
    BY <1>1, <1>2, TurnedByRecord DEF Turned

\* A read ends, by an answer or a failure.
LEMMA EndTurns ==
    ASSUME TypeInv, NEW r \in Readers, NEW result \in Results, End(r, result)
    PROVE  Turned(r, "idle", {}, Empty, result)
  <1>. DEFINE s == [reader[r] EXCEPT !.pc = "idle", !.names = {}, !.loaded = Empty,
                                     !.result = result]
  <1>1. /\ s \in ReaderStates
        /\ s.pc = "idle" /\ s.guid = reader[r].guid /\ s.names = {}
        /\ s.loaded = Empty /\ s.result = result
        /\ s.began = reader[r].began
    <2>1. Empty \in Maps /\ {} \in SUBSET Guids /\ reader[r] \in ReaderStates
      BY ReaderType, MapProperties
    <2>. QED
      BY <2>1 DEF ReaderStates
  <1>2. reader' = [reader EXCEPT ![r] = s]
    BY DEF End
  <1>. HIDE DEF s
  <1>. QED
    BY <1>1, <1>2, TurnedByRecord DEF Turned

-----------------------------------------------------------------------------
(* Type correctness, step by step.                                         *)

\* A writer at work has a guid, and from its title on there is a file.
WritersInv ==
    \A w \in Writers :
        /\ writer[w].pc # "idle" => writer[w].guid \in Guids /\ writer[w].count >= 1
        /\ writer[w].pc \in {"title", "append"} => file[writer[w].guid].there

\* The types of the parts.
TypeParts ==
    /\ now \in 1..MaxTime /\ stamp \in 0..now
    /\ Shapes
    /\ \A g \in Guids : /\ \E h \in 0..2 : Headed(file[g].items, h)
                        /\ ~file[g].there => file[g].items = <<>>
                        /\ file[g].time \in 0..now
                        /\ created[g] \in 0..Len(log[g])
    /\ WritersInv
    /\ lock \in Readers \cup {Nobody}

\* The type invariant from the types of the parts.
LEMMA TypeFromParts == TypeParts => TypeInv
  <1>. SUFFICES ASSUME now \in 1..MaxTime, stamp \in 0..now,
                       Shapes,
                       \A g \in Guids : /\ \E h \in 0..2 : Headed(file[g].items, h)
                                        /\ ~file[g].there => file[g].items = <<>>
                                        /\ file[g].time \in 0..now
                                        /\ created[g] \in 0..Len(log[g]),
                       WritersInv, lock \in Readers \cup {Nobody}
                PROVE  TypeInv
    BY DEF TypeParts
  <1>1. FileInv
    BY DEF FileInv, WritersInv
  <1>2. ASSUME NEW g \in Guids
        PROVE  /\ file[g].there \in BOOLEAN
               /\ \A i \in 1..Len(file[g].items) :
                     \/ file[g].items[i] \in Messages
                     \/ file[g].items[i] = Title /\ i = 1
                     \/ file[g].items[i] = Torn /\ i = 2
    <2>1. PICK h \in 0..2 : Headed(file[g].items, h)
      OBVIOUS
    <2>2. file[g].there \in BOOLEAN /\ Len(file[g].items) \in Nat
      BY DEF Shapes, FileStates
    <2>3. ASSUME NEW i \in 1..Len(file[g].items)
          PROVE  \/ file[g].items[i] \in Messages
                 \/ file[g].items[i] = Title /\ i = 1
                 \/ file[g].items[i] = Torn /\ i = 2
      <3>1. h < i \/ (i = 1 /\ h >= 1) \/ (i = 2 /\ h = 2)
        BY <2>2
      <3>. QED
        BY <2>1, <3>1 DEF Headed
    <2>. QED
      BY <2>2, <2>3
  <1>3. \A w \in Writers : writer[w].pc \in {"idle", "create", "title", "append"}
    BY DEF Shapes, WriterStates
  <1>4. \A r \in Readers :
           /\ reader[r].pc \in {"idle", "test", "fresh", "list", "load", "hit",
                                "clear", "fill", "stamp"}
           /\ reader[r].names \subseteq Guids
           /\ IsLists(reader[r].loaded)
    BY MapProperties DEF Shapes, ReaderStates
  <1>5. IsLists(cache)
    BY MapProperties DEF Shapes
  <1>6. \A g \in Guids : log[g] \in Seq(Messages)
    BY DEF Shapes
  <1>7. TypeOK
    BY <1>2, <1>3, <1>4, <1>5, <1>6 DEF TypeOK
  <1>. QED
    BY <1>1, <1>7 DEF TypeInv

\* A step that leaves the files as they can be, and the rest well-typed.
LEMMA TypeNext ==
    ASSUME TypeInv, FilesStep,
           \A g \in Guids : LogKept(g) \/ LogCut(g) \/ \E m \in Messages : LogGrown(g, m),
           now' \in now..MaxTime, stamp' \in 0..now', cache' \in Maps,
           reader' \in [Readers -> ReaderStates], writer' \in [Writers -> WriterStates],
           WritersInv', lock' \in Readers \cup {Nobody}
    PROVE  TypeInv'
  <1>0. /\ now \in 1..MaxTime /\ log \in [Guids -> Seq(Messages)] /\ MaxTime \in Nat
        /\ \A g \in Guids : created[g] \in 0..Len(log[g]) /\ Len(log[g]) \in Nat
    BY BoundAssumption DEF TypeInv, TypeOK, Shapes
  <1>1. now' \in 1..MaxTime /\ now' \in Nat /\ stamp' \in Nat
    BY <1>0
  <1>2. Shapes'
    BY <1>1 DEF Shapes, FilesStep
  <1>3. ASSUME NEW g \in Guids PROVE created'[g] \in 0..Len(log'[g])
    <2>1. CASE LogKept(g)
      BY <1>0, <2>1 DEF LogKept
    <2>2. CASE LogCut(g)
      BY <1>0, <2>2 DEF LogCut
    <2>3. ASSUME NEW m \in Messages, LogGrown(g, m) PROVE created'[g] \in 0..Len(log'[g])
      <3>1. Len(log'[g]) = Len(log[g]) + 1 /\ created'[g] = created[g]
        BY <1>0, <2>3, AppendProperties DEF LogGrown
      <3>. QED
        BY <1>0, <3>1
    <2>. QED
      BY <2>1, <2>2, <2>3
  <1>4. ASSUME NEW g \in Guids
        PROVE  /\ \E h \in 0..2 : Headed(file'[g].items, h)
               /\ ~file'[g].there => file'[g].items = <<>>
               /\ file'[g].time \in 0..now'
    BY <1>0, <1>1 DEF FilesStep
  <1>. QED
    <2>1. TypeParts'
      BY <1>1, <1>2, <1>3, <1>4 DEF TypeParts
    <2>. QED
      BY <2>1, TypeFromParts, PTL

\* How far a step of a writer takes it.
LEMMA WriterNext ==
    ASSUME TypeInv, NEW w \in Writers,
           PrepareDataFile(w) \/ OpenNew(w) \/ WriteTitle(w) \/ AppendBlock(w)
    PROVE  /\ writer' \in [Writers -> WriterStates]
           /\ \A v \in Writers \ {w} : writer'[v] = writer[v]
           /\ PrepareDataFile(w) =>
                 /\ writer[w].pc = "idle" /\ writer'[w].count = writer[w].count + 1
                 /\ writer'[w].guid \in Guids
                 /\ writer'[w].pc = IF file[writer'[w].guid].there THEN "append" ELSE "create"
           /\ OpenNew(w) \/ WriteTitle(w) =>
                 /\ writer[w].pc = IF OpenNew(w) THEN "create" ELSE "title"
                 /\ writer'[w].pc = IF OpenNew(w) THEN "title" ELSE "append"
                 /\ writer'[w].count = writer[w].count /\ writer'[w].guid = writer[w].guid
           /\ AppendBlock(w) =>
                 writer[w].pc = "append" /\ writer'[w].pc = "idle"
                 /\ writer'[w].count = writer[w].count
  <1>0. /\ writer \in [Writers -> WriterStates] /\ writer[w] \in WriterStates
        /\ writer[w].count \in 0..MaxWrites /\ MaxWrites \in Nat
    BY BoundAssumption DEF TypeInv, Shapes, WriterStates
  <1>1. CASE PrepareDataFile(w)
    <2>1. PICK g \in Guids :
             writer' = [writer EXCEPT ![w] = [pc |-> IF file[g].there THEN "append" ELSE "create",
                                              count |-> writer[w].count + 1, guid |-> g]]
      BY <1>1 DEF PrepareDataFile
    <2>. DEFINE s == [pc |-> IF file[g].there THEN "append" ELSE "create",
                      count |-> writer[w].count + 1, guid |-> g]
    <2>2. writer[w].pc = "idle" /\ writer[w].count < MaxWrites
      BY <1>1 DEF PrepareDataFile
    <2>3. writer[w].count + 1 \in 0..MaxWrites
      BY <1>0, <2>2
    <2>4. s \in WriterStates
      BY <2>3 DEF WriterStates
    <2>5. writer'[w] = s
      BY <1>0, <2>1
    <2>6. s.guid = g /\ s.count = writer[w].count + 1
          /\ s.pc = IF file[g].there THEN "append" ELSE "create"
      OBVIOUS
    <2>7. writer' \in [Writers -> WriterStates] /\ \A v \in Writers \ {w} : writer'[v] = writer[v]
      <3>1. writer' = [writer EXCEPT ![w] = s]
        BY <2>1
      <3>. HIDE DEF s
      <3>. QED
        BY <1>0, <2>4, <3>1
    <2>. HIDE DEF s
    <2>8. ~OpenNew(w) /\ ~WriteTitle(w) /\ ~AppendBlock(w)
      BY <2>2 DEF OpenNew, WriteTitle, AppendBlock
    <2>. QED
      BY <2>2, <2>5, <2>6, <2>7, <2>8
  <1>2. CASE OpenNew(w) \/ WriteTitle(w)
    <2>. DEFINE pc == IF OpenNew(w) THEN "title" ELSE "append"
                s == [writer[w] EXCEPT !.pc = pc]
    <2>1. writer[w].pc = IF OpenNew(w) THEN "create" ELSE "title"
      BY <1>2 DEF OpenNew, WriteTitle
    <2>2. writer' = [writer EXCEPT ![w] = s]
      BY <1>2 DEF OpenNew, WriteTitle
    <2>6. pc \in {"title", "append"}
      OBVIOUS
    <2>. HIDE DEF pc
    <2>3. s \in WriterStates /\ s.pc = pc /\ s.guid = writer[w].guid /\ s.count = writer[w].count
      BY <1>0, <2>6 DEF WriterStates
    <2>. HIDE DEF s
    <2>4. writer'[w] = s /\ writer' \in [Writers -> WriterStates]
          /\ \A v \in Writers \ {w} : writer'[v] = writer[v]
      BY <1>0, <2>2, <2>3
    <2>5. ~PrepareDataFile(w) /\ ~AppendBlock(w)
      BY <2>1 DEF PrepareDataFile, AppendBlock
    <2>. QED
      BY <2>1, <2>3, <2>4, <2>5 DEF pc
  <1>3. CASE AppendBlock(w)
    <2>. DEFINE s == [pc |-> "idle", count |-> writer[w].count, guid |-> All]
    <2>1. writer[w].pc = "append" /\ writer' = [writer EXCEPT ![w] = s]
      BY <1>3 DEF AppendBlock
    <2>2. s \in WriterStates /\ s.pc = "idle" /\ s.count = writer[w].count
      BY <1>0 DEF WriterStates
    <2>. HIDE DEF s
    <2>3. writer'[w] = s /\ writer' \in [Writers -> WriterStates]
          /\ \A v \in Writers \ {w} : writer'[v] = writer[v]
      BY <1>0, <2>1, <2>2
    <2>4. ~PrepareDataFile(w) /\ ~OpenNew(w) /\ ~WriteTitle(w)
      BY <2>1 DEF PrepareDataFile, OpenNew, WriteTitle
    <2>. QED
      BY <2>1, <2>2, <2>3, <2>4
  <1>. QED
    BY <1>1, <1>2, <1>3

\* The message a writer has at hand is one of its messages.
LEMMA AtHand ==
    ASSUME TypeInv, NEW w \in Writers, writer[w].pc # "idle"
    PROVE  /\ Message(w, writer[w].count) \in Messages
           /\ writer[w].count \in 1..MaxWrites
           /\ writer[w].guid \in Guids
  <1>1. writer[w].count \in 1..MaxWrites
    BY BoundAssumption DEF TypeInv, Shapes, WriterStates, FileInv
  <1>2. writer[w].guid \in Guids
    BY DEF TypeInv, FileInv
  <1>. QED
    BY <1>1, <1>2 DEF Messages

\* The four steps of a writer, or none, and the files.
LEMMA FilesNext ==
    ASSUME TypeInv, [Next]_vars
    PROVE  /\ FilesStep
           /\ \A g \in Guids :
                 \/ LogKept(g) \/ LogCut(g)
                 \/ \E w \in Writers :
                       /\ AppendBlock(w) /\ writer[w].guid = g
                       /\ LogGrown(g, Message(w, writer[w].count))
  <1>1. ASSUME NEW w \in Writers, OpenNew(w)
        PROVE  FilesStep /\ \A g \in Guids : LogKept(g) \/ LogCut(g)
    BY <1>1, OpenNewStep
  <1>2. ASSUME NEW w \in Writers, WriteTitle(w)
        PROVE  FilesStep /\ \A g \in Guids : LogKept(g) \/ LogCut(g)
    BY <1>2, WriteTitleStep
  <1>3. ASSUME NEW w \in Writers, AppendBlock(w)
        PROVE  /\ FilesStep
               /\ \A g \in Guids :
                     \/ LogKept(g)
                     \/ writer[w].guid = g /\ LogGrown(g, Message(w, writer[w].count))
    <2>1. Message(w, writer[w].count) \in Messages
      BY <1>3, AtHand DEF AppendBlock
    <2>2. PICK f, m : f = writer[w].guid /\ m = Message(w, writer[w].count)
      OBVIOUS
    <2>3. /\ FilesStep /\ LogGrown(f, m)
          /\ \A g \in Guids \ {f} : LogKept(g)
      BY <1>3, <2>1, <2>2, AppendBlockStep
    <2>4. LogGrown(f, Message(w, writer[w].count))
      BY <2>2, <2>3 DEF LogGrown
    <2>. QED
      BY <2>2, <2>3, <2>4
  <1>4. CASE UNCHANGED <<file, log, created>>
    BY <1>4, UnwrittenStep
  <1>5. \/ UNCHANGED <<file, log, created>>
        \/ \E w \in Writers : OpenNew(w) \/ WriteTitle(w) \/ AppendBlock(w)
    BY DEF Next, vars, PrepareDataFile, Read, IsCacheExist, NeedRefresh, LoadList, LoadMsgsById,
           CacheRead, CacheClear, CacheFill, CacheStamp, Restart, Tick, Reading
  <1>. QED
    BY <1>1, <1>2, <1>3, <1>4, <1>5

\* The beginning of a read.
LEMMA SeenType ==
    ASSUME TypeInv, NEW g \in Guids
    PROVE  /\ Seen(g) \in Seens /\ Unseen \in Seens
           /\ Seen(g).items = Intact(g)
           /\ Seen(g).items # <<>> => Seen(g).time = file[g].time
           /\ ~Seen(g).unsettled => Intact(g) # <<>> /\ ~Creating(g)
           /\ Unseen.items = <<>>
           /\ Unseen.unsettled
  <1>1. Intact(g) \in Seq(Messages) /\ file[g].time \in Nat /\ <<>> \in Seq(Messages)
    BY IntactProperties, EmptySeq DEF TypeInv, Shapes, FileStates
  <1>2. (Intact(g) = <<>> \/ Creating(g)) \in BOOLEAN
    OBVIOUS
  <1>3. (IF Intact(g) = <<>> THEN 0 ELSE file[g].time) \in Nat
    BY <1>1
  <1>. QED
    BY <1>1, <1>2, <1>3 DEF Seen, Seens, Unseen

\* read: what the files were when it began.
LEMMA ReadNext ==
    ASSUME TypeInv, NEW r \in Readers, Read(r)
    PROVE  \E guid \in Guids \cup {All} :
              /\ reader[r].pc = "idle"
              /\ reader' \in [Readers -> ReaderStates]
              /\ \A q \in Readers \ {r} : reader'[q] = reader[q]
              /\ reader'[r].pc = "test" /\ reader'[r].guid = guid /\ reader'[r].names = Names
              /\ reader'[r].loaded = Empty /\ reader'[r].result = Nothing
              /\ \A g \in Guids :
                    reader'[r].began[g] = IF guid \in {All, g} THEN Seen(g) ELSE Unseen
  <1>1. PICK guid \in Guids \cup {All} :
           reader' = [reader EXCEPT ![r] =
              [pc |-> "test", guid |-> guid, names |-> Names, loaded |-> Empty, result |-> Nothing,
               began |-> [g \in Guids |-> IF guid \in {All, g} THEN Seen(g) ELSE Unseen]]]
    BY DEF Read
  <1>. DEFINE b == [g \in Guids |-> IF guid \in {All, g} THEN Seen(g) ELSE Unseen]
              s == [pc |-> "test", guid |-> guid, names |-> Names, loaded |-> Empty,
                    result |-> Nothing, began |-> b]
  <1>2. b \in [Guids -> Seens]
    BY SeenType
  <1>3. \A g \in Guids : b[g] = IF guid \in {All, g} THEN Seen(g) ELSE Unseen
    OBVIOUS
  <1>4. reader' = [reader EXCEPT ![r] = s]
    BY <1>1
  <1>. HIDE DEF b
  <1>5. Nothing \in Results
    BY MapProperties DEF Nothing, Results
  <1>6. s \in ReaderStates
    BY <1>2, <1>5, MapProperties DEF ReaderStates, Names
  <1>7. s.pc = "test" /\ s.guid = guid /\ s.names = Names /\ s.loaded = Empty
        /\ s.result = Nothing /\ s.began = b
    OBVIOUS
  <1>. HIDE DEF s
  <1>8. reader[r].pc = "idle"
    BY DEF Read
  <1>9. /\ reader' \in [Readers -> ReaderStates]
        /\ \A q \in Readers \ {r} : reader'[q] = reader[q]
        /\ reader'[r] = s
    BY <1>4, <1>6, TurnedByRecord
  <1>. QED
    BY <1>3, <1>7, <1>8, <1>9

\* The cache will not do.
ToLoadTurned(r) ==
    Turned(r, IF reader[r].guid = All THEN "list" ELSE "load",
           IF reader[r].guid = All THEN {} ELSE {reader[r].guid},
           reader[r].loaded, reader[r].result)

\* The cache will not do: the files are to be listed, or the one is to be loaded.
LEMMA ToLoadTurns ==
    ASSUME TypeInv, NEW r \in Readers, ToLoad(r)
    PROVE  ToLoadTurned(r)
  <1>1. (IF reader[r].guid = All THEN "list" ELSE "load") \in ReaderPcs
    BY DEF ReaderPcs
  <1>2. (IF reader[r].guid = All THEN {} ELSE {reader[r].guid}) \in SUBSET Guids
    BY ReaderType
  <1>. QED
    BY <1>1, <1>2, NamesTurn DEF ToLoad, ToLoadTurned

\* isCacheExist: the files are to be loaded or the cache to be looked at.
LEMMA IsCacheExistNext ==
    ASSUME TypeInv, NEW r \in Readers, IsCacheExist(r)
    PROVE  /\ reader[r].pc = "test"
           /\ \/ ToLoadTurned(r)
              \/ Turned(r, "fresh", reader[r].names, reader[r].loaded, reader[r].result)
  BY ToLoadTurns, MoveTurns DEF IsCacheExist, ReaderPcs

\* needRefresh: no file is left and the cache does, one is too young, or one is not.
LEMMA NeedRefreshNext ==
    ASSUME TypeInv, NEW r \in Readers, NeedRefresh(r)
    PROVE  /\ reader[r].pc = "fresh"
           /\ \/ /\ reader[r].names = {}
                 /\ Turned(r, "hit", {}, reader[r].loaded, reader[r].result)
              \/ ToLoadTurned(r)
              \/ \E f \in reader[r].names :
                    /\ ~(LastModified(f) > stamp)
                    /\ Turned(r, "fresh", reader[r].names \ {f}, reader[r].loaded,
                              reader[r].result)
  <1>1. reader[r].pc = "fresh"
    BY DEF NeedRefresh
  <1>2. CASE reader[r].names = {} /\ Move(r, "hit")
    BY <1>1, <1>2, MoveTurns DEF ReaderPcs
  <1>3. ASSUME NEW f \in reader[r].names, LastModified(f) > stamp, ToLoad(r)
        PROVE  ToLoadTurned(r)
    BY <1>3, ToLoadTurns
  <1>4. ASSUME NEW f \in reader[r].names, ~(LastModified(f) > stamp),
               reader' = [reader EXCEPT ![r].names = reader[r].names \ {f}]
        PROVE  Turned(r, "fresh", reader[r].names \ {f}, reader[r].loaded, reader[r].result)
    <2>1. reader[r].names \ {f} \in SUBSET Guids
      BY ReaderType
    <2>. QED
      BY <1>1, <1>4, <2>1, DropTurns
  <1>5. \/ reader[r].names = {} /\ Move(r, "hit")
        \/ \E f \in reader[r].names :
              IF LastModified(f) > stamp THEN ToLoad(r)
              ELSE reader' = [reader EXCEPT ![r].names = reader[r].names \ {f}]
    BY DEF NeedRefresh, TypeInv, Shapes
  <1>. QED
    BY <1>1, <1>2, <1>3, <1>4, <1>5

\* load(null): the files there are are to be loaded.
LEMMA LoadListNext ==
    ASSUME TypeInv, NEW r \in Readers, LoadList(r)
    PROVE  /\ reader[r].pc = "list"
           /\ Turned(r, "load", Names, reader[r].loaded, reader[r].result)
  <1>1. Names \in SUBSET Guids /\ "load" \in ReaderPcs
    BY DEF Names, ReaderPcs
  <1>. QED
    BY <1>1, NamesTurn DEF LoadList

\* loadMsgsById: no file is left, one has no message, or one is loaded.
LEMMA LoadMsgsByIdNext ==
    ASSUME TypeInv, NEW r \in Readers, LoadMsgsById(r)
    PROVE  /\ reader[r].pc = "load"
           /\ \/ /\ reader[r].names = {}
                 /\ Turned(r, "clear", {}, reader[r].loaded, reader[r].result)
              \/ \E f \in reader[r].names :
                    /\ Intact(f) = <<>>
                    /\ Turned(r, "idle", {}, Empty, Failure(f))
              \/ \E f \in reader[r].names :
                    /\ Intact(f) # <<>>
                    /\ Turned(r, "load", reader[r].names \ {f},
                              Put(reader[r].loaded, f, Intact(f)), reader[r].result)
  <1>1. reader[r].pc = "load"
    BY DEF LoadMsgsById
  <1>2. CASE reader[r].names = {} /\ Move(r, "clear")
    BY <1>1, <1>2, MoveTurns DEF ReaderPcs
  <1>3. ASSUME NEW f \in reader[r].names, Intact(f) = <<>>, End(r, Failure(f))
        PROVE  Turned(r, "idle", {}, Empty, Failure(f))
    <2>1. Failure(f) \in Results
      BY ReaderType, MapProperties DEF Failure, Results
    <2>. QED
      BY <1>3, <2>1, EndTurns
  <1>4. ASSUME NEW f \in reader[r].names, Intact(f) # <<>>,
               reader' = [reader EXCEPT ![r].names = reader[r].names \ {f},
                                        ![r].loaded = Put(reader[r].loaded, f, Intact(f))]
        PROVE  Turned(r, "load", reader[r].names \ {f},
                      Put(reader[r].loaded, f, Intact(f)), reader[r].result)
    <2>1. reader[r].names \ {f} \in SUBSET Guids /\ f \in Guids
      BY ReaderType
    <2>2. Put(reader[r].loaded, f, Intact(f)) \in Maps
      BY <2>1, ReaderType, MapProperties, IntactProperties
    <2>. QED
      BY <1>1, <1>4, <2>1, <2>2, LoadTurns
  <1>5. \/ reader[r].names = {} /\ Move(r, "clear")
        \/ \E f \in reader[r].names :
              IF Intact(f) = <<>> THEN End(r, Failure(f))
              ELSE reader' = [reader EXCEPT ![r].names = reader[r].names \ {f},
                                            ![r].loaded = Put(reader[r].loaded, f, Intact(f))]
    BY DEF LoadMsgsById, TypeInv, Shapes
  <1>. QED
    BY <1>1, <1>2, <1>3, <1>4, <1>5

\* What cacheRWHandler answers.
Answering(r, kind, time) ==
    [kind |-> kind, lists |-> GenerateResultMap(reader[r].guid, cache), time |-> time,
     file |-> All]

\* A read is answered from the cache.
LEMMA AnswerTurns ==
    ASSUME TypeInv, NEW r \in Readers, NEW kind \in {"cached", "loaded"}, NEW time \in Nat,
           Answer(r, kind, time)
    PROVE  Turned(r, "idle", {}, Empty, Answering(r, kind, time))
  <1>1. GenerateResultMap(reader[r].guid, cache) \in Maps
    BY ReaderType, MapProperties DEF TypeInv, Shapes
  <1>2. Answering(r, kind, time) \in Results
    BY <1>1 DEF Answering, Results
  <1>3. End(r, Answering(r, kind, time))
    BY DEF Answer, Answering
  <1>. QED
    BY <1>2, <1>3, EndTurns

\* cacheRWHandler: the lock, the cache and the reader after each access.
LEMMA CacheNext ==
    ASSUME TypeInv, NEW r \in Readers
    PROVE  /\ CacheRead(r) =>
                 /\ reader[r].pc = "hit" /\ lock = Nobody
                 /\ Turned(r, "idle", {}, Empty, Answering(r, "cached", stamp))
                 /\ UNCHANGED <<cache, stamp, lock>>
           /\ CacheClear(r) =>
                 /\ reader[r].pc = "clear" /\ lock = Nobody /\ lock' = r
                 /\ cache' = Empty /\ stamp' = stamp
                 /\ Turned(r, "fill", reader[r].names, reader[r].loaded, reader[r].result)
           /\ CacheFill(r) =>
                 /\ reader[r].pc = "fill" /\ UNCHANGED <<stamp, lock>>
                 /\ cache' = PutAll(cache, reader[r].loaded)
                 /\ Turned(r, "stamp", reader[r].names, reader[r].loaded, reader[r].result)
           /\ CacheStamp(r) =>
                 /\ reader[r].pc = "stamp" /\ cache' = cache /\ stamp' = now /\ lock' = Nobody
                 /\ Turned(r, "idle", {}, Empty, Answering(r, "loaded", 0))
  <1>1. stamp \in Nat
    BY DEF TypeInv, Shapes
  <1>2. CacheRead(r) => Turned(r, "idle", {}, Empty, Answering(r, "cached", stamp))
    BY <1>1, AnswerTurns DEF CacheRead
  <1>3. CacheStamp(r) => Turned(r, "idle", {}, Empty, Answering(r, "loaded", 0))
    BY AnswerTurns DEF CacheStamp
  <1>4. CacheClear(r) =>
           Turned(r, "fill", reader[r].names, reader[r].loaded, reader[r].result)
    BY MoveTurns DEF CacheClear, ReaderPcs
  <1>5. CacheFill(r) =>
           Turned(r, "stamp", reader[r].names, reader[r].loaded, reader[r].result)
    BY MoveTurns DEF CacheFill, ReaderPcs
  <1>. QED
    BY <1>2, <1>3, <1>4, <1>5 DEF CacheRead, CacheClear, CacheFill, CacheStamp, NoChangeOfCache

\* A restart leaves readers idle, and forgets their answers and the cache.
LEMMA RestartNext ==
    ASSUME TypeInv, Restart
    PROVE  /\ reader' \in [Readers -> ReaderStates]
           /\ \A r \in Readers :
                 /\ reader[r].pc = "idle" /\ reader'[r].pc = "idle"
                 /\ reader'[r].guid = reader[r].guid /\ reader'[r].names = reader[r].names
                 /\ reader'[r].loaded = reader[r].loaded /\ reader'[r].result = Nothing
                 /\ reader'[r].began = reader[r].began
           /\ cache' = Empty /\ stamp' = 0 /\ lock' = lock
  <1>1. Nothing \in Results
    BY MapProperties DEF Nothing, Results
  <1>2. ASSUME NEW r \in Readers
        PROVE  LET s == [reader[r] EXCEPT !.result = Nothing]
               IN  /\ s \in ReaderStates /\ s.pc = reader[r].pc
                   /\ s.guid = reader[r].guid /\ s.names = reader[r].names
                   /\ s.loaded = reader[r].loaded /\ s.result = Nothing
                   /\ s.began = reader[r].began
    BY <1>1, ReaderType DEF ReaderStates
  <1>3. reader' = [r \in Readers |-> [reader[r] EXCEPT !.result = Nothing]]
    BY DEF Restart
  <1>4. \A r \in Readers : reader'[r] = [reader[r] EXCEPT !.result = Nothing]
    BY <1>3
  <1>5. reader' \in [Readers -> ReaderStates]
    BY <1>2, <1>3
  <1>. QED
    BY <1>2, <1>4, <1>5 DEF Restart

\* A step of the readers that leaves the cache alone.
Looks(r) ==
    Read(r) \/ IsCacheExist(r) \/ NeedRefresh(r) \/ LoadList(r) \/ LoadMsgsById(r)

\* Every step keeps the types.
LEMMA TypeStep == TypeInv /\ [Next]_vars => TypeInv'
  <1>. SUFFICES ASSUME TypeInv, [Next]_vars PROVE TypeInv'
    OBVIOUS
  <1>0. /\ now \in 1..MaxTime /\ now \in now..MaxTime /\ stamp \in 0..now /\ cache \in Maps
        /\ reader \in [Readers -> ReaderStates] /\ writer \in [Writers -> WriterStates]
        /\ WritersInv /\ lock \in Readers \cup {Nobody}
    BY DEF TypeInv, TypeOK, Shapes, FileInv, WritersInv
  <1>1. /\ FilesStep
        /\ \A g \in Guids : LogKept(g) \/ LogCut(g) \/ \E m \in Messages : LogGrown(g, m)
    BY FilesNext, AtHand DEF AppendBlock
  <1>2. UNCHANGED writer => WritersInv'
    BY <1>0, <1>1 DEF WritersInv, FilesStep
  <1>3. ASSUME NEW w \in Writers,
               PrepareDataFile(w) \/ OpenNew(w) \/ WriteTitle(w) \/ AppendBlock(w)
        PROVE  TypeInv'
    <2>1. UNCHANGED <<now, reader, cache, stamp, lock>>
      BY <1>3 DEF PrepareDataFile, OpenNew, WriteTitle, AppendBlock, Writing
    <2>2. writer' \in [Writers -> WriterStates] /\ \A v \in Writers \ {w} : writer'[v] = writer[v]
      BY <1>3, WriterNext
    <2>3. /\ writer'[w].pc # "idle" => writer'[w].guid \in Guids /\ writer'[w].count >= 1
          /\ writer'[w].pc \in {"title", "append"} => file'[writer'[w].guid].there
      <3>1. CASE PrepareDataFile(w)
        <4>1. /\ writer'[w].count = writer[w].count + 1 /\ writer[w].count \in Nat
              /\ writer'[w].guid \in Guids
              /\ writer'[w].pc = IF file[writer'[w].guid].there THEN "append" ELSE "create"
          BY <1>0, <3>1, WriterNext, BoundAssumption DEF WriterStates
        <4>2. file' = file
          BY <3>1 DEF PrepareDataFile
        <4>. QED
          BY <4>1, <4>2
      <3>2. CASE OpenNew(w)
        <4>1. PICK f : f = writer[w].guid
          OBVIOUS
        <4>2. file'[f].there
          BY <3>2, <4>1, OpenNewStep
        <4>3. writer[w].pc = "create" /\ writer'[w].count = writer[w].count /\ writer'[w].guid = f
          BY <3>2, <4>1, WriterNext
        <4>. QED
          BY <1>0, <4>1, <4>2, <4>3 DEF WritersInv
      <3>3. CASE WriteTitle(w)
        <4>1. writer[w].pc = "title"
          BY <3>3 DEF WriteTitle
        <4>2. ~OpenNew(w)
          BY <4>1 DEF OpenNew
        <4>3. writer'[w].count = writer[w].count /\ writer'[w].guid = writer[w].guid
          BY <3>3, WriterNext
        <4>. QED
          BY <1>0, <1>1, <4>1, <4>3 DEF WritersInv, FilesStep
      <3>4. CASE AppendBlock(w)
        BY <3>4, WriterNext
      <3>. QED
        BY <1>3, <3>1, <3>2, <3>3, <3>4
    <2>4. WritersInv'
      BY <1>0, <1>1, <2>2, <2>3 DEF WritersInv, FilesStep
    <2>. QED
      BY <1>0, <1>1, <2>1, <2>2, <2>4, TypeNext
  <1>4. ASSUME NEW r \in Readers, Looks(r) PROVE TypeInv'
    <2>1. UNCHANGED <<now, writer, cache, stamp, lock>>
      BY <1>4 DEF Looks, Read, IsCacheExist, NeedRefresh, LoadList, LoadMsgsById, Reading,
                  NoChangeOfCache
    <2>2. reader' \in [Readers -> ReaderStates]
      BY <1>4, ReadNext, IsCacheExistNext, NeedRefreshNext, LoadListNext, LoadMsgsByIdNext
         DEF Looks, ToLoadTurned, Turned
    <2>. QED
      BY <1>0, <1>1, <1>2, <2>1, <2>2, TypeNext
  <1>5. ASSUME NEW r \in Readers,
               CacheRead(r) \/ CacheClear(r) \/ CacheFill(r) \/ CacheStamp(r)
        PROVE  TypeInv'
    <2>1. UNCHANGED <<now, writer>>
      BY <1>5 DEF CacheRead, CacheClear, CacheFill, CacheStamp, Reading
    <2>2. /\ reader' \in [Readers -> ReaderStates]
          /\ stamp' \in 0..now /\ lock' \in Readers \cup {Nobody}
          /\ cache' \in {cache, Empty, PutAll(cache, reader[r].loaded)}
      BY <1>0, <1>5, CacheNext DEF Turned
    <2>3. cache' \in Maps
      BY <1>0, <2>2, MapProperties, ReaderType
    <2>. QED
      BY <1>0, <1>1, <1>2, <2>1, <2>2, <2>3, TypeNext
  <1>6. CASE Restart
    <2>1. UNCHANGED <<now, writer>> /\ stamp' \in 0..now
      BY <1>0, <1>6 DEF Restart
    <2>. QED
      BY <1>0, <1>1, <1>2, <1>6, <2>1, RestartNext, MapProperties, TypeNext
  <1>7. CASE Tick
    <2>1. now' \in now..MaxTime /\ stamp \in 0..now'
      BY <1>0, <1>7, BoundAssumption DEF Tick
    <2>. QED
      BY <1>0, <1>1, <1>2, <1>7, <2>1, TypeNext DEF Tick
  <1>8. CASE UNCHANGED vars
    BY <1>0, <1>1, <1>2, <1>8, TypeNext DEF vars
  <1>. QED
    BY <1>3, <1>4, <1>5, <1>6, <1>7, <1>8 DEF Next, Looks

\* The types at the start.
LEMMA TypeInit == Init => TypeInv
  <1>. SUFFICES ASSUME Init PROVE TypeInv
    OBVIOUS
  <1>1. /\ now = 1 /\ stamp = 0 /\ cache = Empty /\ lock = Nobody
        /\ \A g \in Guids : /\ file[g] = [there |-> FALSE, items |-> <<>>, time |-> 0]
                            /\ log[g] = <<>> /\ created[g] = 0
        /\ \A w \in Writers : writer[w] = [pc |-> "idle", count |-> 0, guid |-> All]
    BY DEF Init
  <1>2. 1 \in 1..MaxTime /\ 0 \in 0..MaxWrites
    BY BoundAssumption
  <1>3. /\ [there |-> FALSE, items |-> <<>>, time |-> 0] \in FileStates
        /\ [pc |-> "idle", count |-> 0, guid |-> All] \in WriterStates
    BY <1>2, EmptyFile DEF FileStates, WriterStates
  <1>4. Nothing \in Results /\ Unseen \in Seens /\ Empty \in Maps
    <2>1. <<>> \in Seq(Messages)
      BY EmptySeq
    <2>. QED
      BY <2>1, MapProperties DEF Nothing, Results, Unseen, Seens
  <1>5. [g \in Guids |-> Unseen] \in [Guids -> Seens]
    BY <1>4
  <1>6. [pc |-> "idle", guid |-> All, names |-> {}, loaded |-> Empty, result |-> Nothing,
         began |-> [g \in Guids |-> Unseen]] \in ReaderStates
    BY <1>4, <1>5 DEF ReaderStates
  <1>7. reader \in [Readers -> ReaderStates]
    BY <1>6 DEF Init
  <1>8. /\ file \in [Guids -> FileStates] /\ writer \in [Writers -> WriterStates]
        /\ log \in [Guids -> Seq(Messages)] /\ created \in [Guids -> Nat]
    BY <1>3, EmptySeq DEF Init
  <1>9. Shapes
    BY <1>1, <1>4, <1>7, <1>8 DEF Shapes
  <1>10. ASSUME NEW g \in Guids
         PROVE  /\ \E h \in 0..2 : Headed(file[g].items, h)
                /\ ~file[g].there => file[g].items = <<>>
                /\ file[g].time \in 0..now
                /\ created[g] \in 0..Len(log[g])
    <2>1. file[g].items = <<>> /\ file[g].time = 0 /\ log[g] = <<>> /\ created[g] = 0
      BY <1>1
    <2>2. Len(<<>>) = 0
      BY EmptySeq
    <2>. QED
      BY <1>1, <2>1, <2>2, EmptyFile
  <1>11. WritersInv
    BY <1>1 DEF WritersInv
  <1>. QED
    BY <1>1, <1>2, <1>9, <1>10, <1>11, TypeFromParts DEF TypeParts

\* The store is well-typed: a file is at most a title, what the title left of a
\* message, and messages; the cache and the lists of readers hold messages only.
THEOREM TypeCorrect == Spec => []TypeInv
  BY TypeInit, TypeStep, PTL DEF Spec

-----------------------------------------------------------------------------
(* The files.                                                              *)

\* What is to be read of a guid is what was appended for it after the first k.
Suffix(g, k) == SubSeq(log[g], k + 1, Len(log[g]))

\* The suffix of a log after a step.
LEMMA SuffixNext == \A g, k : Suffix(g, k)' = SubSeq(log'[g], k + 1, Len(log'[g]))
  BY DEF Suffix

\* The log of a guid.
LEMMA LogType ==
    ASSUME TypeInv, NEW g \in Guids
    PROVE  /\ log[g] \in Seq(Messages) /\ Len(log[g]) \in Nat
           /\ created[g] \in 0..Len(log[g])
  BY DEF TypeInv, TypeOK, Shapes

\* A writer's step, whoever else is between prepareDataFile and write, leaves of
\* each log a suffix.
LEMMA KeepsLogStep == TypeInv /\ KeepsLog /\ [Next]_vars => KeepsLog'
  <1>. SUFFICES ASSUME TypeInv, KeepsLog, [Next]_vars, NEW g \in Guids
                PROVE  \E k \in 0..created'[g] : Intact(g)' = Suffix(g, k)'
    BY DEF KeepsLog, Suffix
  <1>1. PICK k \in 0..created[g] : Intact(g) = Suffix(g, k)
    BY DEF KeepsLog, Suffix
  <1>2. /\ log[g] \in Seq(Messages) /\ Len(log[g]) \in Nat
        /\ created[g] \in 0..Len(log[g]) /\ k \in 0..Len(log[g])
    BY LogType
  <1>3. CASE LogKept(g)
    <2>1. k \in 0..created'[g] /\ log'[g] = log[g] /\ Intact(g)' = Intact(g)
      BY <1>2, <1>3 DEF LogKept
    <2>. QED
      BY <1>1, <2>1, SuffixNext DEF Suffix
  <1>4. CASE LogCut(g)
    <2>1. log'[g] = log[g] /\ created'[g] = Len(log[g])
      BY <1>4 DEF LogCut
    <2>2. CASE Intact(g)' = <<>>
      <3>0. PICK n \in Nat : n = Len(log[g])
        BY <1>2
      <3>1. Suffix(g, n)' = <<>>
        BY <1>2, <2>1, <3>0, SuffixNext, SubSeqEmpty
      <3>2. n \in 0..created'[g]
        BY <1>2, <2>1, <3>0
      <3>. QED
        BY <2>2, <3>1, <3>2
    <2>3. CASE Intact(g) # <<>> /\ Intact(g)' = SubSeq(Intact(g), 2, Len(Intact(g)))
      <3>1. k + 1 \in 1..Len(log[g])
        <4>1. k = Len(log[g]) => Suffix(g, k) = <<>>
          BY <1>2, SubSeqEmpty DEF Suffix
        <4>2. k # Len(log[g])
          BY <1>1, <2>3, <4>1
        <4>3. k \in 0..Len(log[g]) /\ Len(log[g]) \in Nat
          BY <1>2
        <4>. QED
          BY <4>2, <4>3
      <3>2. Len(log[g]) \in (k + 1)..Len(log[g])
        BY <1>2, <3>1
      <3>3. Tail(Suffix(g, k)) = SubSeq(log[g], (k + 1) + 1, Len(log[g]))
        BY <1>2, <3>1, <3>2, HeadTailOfSubSeq DEF Suffix
      <3>4. Intact(g) \in Seq(Messages)
        BY IntactProperties
      <3>5. Intact(g)' = Tail(Intact(g))
        BY <2>3, <3>4, TailIsSubSeq
      <3>6. Intact(g)' = Suffix(g, k + 1)'
        BY <1>1, <2>1, <3>3, <3>5, SuffixNext
      <3>7. k + 1 \in 0..created'[g]
        BY <1>2, <2>1, <3>1
      <3>. QED
        BY <3>6, <3>7
    <2>. QED
      BY <1>4, <2>2, <2>3 DEF LogCut
  <1>5. ASSUME NEW m \in Messages, LogGrown(g, m)
        PROVE  \E j \in 0..created'[g] : Intact(g)' = Suffix(g, j)'
    <2>1. /\ Intact(g)' = Append(Intact(g), m)
          /\ log'[g] = Append(log[g], m) /\ created'[g] = created[g]
      BY <1>5 DEF LogGrown
    <2>2. Suffix(g, k)' = Append(Suffix(g, k), m)
      BY <1>2, <2>1, SuffixNext, SuffixOfAppend DEF Suffix
    <2>. QED
      BY <1>1, <2>1, <2>2
  <1>6. LogKept(g) \/ LogCut(g) \/ \E m \in Messages : LogGrown(g, m)
    BY FilesNext, AtHand DEF AppendBlock
  <1>. QED
    BY <1>3, <1>4, <1>5, <1>6

\* Whoever began it, and however often, a file is one title and then all that
\* was appended for its guid since some append before it was last created.
THEOREM FilesKeepTheirLogs == Spec => []FilesAreLogs
  <1>1. Init => KeepsLog
    <2>. SUFFICES ASSUME Init, NEW g \in Guids
                  PROVE  \E k \in 0..created[g] : Intact(g) = SubSeq(log[g], k + 1, Len(log[g]))
      BY DEF KeepsLog
    <2>1. file[g].items = <<>> /\ log[g] = <<>> /\ created[g] = 0
      BY DEF Init
    <2>2. Intact(g) = <<>> /\ Len(log[g]) = 0
      BY <2>1, EmptyFile, EmptySeq DEF Intact
    <2>3. SubSeq(log[g], 0 + 1, Len(log[g])) = <<>>
      BY <2>2, SubSeqEmpty
    <2>. QED
      BY <2>1, <2>2, <2>3
  <1>2. TypeInv /\ KeepsLog => FilesAreLogs
    BY DEF TypeInv, FilesAreLogs
  <1>. QED
    BY TypeCorrect, <1>1, <1>2, KeepsLogStep, PTL DEF Spec

-----------------------------------------------------------------------------
(* The lists that are read.                                                *)

\* A stretch of a log, without a gap or a repetition.
IsStretch(list, s) ==
    \E i \in 0..(Len(s) - Len(list)) : list = SubSeq(s, i + 1, i + Len(list))

Stretches(map, logs) == \A g \in DOMAIN map : IsStretch(map[g], logs[g])

StretchInv ==
    /\ Stretches(cache, log)
    /\ \A r \in Readers : /\ Stretches(reader[r].loaded, log)
                          /\ Stretches(reader[r].result.lists, log)

\* A stretch of a log is one of what the log becomes.
LEMMA StretchGrows ==
    ASSUME NEW s \in Seq(Messages), NEW list \in Seq(Messages), IsStretch(list, s),
           NEW m \in Messages
    PROVE  IsStretch(list, Append(s, m))
  <1>1. PICK i \in 0..(Len(s) - Len(list)) : list = SubSeq(s, i + 1, i + Len(list))
    BY DEF IsStretch
  <1>. DEFINE a == Append(s, m)
              u == SubSeq(a, i + 1, i + Len(list))
  <1>2. Len(s) \in Nat /\ Len(list) \in Nat /\ i \in Nat /\ i + Len(list) <= Len(s)
    BY <1>1
  <1>3. /\ a \in Seq(Messages) /\ Len(a) = Len(s) + 1
        /\ \A j \in 1..Len(s) : a[j] = s[j]
    BY AppendProperties
  <1>. HIDE DEF a
  <1>4. \A j \in (i + 1)..(i + Len(list)) : j \in 1..Len(s) /\ j \in 1..Len(a)
    BY <1>2, <1>3
  <1>5. \A j \in (i + 1)..(i + Len(list)) : a[j] \in Messages /\ s[j] \in Messages
    BY <1>3, <1>4, ElementOfSeq
  <1>6. i + 1 \in Int /\ i + Len(list) \in Int
    BY <1>2
  <1>7. /\ u \in Seq(Messages)
        /\ Len(u) = IF i + 1 <= i + Len(list) THEN (i + Len(list)) - (i + 1) + 1 ELSE 0
        /\ \A j \in 1..((i + Len(list)) - (i + 1) + 1) : u[j] = a[(i + 1) + j - 1]
    BY <1>5, <1>6, SubSeqProperties
  <1>8. \A j \in 1..((i + Len(list)) - (i + 1) + 1) : list[j] = s[(i + 1) + j - 1]
    BY <1>1, <1>5, <1>6, SubSeqProperties
  <1>. HIDE DEF u
  <1>9. Len(u) = Len(list)
    BY <1>2, <1>7
  <1>10. ASSUME NEW j \in 1..Len(list) PROVE u[j] = list[j]
    <2>1. /\ j \in 1..((i + Len(list)) - (i + 1) + 1)
          /\ (i + 1) + j - 1 \in 1..Len(s)
      BY <1>2
    <2>. QED
      BY <1>3, <1>7, <1>8, <2>1
  <1>11. list = u
    BY <1>7, <1>9, <1>10, SeqEqual
  <1>12. i \in 0..(Len(a) - Len(list))
    BY <1>2, <1>3
  <1>. QED
    BY <1>11, <1>12 DEF IsStretch, a, u

\* The empty list is a stretch of every log.
LEMMA EmptyStretch == \A s \in Seq(Messages) : IsStretch(<<>>, s)
  <1>. SUFFICES ASSUME NEW s \in Seq(Messages) PROVE IsStretch(<<>>, s)
    OBVIOUS
  <1>1. Len(<<>>) = 0 /\ Len(s) \in Nat
    BY EmptySeq
  <1>2. SubSeq(s, 0 + 1, 0 + 0) = <<>>
    BY SubSeqEmpty
  <1>3. 0 \in 0..(Len(s) - 0)
    BY <1>1
  <1>. QED
    BY <1>1, <1>2, <1>3 DEF IsStretch

\* What is read of a file is a stretch of the guid's log.
LEMMA IntactIsStretch ==
    ASSUME TypeInv, KeepsLog, NEW g \in Guids
    PROVE  IsStretch(Intact(g), log[g])
  <1>1. PICK k \in 0..created[g] : Intact(g) = SubSeq(log[g], k + 1, Len(log[g]))
    BY DEF KeepsLog
  <1>2. /\ log[g] \in Seq(Messages) /\ Len(log[g]) \in Nat
        /\ created[g] \in 0..Len(log[g])
    BY LogType
  <1>3. k \in 0..Len(log[g])
    BY <1>2
  <1>4. Len(Intact(g)) = Len(log[g]) - k
    BY <1>1, <1>2, <1>3, SuffixProperties
  <1>5. k \in 0..(Len(log[g]) - Len(Intact(g))) /\ k + Len(Intact(g)) = Len(log[g])
    BY <1>2, <1>3, <1>4
  <1>. QED
    BY <1>1, <1>5 DEF IsStretch

\* The maps a read makes of others hold stretches if those do.
LEMMA StretchMaps ==
    ASSUME NEW logs \in [Guids -> Seq(Messages)], NEW map \in Maps, Stretches(map, logs)
    PROVE  /\ Stretches(Empty, logs)
           /\ \A new \in Maps : Stretches(new, logs) => Stretches(PutAll(map, new), logs)
           /\ \A g \in Guids, list \in Seq(Messages) :
                 IsStretch(list, logs[g]) => Stretches(Put(map, g, list), logs)
           /\ \A guid \in Guids \cup {All} : Stretches(GenerateResultMap(guid, map), logs)
  <1>1. Stretches(Empty, logs)
    BY MapProperties DEF Stretches
  <1>2. ASSUME NEW new \in Maps, Stretches(new, logs)
        PROVE  Stretches(PutAll(map, new), logs)
    BY <1>2 DEF Stretches, PutAll
  <1>3. ASSUME NEW g \in Guids, NEW list \in Seq(Messages), IsStretch(list, logs[g])
        PROVE  Stretches(Put(map, g, list), logs)
    BY <1>3 DEF Stretches, Put
  <1>4. ASSUME NEW guid \in Guids \cup {All}
        PROVE  Stretches(GenerateResultMap(guid, map), logs)
    <2>1. CASE guid = All
      BY <2>1 DEF GenerateResultMap
    <2>2. CASE guid # All
      <3>1. IsStretch(<<>>, logs[guid])
        BY <2>2, EmptyStretch
      <3>. QED
        BY <2>2, <3>1 DEF GenerateResultMap, Stretches
    <2>. QED
      BY <2>1, <2>2
  <1>. QED
    BY <1>1, <1>2, <1>3, <1>4

\* A step appends to the logs, and nothing else.
LEMMA StretchesStay ==
    ASSUME TypeInv, [Next]_vars, NEW map \in Maps, Stretches(map, log)
    PROVE  Stretches(map, log')
  <1>. SUFFICES ASSUME NEW g \in DOMAIN map PROVE IsStretch(map[g], log'[g])
    BY DEF Stretches
  <1>1. g \in Guids /\ map[g] \in Seq(Messages)
    BY DEF Maps
  <1>2. IsStretch(map[g], log[g]) /\ log[g] \in Seq(Messages)
    BY <1>1, LogType DEF Stretches
  <1>3. log'[g] = log[g] \/ \E m \in Messages : log'[g] = Append(log[g], m)
    BY <1>1, FilesNext, AtHand DEF AppendBlock, LogKept, LogCut, LogGrown
  <1>. QED
    BY <1>1, <1>2, <1>3, StretchGrows

\* A read's lists stay stretches at every step of it, and so does the cache,
\* whichever read fills it.
LEMMA StretchStep == TypeInv /\ KeepsLog /\ StretchInv /\ [Next]_vars => StretchInv'
  <1>. SUFFICES ASSUME TypeInv, KeepsLog, StretchInv, [Next]_vars
                PROVE  /\ Stretches(cache', log')
                       /\ \A r \in Readers : /\ Stretches(reader'[r].loaded, log')
                                             /\ Stretches(reader'[r].result.lists, log')
    BY DEF StretchInv, Stretches, IsStretch
  <1>0. /\ cache \in Maps /\ Empty \in Maps
        /\ \A r \in Readers : reader[r].loaded \in Maps /\ reader[r].result.lists \in Maps
    BY ReaderType, MapProperties DEF TypeInv, Shapes, Results
  <1>. DEFINE L == log'
  <1>1. /\ Stretches(cache, L) /\ Stretches(Empty, L)
        /\ \A r \in Readers : /\ Stretches(reader[r].loaded, L)
                              /\ Stretches(reader[r].result.lists, L)
    <2>1. Stretches(Empty, L)
      BY MapProperties DEF Stretches
    <2>. QED
      BY <1>0, <2>1, StretchesStay DEF StretchInv
  <1>2. L \in [Guids -> Seq(Messages)]
    BY FilesNext DEF FilesStep
  <1>3. Nothing.lists = Empty /\ \A f : Failure(f).lists = Empty
    BY DEF Nothing, Failure
  <1>4. \A g \in Guids : IsStretch(Intact(g), log[g])
    BY IntactIsStretch
  <1>. HIDE DEF L
  <1>. SUFFICES /\ Stretches(cache', L)
                /\ \A r \in Readers : /\ Stretches(reader'[r].loaded, L)
                                      /\ Stretches(reader'[r].result.lists, L)
    BY DEF L
  <1>5. ASSUME NEW q \in Readers, Stretches(cache', L),
               \A p \in Readers \ {q} : reader'[p] = reader[p],
               Stretches(reader'[q].loaded, L), Stretches(reader'[q].result.lists, L)
        PROVE  /\ Stretches(cache', L)
               /\ \A r \in Readers : /\ Stretches(reader'[r].loaded, L)
                                     /\ Stretches(reader'[r].result.lists, L)
    BY <1>1, <1>5
  <1>6. CASE UNCHANGED <<reader, cache>>
    BY <1>1, <1>6
  <1>7. ASSUME NEW q \in Readers, Looks(q)
        PROVE  /\ cache' = cache
               /\ \A p \in Readers \ {q} : reader'[p] = reader[p]
               /\ Stretches(reader'[q].loaded, L) /\ Stretches(reader'[q].result.lists, L)
    <2>0. cache' = cache
      BY <1>7 DEF Looks, Read, IsCacheExist, NeedRefresh, LoadList, LoadMsgsById, NoChangeOfCache
    <2>1. CASE Read(q)
      BY <1>1, <1>3, <2>0, <2>1, ReadNext
    <2>2. ASSUME NEW pc, NEW names, Turned(q, pc, names, reader[q].loaded, reader[q].result)
          PROVE  /\ \A p \in Readers \ {q} : reader'[p] = reader[p]
                 /\ Stretches(reader'[q].loaded, L) /\ Stretches(reader'[q].result.lists, L)
      BY <1>1, <2>2 DEF Turned
    <2>3. CASE IsCacheExist(q) \/ NeedRefresh(q) \/ LoadList(q)
      BY <2>0, <2>2, <2>3, IsCacheExistNext, NeedRefreshNext, LoadListNext DEF ToLoadTurned
    <2>4. CASE LoadMsgsById(q)
      <3>1. ASSUME NEW f \in reader[q].names, Turned(q, "idle", {}, Empty, Failure(f))
            PROVE  /\ \A p \in Readers \ {q} : reader'[p] = reader[p]
                   /\ Stretches(reader'[q].loaded, L) /\ Stretches(reader'[q].result.lists, L)
        BY <1>1, <1>3, <3>1 DEF Turned
      <3>2. ASSUME NEW f \in reader[q].names,
                   Turned(q, "load", reader[q].names \ {f},
                          Put(reader[q].loaded, f, Intact(f)), reader[q].result)
            PROVE  /\ \A p \in Readers \ {q} : reader'[p] = reader[p]
                   /\ Stretches(reader'[q].loaded, L) /\ Stretches(reader'[q].result.lists, L)
        <4>1. f \in Guids /\ Intact(f) \in Seq(Messages) /\ L[f] = log[f]
          BY <2>4, ReaderType, IntactProperties DEF LoadMsgsById, Reading, L
        <4>2. Stretches(Put(reader[q].loaded, f, Intact(f)), L)
          BY <1>0, <1>1, <1>2, <1>4, <4>1, StretchMaps
        <4>. QED
          BY <1>1, <3>2, <4>2 DEF Turned
      <3>. QED
        BY <2>0, <2>2, <2>4, <3>1, <3>2, LoadMsgsByIdNext
    <2>. QED
      BY <1>7, <2>1, <2>3, <2>4 DEF Looks
  <1>8. ASSUME NEW q \in Readers, CacheRead(q) \/ CacheClear(q) \/ CacheFill(q) \/ CacheStamp(q)
        PROVE  /\ Stretches(cache', L)
               /\ \A p \in Readers \ {q} : reader'[p] = reader[p]
               /\ Stretches(reader'[q].loaded, L) /\ Stretches(reader'[q].result.lists, L)
    <2>1. cache' \in {cache, Empty, PutAll(cache, reader[q].loaded)}
      BY <1>8, CacheNext
    <2>2. Stretches(PutAll(cache, reader[q].loaded), L)
      BY <1>0, <1>1, <1>2, StretchMaps
    <2>3. \A kind, time : Stretches(Answering(q, kind, time).lists, L)
      <3>1. Stretches(GenerateResultMap(reader[q].guid, cache), L)
        BY <1>0, <1>1, <1>2, ReaderType, StretchMaps
      <3>. QED
        BY <3>1 DEF Answering
    <2>4. /\ \A p \in Readers \ {q} : reader'[p] = reader[p]
          /\ reader'[q].loaded \in {reader[q].loaded, Empty}
          /\ \/ reader'[q].result = reader[q].result
             \/ \E kind, time : reader'[q].result = Answering(q, kind, time)
      BY <1>8, CacheNext DEF Turned
    <2>. QED
      BY <1>1, <2>1, <2>2, <2>3, <2>4
  <1>9. CASE Restart
    BY <1>1, <1>3, <1>9, RestartNext
  <1>10. \/ UNCHANGED <<reader, cache>> \/ Restart
         \/ \E q \in Readers :
               Looks(q) \/ CacheRead(q) \/ CacheClear(q) \/ CacheFill(q) \/ CacheStamp(q)
    BY DEF Next, vars, PrepareDataFile, OpenNew, WriteTitle, AppendBlock, Writing, Tick, Looks
  <1>. QED
    BY <1>1, <1>5, <1>6, <1>7, <1>8, <1>9, <1>10

\* Whatever readers did to the cache meanwhile, a read gives of each guid a
\* stretch of what was appended, in its order and without a gap.
THEOREM ReadsAreStretches == Spec => []ReadsAStretch
  <1>1. Init => StretchInv
    <2>. SUFFICES ASSUME Init PROVE StretchInv
      OBVIOUS
    <2>1. cache = Empty /\ \A r \in Readers : reader[r].loaded = Empty /\ reader[r].result = Nothing
      BY DEF Init
    <2>. QED
      BY <2>1, MapProperties DEF StretchInv, Stretches, Nothing
  <1>2. TypeInv /\ StretchInv => ReadsAStretch
    <2>. SUFFICES ASSUME TypeInv, StretchInv, NEW r \in Readers, NEW g \in Guids
                  PROVE  IsStretch(Given(r, g), log[g])
      BY DEF ReadsAStretch, IsStretch
    <2>1. IsStretch(<<>>, log[g])
      BY LogType, EmptyStretch
    <2>. QED
      BY <2>1 DEF StretchInv, Stretches, Given
  <1>3. Spec => []KeepsLog
    <2>1. FilesAreLogs => KeepsLog
      BY DEF FilesAreLogs
    <2>. QED
      BY <2>1, FilesKeepTheirLogs, PTL
  <1>. QED
    BY TypeCorrect, <1>1, <1>2, <1>3, StretchStep, PTL DEF Spec

-----------------------------------------------------------------------------
(* What a read that ends has missed.                                       *)

\* Only the holder of the lock changes the cache, and between clear and the
\* stamp the cache is what it makes of it.
Controlled(r) ==
    /\ lock = r <=> reader[r].pc \in {"fill", "stamp"}
    /\ reader[r].pc = "fill" => cache = Empty
    /\ reader[r].pc = "stamp" => cache = reader[r].loaded
    /\ reader[r].pc # "idle" => reader[r].result = Nothing
    /\ reader[r].pc = "list" => reader[r].guid = All
    /\ reader[r].pc = "load" => reader[r].names \subseteq Asked(r)

ControlInv == \A r \in Readers : Controlled(r)

\* The messages that writer w has appended.
Past(w) == IF writer[w].pc = "idle" THEN writer[w].count ELSE writer[w].count - 1
PastMessages == {m \in Messages : \E w \in Writers : \E n \in 1..Past(w) : m = Message(w, n)}

\* A message is written once: one that a file has lost does not come back.
OnceInv ==
    /\ \A g \in Guids : ToSet(Intact(g)) \subseteq PastMessages
    /\ \A r \in Readers, g \in Guids : ToSet(reader[r].began[g].items) \subseteq PastMessages

\* The list has what there was of the items, unless it is gone.
Kept(items, list, intact) ==
    \A m \in ToSet(items) : m \in ToSet(list) \/ m \notin ToSet(intact)

Floor(time) == (time \div Granularity) * Granularity

\* Where a message to be read of g is on its way, as far as the read has come.
Reached(r, g) ==
    /\ g \in Asked(r) /\ file[g].there /\ reader[r].began[g].time <= file[g].time
    /\ reader[r].pc = "test" => g \in reader[r].names
    /\ reader[r].pc = "fresh" =>
          g \in reader[r].names \/ Floor(reader[r].began[g].time) <= stamp
    /\ reader[r].pc = "hit" => Floor(reader[r].began[g].time) <= stamp
    /\ reader[r].pc = "load" =>
          \/ g \in reader[r].names
          \/ /\ g \in DOMAIN reader[r].loaded
             /\ Kept(reader[r].began[g].items, reader[r].loaded[g], Intact(g))
    /\ reader[r].pc \in {"clear", "fill", "stamp"} =>
          /\ g \in DOMAIN reader[r].loaded
          /\ Kept(reader[r].began[g].items, reader[r].loaded[g], Intact(g))

\* What an answer has of g.
AnsweredOf(r, g) ==
    \/ Kept(reader[r].began[g].items, Given(r, g), Intact(g))
    \/ reader[r].result.kind = "cached" /\ Floor(reader[r].began[g].time) <= reader[r].result.time

MissInv ==
    \A r \in Readers, g \in Guids : reader[r].began[g].items # <<>> =>
        /\ reader[r].pc # "idle" => Reached(r, g)
        /\ Answered(r) => AnsweredOf(r, g)

\* A guid with a message and no writer about to begin its file stays so.
Settled(g) == file[g].there /\ Intact(g) # <<>> /\ ~Creating(g)

FailInv ==
    \A r \in Readers :
        /\ reader[r].pc # "idle" =>
              \A g \in Asked(r) : ~reader[r].began[g].unsettled => Settled(g)
        /\ reader[r].result.kind = "exception" =>
              reader[r].began[reader[r].result.file].unsettled

\* Who takes a step, and whom it leaves where they are.
LEMMA StepKinds ==
    ASSUME TypeInv, [Next]_vars
    PROVE  \/ UNCHANGED <<reader, cache, stamp, lock>>
           \/ Restart
           \/ \E q \in Readers :
                 /\ Looks(q) \/ CacheRead(q) \/ CacheClear(q) \/ CacheFill(q) \/ CacheStamp(q)
                 /\ UNCHANGED <<file, writer, log, created, now>>
                 /\ \A p \in Readers \ {q} : reader'[p] = reader[p]
                 /\ Looks(q) => UNCHANGED <<cache, stamp, lock>>
  <1>1. ASSUME NEW q \in Readers, Looks(q)
        PROVE  /\ UNCHANGED <<file, writer, log, created, now, cache, stamp, lock>>
               /\ \A p \in Readers \ {q} : reader'[p] = reader[p]
    <2>1. \A p \in Readers \ {q} : reader'[p] = reader[p]
      BY <1>1, ReadNext, IsCacheExistNext, NeedRefreshNext, LoadListNext, LoadMsgsByIdNext
         DEF Looks, ToLoadTurned, Turned
    <2>. QED
      BY <1>1, <2>1 DEF Looks, Read, IsCacheExist, NeedRefresh, LoadList, LoadMsgsById, Reading,
                        NoChangeOfCache
  <1>2. ASSUME NEW q \in Readers, CacheRead(q) \/ CacheClear(q) \/ CacheFill(q) \/ CacheStamp(q)
        PROVE  /\ UNCHANGED <<file, writer, log, created, now>>
               /\ \A p \in Readers \ {q} : reader'[p] = reader[p]
               /\ Looks(q) => UNCHANGED <<cache, stamp, lock>>
    <2>1. \A p \in Readers \ {q} : reader'[p] = reader[p]
      BY <1>2, CacheNext DEF Turned
    <2>2. Looks(q) => UNCHANGED <<cache, stamp, lock>>
      BY <1>1
    <2>. QED
      BY <1>2, <2>1, <2>2 DEF CacheRead, CacheClear, CacheFill, CacheStamp, Reading
  <1>3. \/ UNCHANGED <<reader, cache, stamp, lock>> \/ Restart
        \/ \E q \in Readers :
              Looks(q) \/ CacheRead(q) \/ CacheClear(q) \/ CacheFill(q) \/ CacheStamp(q)
    BY DEF Next, vars, PrepareDataFile, OpenNew, WriteTitle, AppendBlock, Writing, Tick, Looks
  <1>. QED
    BY <1>1, <1>2, <1>3

\* What is asked of a read is what it was asked to begin with.
LEMMA AskedNext ==
    \A r : Asked(r)' = IF reader'[r].guid = All THEN Guids ELSE {reader'[r].guid}
  BY DEF Asked

\* The invariant of the lock and the cache is inductive.
LEMMA ControlStep == TypeInv /\ ControlInv /\ [Next]_vars => ControlInv'
  <1>. SUFFICES ASSUME TypeInv, ControlInv, [Next]_vars, NEW r \in Readers
                PROVE  Controlled(r)'
    BY DEF ControlInv
  <1>0. Controlled(r)
    BY DEF ControlInv
  <1>1. CASE UNCHANGED <<reader, cache, stamp, lock>>
    BY <1>0, <1>1 DEF Controlled, Asked
  <1>2. CASE Restart
    <2>1. /\ reader[r].pc = "idle" /\ reader'[r].pc = "idle" /\ lock' = lock
      BY <1>2, RestartNext
    <2>. QED
      BY <1>0, <2>1 DEF Controlled
  <1>3. ASSUME NEW q \in Readers,
               Looks(q) \/ CacheRead(q) \/ CacheClear(q) \/ CacheFill(q) \/ CacheStamp(q),
               \A p \in Readers \ {q} : reader'[p] = reader[p],
               Looks(q) => UNCHANGED <<cache, stamp, lock>>,
               r # q
        PROVE  Controlled(r)'
    <2>0. reader'[r] = reader[r] /\ Asked(r)' = Asked(r)
      BY <1>3, AskedNext DEF Asked
    <2>1. CASE Looks(q) \/ CacheRead(q)
      <3>1. UNCHANGED <<cache, lock>>
        BY <1>3, <2>1, CacheNext
      <3>. QED
        BY <1>0, <2>0, <3>1 DEF Controlled
    <2>2. CASE CacheClear(q) \/ CacheFill(q) \/ CacheStamp(q)
      <3>1. lock \in {Nobody, q} /\ lock' \in {Nobody, q}
        <4>1. Controlled(q)
          BY DEF ControlInv
        <4>. QED
          BY <2>2, <4>1, CacheNext DEF Controlled
      <3>2. lock # r /\ lock' # r
        BY <1>3, <3>1, NullAssumption
      <3>3. reader[r].pc \notin {"fill", "stamp"}
        BY <1>0, <3>2 DEF Controlled
      <3>. QED
        BY <1>0, <2>0, <3>2, <3>3 DEF Controlled
    <2>. QED
      BY <1>3, <2>1, <2>2
  <1>4. CASE Read(r)
    <2>1. /\ reader[r].pc = "idle" /\ reader'[r].pc = "test" /\ reader'[r].result = Nothing
          /\ lock' = lock
      BY <1>4, ReadNext DEF Read, NoChangeOfCache
    <2>. QED
      BY <1>0, <2>1 DEF Controlled
  <1>5. ASSUME Looks(r), reader[r].pc \in {"test", "fresh"}, ToLoadTurned(r)
        PROVE  Controlled(r)'
    <2>1. /\ reader'[r].guid = reader[r].guid /\ reader'[r].result = reader[r].result
          /\ reader'[r].pc = IF reader[r].guid = All THEN "list" ELSE "load"
          /\ reader'[r].names = IF reader[r].guid = All THEN {} ELSE {reader[r].guid}
      BY <1>5 DEF ToLoadTurned, Turned
    <2>2. lock' = lock
      BY <1>5 DEF Looks, Read, IsCacheExist, NeedRefresh, LoadList, LoadMsgsById, NoChangeOfCache
    <2>. QED
      BY <1>0, <1>5, <2>1, <2>2, AskedNext DEF Controlled
  <1>6. ASSUME NEW pc \in {"fresh", "hit", "clear"}, NEW names, Looks(r),
               reader[r].pc \in {"test", "fresh", "load"},
               Turned(r, pc, names, reader[r].loaded, reader[r].result)
        PROVE  Controlled(r)'
    <2>1. reader'[r].pc = pc /\ reader'[r].result = reader[r].result
      BY <1>6 DEF Turned
    <2>2. lock' = lock
      BY <1>6 DEF Looks, Read, IsCacheExist, NeedRefresh, LoadList, LoadMsgsById, NoChangeOfCache
    <2>. QED
      BY <1>0, <1>6, <2>1, <2>2 DEF Controlled
  <1>7. CASE IsCacheExist(r) \/ NeedRefresh(r)
    BY <1>5, <1>6, <1>7, IsCacheExistNext, NeedRefreshNext DEF Looks
  <1>8. CASE LoadList(r)
    <2>1. /\ reader[r].pc = "list" /\ reader'[r].pc = "load" /\ reader'[r].names = Names
          /\ reader'[r].guid = reader[r].guid /\ reader'[r].result = reader[r].result
          /\ lock' = lock
      BY <1>8, LoadListNext DEF Turned, LoadList, NoChangeOfCache
    <2>2. Names \subseteq Guids
      BY DEF Names
    <2>. QED
      BY <1>0, <2>1, <2>2, AskedNext DEF Controlled
  <1>9. CASE LoadMsgsById(r)
    <2>0. reader[r].pc = "load" /\ lock' = lock
      BY <1>9 DEF LoadMsgsById, NoChangeOfCache
    <2>1. ASSUME NEW f, Turned(r, "idle", {}, Empty, Failure(f)) PROVE Controlled(r)'
      BY <1>0, <2>0, <2>1 DEF Turned, Controlled
    <2>2. ASSUME NEW f \in reader[r].names,
                 Turned(r, "load", reader[r].names \ {f},
                        Put(reader[r].loaded, f, Intact(f)), reader[r].result)
          PROVE  Controlled(r)'
      <3>1. /\ reader'[r].pc = "load" /\ reader'[r].guid = reader[r].guid
            /\ reader'[r].names = reader[r].names \ {f} /\ reader'[r].result = reader[r].result
        BY <2>2 DEF Turned
      <3>. QED
        BY <1>0, <2>0, <3>1, AskedNext DEF Controlled, Asked
    <2>. QED
      BY <1>6, <1>9, <2>1, <2>2, LoadMsgsByIdNext DEF Looks
  <1>10. CASE CacheRead(r)
    <2>1. reader[r].pc = "hit" /\ reader'[r].pc = "idle" /\ lock' = lock
      BY <1>10, CacheNext DEF Turned
    <2>. QED
      BY <1>0, <2>1 DEF Controlled
  <1>11. CASE CacheClear(r)
    <2>1. /\ reader[r].pc = "clear" /\ reader'[r].pc = "fill" /\ lock' = r /\ cache' = Empty
          /\ reader'[r].result = reader[r].result
      BY <1>11, CacheNext DEF Turned
    <2>2. Empty' = Empty
      BY DEF Empty
    <2>. QED
      BY <1>0, <2>1, <2>2 DEF Controlled
  <1>12. CASE CacheFill(r)
    <2>1. /\ reader[r].pc = "fill" /\ reader'[r].pc = "stamp" /\ lock' = lock
          /\ cache' = PutAll(cache, reader[r].loaded)
          /\ reader'[r].loaded = reader[r].loaded /\ reader'[r].result = reader[r].result
      BY <1>12, CacheNext DEF Turned
    <2>2. PutAll(Empty, reader[r].loaded) = reader[r].loaded
      BY ReaderType, MapProperties
    <2>. QED
      BY <1>0, <2>1, <2>2 DEF Controlled
  <1>13. CASE CacheStamp(r)
    <2>1. reader[r].pc = "stamp" /\ reader'[r].pc = "idle" /\ lock' = Nobody
      BY <1>13, CacheNext DEF Turned
    <2>. QED
      BY <1>0, <2>1, NullAssumption DEF Controlled
  <1>14. ASSUME Looks(r) \/ CacheRead(r) \/ CacheClear(r) \/ CacheFill(r) \/ CacheStamp(r)
         PROVE  Controlled(r)'
    BY <1>4, <1>7, <1>8, <1>9, <1>10, <1>11, <1>12, <1>13, <1>14 DEF Looks
  <1>. QED
    BY <1>1, <1>2, <1>3, <1>14, StepKinds

\* The items of a sequence, of one with an item more, and of one less its first.
LEMMA ItemsOfSeq ==
    ASSUME NEW S, NEW s \in Seq(S)
    PROVE  /\ \A x : x \in ToSet(s) <=> \E i \in 1..Len(s) : x = s[i]
           /\ ToSet(s) \subseteq S
           /\ \A e \in S : ToSet(Append(s, e)) = ToSet(s) \cup {e}
           /\ s # <<>> => ToSet(SubSeq(s, 2, Len(s))) \subseteq ToSet(s)
           /\ ToSet(<<>>) = {}
  <1>1. ASSUME NEW T, NEW t \in Seq(T)
        PROVE  /\ \A x : x \in ToSet(t) <=> \E i \in 1..Len(t) : x = t[i]
               /\ ToSet(t) \subseteq T
    BY LenProperties, ElementOfSeq DEF ToSet
  <1>2. ASSUME NEW e \in S PROVE ToSet(Append(s, e)) = ToSet(s) \cup {e}
    <2>. DEFINE a == Append(s, e)
    <2>1. /\ a \in Seq(S) /\ Len(a) = Len(s) + 1 /\ Len(s) \in Nat
          /\ \A i \in 1..Len(s) : a[i] = s[i]
          /\ a[Len(s) + 1] = e
      BY AppendProperties
    <2>. HIDE DEF a
    <2>2. ASSUME NEW x PROVE x \in ToSet(a) <=> x \in ToSet(s) \/ x = e
      <3>1. x \in ToSet(a) <=> \E i \in 1..(Len(s) + 1) : x = a[i]
        BY <1>1, <2>1
      <3>2. x \in ToSet(s) <=> \E i \in 1..Len(s) : x = a[i]
        BY <1>1, <2>1
      <3>3. \A i \in 1..(Len(s) + 1) : i \in 1..Len(s) \/ i = Len(s) + 1
        BY <2>1
      <3>4. Len(s) + 1 \in 1..(Len(s) + 1) /\ 1..Len(s) \subseteq 1..(Len(s) + 1)
        BY <2>1
      <3>. QED
        BY <2>1, <3>1, <3>2, <3>3, <3>4
    <2>. QED
      BY <2>2 DEF a
  <1>3. ASSUME s # <<>> PROVE ToSet(SubSeq(s, 2, Len(s))) \subseteq ToSet(s)
    <2>. DEFINE t == SubSeq(s, 2, Len(s))
    <2>1. /\ t \in Seq(S) /\ Len(t) = Len(s) - 1 /\ Len(s) \in Nat /\ Len(t) \in Nat
          /\ \A i \in 1..Len(t) : t[i] = s[i + 1]
      BY <1>3, HeadTailProperties, TailIsSubSeq, LenProperties
    <2>. HIDE DEF t
    <2>2. ASSUME NEW i \in 1..Len(t) PROVE t[i] \in ToSet(s)
      <3>1. i + 1 \in 1..Len(s)
        BY <2>1
      <3>. QED
        BY <1>1, <2>1, <3>1
    <2>3. ToSet(t) \subseteq ToSet(s)
      BY <1>1, <2>1, <2>2
    <2>. QED
      BY <2>3 DEF t
  <1>4. ToSet(<<>>) = {}
    BY EmptySeq, LenProperties DEF ToSet
  <1>. QED
    BY <1>1, <1>2, <1>3, <1>4

\* What is in a file after a step.
LEMMA ItemsNext == \A g : ToSet(Intact(g))' = ToSet(Intact(g)')
  BY DEF ToSet

\* A message past stays past; the one that is appended was not.
LEMMA PastNext ==
    ASSUME TypeInv, [Next]_vars
    PROVE  /\ PastMessages \subseteq PastMessages'
           /\ \A w \in Writers : AppendBlock(w) =>
                 /\ Message(w, writer[w].count) \in PastMessages'
                 /\ Message(w, writer[w].count) \notin PastMessages
  <1>0. ASSUME NEW w \in Writers
        PROVE  /\ writer[w].count \in Nat /\ Past(w) \in Int
               /\ writer[w].pc # "idle" => Past(w) = writer[w].count - 1
               /\ writer[w].pc = "idle" => Past(w) = writer[w].count
               /\ writer'[w].pc # "idle" => Past(w)' = writer'[w].count - 1
               /\ writer'[w].pc = "idle" => Past(w)' = writer'[w].count
    BY DEF TypeInv, Shapes, WriterStates, Past
  <1>1. ASSUME NEW w \in Writers
        PROVE  /\ Past(w)' \in Past(w)..(Past(w) + 1)
               /\ AppendBlock(w) => Past(w) = writer[w].count - 1 /\ Past(w)' = writer[w].count
    <2>1. CASE PrepareDataFile(w) \/ OpenNew(w) \/ WriteTitle(w) \/ AppendBlock(w)
      <3>1. CASE PrepareDataFile(w)
        <4>1. /\ writer[w].pc = "idle" /\ writer'[w].pc # "idle"
              /\ writer'[w].count = writer[w].count + 1
          BY <3>1, WriterNext
        <4>2. ~AppendBlock(w)
          BY <4>1 DEF AppendBlock
        <4>. QED
          BY <1>0, <4>1, <4>2
      <3>2. CASE OpenNew(w) \/ WriteTitle(w)
        <4>1. /\ writer[w].pc \in {"create", "title"} /\ writer'[w].pc # "idle"
              /\ writer'[w].count = writer[w].count
          BY <3>2, WriterNext
        <4>2. ~AppendBlock(w)
          BY <4>1 DEF AppendBlock
        <4>. QED
          BY <1>0, <4>1, <4>2
      <3>3. CASE AppendBlock(w)
        <4>1. /\ writer[w].pc = "append" /\ writer'[w].pc = "idle"
              /\ writer'[w].count = writer[w].count
          BY <3>3, WriterNext
        <4>. QED
          BY <1>0, <4>1
      <3>. QED
        BY <2>1, <3>1, <3>2, <3>3
    <2>2. CASE ~(PrepareDataFile(w) \/ OpenNew(w) \/ WriteTitle(w) \/ AppendBlock(w))
      <3>1. writer'[w] = writer[w]
        <4>1. ASSUME NEW v \in Writers,
                     PrepareDataFile(v) \/ OpenNew(v) \/ WriteTitle(v) \/ AppendBlock(v)
              PROVE  writer'[w] = writer[w]
          BY <2>2, <4>1, WriterNext
        <4>2. \/ UNCHANGED writer
              \/ \E v \in Writers :
                    PrepareDataFile(v) \/ OpenNew(v) \/ WriteTitle(v) \/ AppendBlock(v)
          BY DEF Next, vars, Read, IsCacheExist, NeedRefresh, LoadList, LoadMsgsById,
                 CacheRead, CacheClear, CacheFill, CacheStamp, Restart, Tick, Reading
        <4>. QED
          BY <4>1, <4>2
      <3>. QED
        BY <1>0, <2>2, <3>1
    <2>. QED
      BY <2>1, <2>2
  <1>2. PastMessages' = {m \in Messages : \E w \in Writers : \E n \in 1..Past(w)' : m = Message(w, n)}
    BY DEF PastMessages, Messages, Message
  <1>3. PastMessages \subseteq PastMessages'
    <2>1. \A w \in Writers : \A n \in 1..Past(w) : n \in 1..Past(w)'
      BY <1>0, <1>1
    <2>. QED
      BY <1>2, <2>1 DEF PastMessages
  <1>4. ASSUME NEW w \in Writers, AppendBlock(w)
        PROVE  /\ Message(w, writer[w].count) \in PastMessages'
               /\ Message(w, writer[w].count) \notin PastMessages
    <2>1. Message(w, writer[w].count) \in Messages /\ writer[w].count \in 1..MaxWrites
      BY <1>4, AtHand DEF AppendBlock
    <2>2. writer[w].count \in 1..Past(w)' /\ writer[w].count \notin 1..Past(w)
      BY <1>1, <1>4, <2>1, BoundAssumption
    <2>3. \A v, n : Message(v, n) = Message(w, writer[w].count) => v = w /\ n = writer[w].count
      BY DEF Message
    <2>. QED
      BY <1>2, <2>1, <2>2, <2>3 DEF PastMessages
  <1>. QED
    BY <1>3, <1>4

\* No step brings back to a file a message that it has lost.
LEMMA NothingReturns ==
    ASSUME TypeInv, [Next]_vars, NEW g \in Guids, NEW m \in ToSet(Intact(g)')
    PROVE  m \in ToSet(Intact(g)) \/ (m \in PastMessages' /\ m \notin PastMessages)
  <1>1. Intact(g) \in Seq(Messages)
    BY IntactProperties
  <1>2. CASE LogKept(g)
    BY <1>2 DEF LogKept
  <1>3. CASE LogCut(g)
    <2>1. ToSet(<<>>) = {}
      BY <1>1, ItemsOfSeq
    <2>2. Intact(g) # <<>> => ToSet(SubSeq(Intact(g), 2, Len(Intact(g)))) \subseteq ToSet(Intact(g))
      BY <1>1, ItemsOfSeq
    <2>. QED
      BY <1>3, <2>1, <2>2 DEF LogCut
  <1>4. ASSUME NEW w \in Writers, AppendBlock(w), LogGrown(g, Message(w, writer[w].count))
        PROVE  m \in ToSet(Intact(g)) \/ (m \in PastMessages' /\ m \notin PastMessages)
    <2>1. Message(w, writer[w].count) \in Messages
      BY <1>4, AtHand DEF AppendBlock
    <2>2. Intact(g)' = Append(Intact(g), Message(w, writer[w].count))
      BY <1>4 DEF LogGrown
    <2>3. ToSet(Append(Intact(g), Message(w, writer[w].count)))
             = ToSet(Intact(g)) \cup {Message(w, writer[w].count)}
      BY <1>1, <2>1, ItemsOfSeq
    <2>. QED
      BY <1>4, <2>2, <2>3, PastNext
  <1>. QED
    BY <1>2, <1>3, <1>4, FilesNext

\* The messages of the files and of what reads have seen of them are past.
LEMMA OnceStep == TypeInv /\ OnceInv /\ [Next]_vars => OnceInv'
  <1>. SUFFICES ASSUME TypeInv, OnceInv, [Next]_vars, NEW g \in Guids
                PROVE  /\ ToSet(Intact(g)') \subseteq PastMessages'
                       /\ \A r \in Readers : ToSet(reader'[r].began[g].items) \subseteq PastMessages'
    BY ItemsNext DEF OnceInv, ToSet
  <1>1. /\ ToSet(Intact(g)) \subseteq PastMessages /\ PastMessages \subseteq PastMessages'
        /\ \A r \in Readers : ToSet(reader[r].began[g].items) \subseteq PastMessages
    BY PastNext DEF OnceInv
  <1>2. ToSet(Intact(g)') \subseteq PastMessages'
    BY <1>1, NothingReturns
  <1>3. ASSUME NEW r \in Readers
        PROVE  \/ reader'[r].began[g].items \in {reader[r].began[g].items, Intact(g), <<>>}
    <2>1. ASSUME Read(r) PROVE reader'[r].began[g].items \in {Intact(g), <<>>}
      BY <2>1, ReadNext, SeenType
    <2>2. ASSUME Looks(r), ~Read(r) PROVE reader'[r].began = reader[r].began
      BY <2>2, IsCacheExistNext, NeedRefreshNext, LoadListNext, LoadMsgsByIdNext
         DEF Looks, ToLoadTurned, Turned
    <2>3. ASSUME CacheRead(r) \/ CacheClear(r) \/ CacheFill(r) \/ CacheStamp(r)
          PROVE  reader'[r].began = reader[r].began
      BY <2>3, CacheNext DEF Turned
    <2>4. Restart => reader'[r].began = reader[r].began
      BY RestartNext
    <2>. QED
      BY <2>1, <2>2, <2>3, <2>4, StepKinds
  <1>4. ToSet(<<>>) = {}
    BY EmptySeq, ItemsOfSeq
  <1>. QED
    BY <1>1, <1>2, <1>3, <1>4

\* A guid that has a message, and that no writer is about to begin, keeps one.
LEMMA SettledStays ==
    ASSUME TypeInv, [Next]_vars, NEW g \in Guids, Settled(g)
    PROVE  Settled(g)'
  <1>0. /\ file[g].there /\ file'[g].there /\ Intact(g) # <<>> /\ Intact(g) \in Seq(Messages)
        /\ \A w \in Writers : ~(writer[w].pc \in {"create", "title"} /\ writer[w].guid = g)
    BY FilesNext, IntactProperties DEF Settled, FilesStep, Creating
  <1>1. \A w \in Writers : ~(writer'[w].pc \in {"create", "title"} /\ writer'[w].guid = g)
    <2>. SUFFICES ASSUME NEW w \in Writers, writer'[w].pc \in {"create", "title"},
                         writer'[w].guid = g
                  PROVE  FALSE
      OBVIOUS
    <2>1. CASE writer'[w] = writer[w]
      BY <1>0, <2>1
    <2>2. CASE PrepareDataFile(w)
      BY <1>0, <2>2, WriterNext
    <2>3. CASE OpenNew(w)
      BY <1>0, <2>3, WriterNext
    <2>4. CASE WriteTitle(w)
      <3>1. ~OpenNew(w)
        BY <2>4 DEF WriteTitle, OpenNew
      <3>. QED
        BY <2>4, <3>1, WriterNext
    <2>5. CASE AppendBlock(w)
      BY <2>5, WriterNext
    <2>6. \A v \in Writers :
             PrepareDataFile(v) \/ OpenNew(v) \/ WriteTitle(v) \/ AppendBlock(v) =>
                v = w \/ writer'[w] = writer[w]
      BY WriterNext
    <2>7. \/ UNCHANGED writer
          \/ \E v \in Writers : PrepareDataFile(v) \/ OpenNew(v) \/ WriteTitle(v) \/ AppendBlock(v)
      BY DEF Next, vars, Read, IsCacheExist, NeedRefresh, LoadList, LoadMsgsById,
             CacheRead, CacheClear, CacheFill, CacheStamp, Restart, Tick, Reading
    <2>. QED
      BY <2>1, <2>2, <2>3, <2>4, <2>5, <2>6, <2>7
  <1>2. Intact(g)' # <<>>
    <2>1. \A w \in Writers : (OpenNew(w) \/ WriteTitle(w)) => writer[w].guid # g
      BY <1>0 DEF OpenNew, WriteTitle
    <2>2. ASSUME NEW w \in Writers, OpenNew(w) PROVE LogKept(g)
      <3>1. PICK f : f = writer[w].guid
        OBVIOUS
      <3>. QED
        BY <2>1, <2>2, <3>1, OpenNewStep
    <2>3. ASSUME NEW w \in Writers, WriteTitle(w) PROVE LogKept(g)
      <3>1. PICK f : f = writer[w].guid
        OBVIOUS
      <3>. QED
        BY <2>1, <2>3, <3>1, WriteTitleStep
    <2>4. ASSUME NEW w \in Writers, AppendBlock(w)
          PROVE  LogKept(g) \/ \E m \in Messages : Intact(g)' = Append(Intact(g), m)
      <3>1. Message(w, writer[w].count) \in Messages
        BY <2>4, AtHand DEF AppendBlock
      <3>2. PICK f, m : f = writer[w].guid /\ m = Message(w, writer[w].count)
        OBVIOUS
      <3>3. LogGrown(f, m) /\ \A h \in Guids \ {f} : LogKept(h)
        BY <2>4, <3>1, <3>2, AppendBlockStep
      <3>4. CASE g = f
        BY <3>1, <3>2, <3>3, <3>4 DEF LogGrown
      <3>5. CASE g # f
        BY <3>3, <3>5
      <3>. QED
        BY <3>4, <3>5
    <2>5. UNCHANGED <<file, log, created>> => LogKept(g)
      BY UnwrittenStep
    <2>6. \/ UNCHANGED <<file, log, created>>
          \/ \E w \in Writers : OpenNew(w) \/ WriteTitle(w) \/ AppendBlock(w)
      BY DEF Next, vars, PrepareDataFile, Read, IsCacheExist, NeedRefresh, LoadList, LoadMsgsById,
             CacheRead, CacheClear, CacheFill, CacheStamp, Restart, Tick, Reading
    <2>7. LogKept(g) \/ \E m \in Messages : Intact(g)' = Append(Intact(g), m)
      BY <2>2, <2>3, <2>4, <2>5, <2>6
    <2>8. \A m \in Messages : Append(Intact(g), m) # <<>>
      BY <1>0, AppendProperties, EmptySeq, LenProperties
    <2>. QED
      BY <1>0, <2>7, <2>8 DEF LogKept
  <1>. QED
    BY <1>0, <1>1, <1>2 DEF Settled, Creating

\* What a read that does not begin keeps of itself.
LEMMA SameRead ==
    ASSUME TypeInv, [Next]_vars, NEW r \in Readers, ~Read(r)
    PROVE  /\ reader'[r].guid = reader[r].guid /\ reader'[r].began = reader[r].began
           /\ Asked(r)' = Asked(r)
           /\ reader[r].pc = "idle" => reader'[r].pc = "idle"
           /\ reader[r].pc = "idle" => reader'[r].result \in {reader[r].result, Nothing}
  <1>1. ASSUME Looks(r)
        PROVE  /\ reader'[r].guid = reader[r].guid /\ reader'[r].began = reader[r].began
               /\ reader[r].pc # "idle"
    BY <1>1, IsCacheExistNext, NeedRefreshNext, LoadListNext, LoadMsgsByIdNext
       DEF Looks, ToLoadTurned, Turned
  <1>2. ASSUME CacheRead(r) \/ CacheClear(r) \/ CacheFill(r) \/ CacheStamp(r)
        PROVE  /\ reader'[r].guid = reader[r].guid /\ reader'[r].began = reader[r].began
               /\ reader[r].pc # "idle"
    BY <1>2, CacheNext DEF Turned
  <1>3. ASSUME Restart
        PROVE  /\ reader'[r].guid = reader[r].guid /\ reader'[r].began = reader[r].began
               /\ reader'[r].pc = "idle" /\ reader'[r].result = Nothing
    BY <1>3, RestartNext
  <1>. QED
    BY <1>1, <1>2, <1>3, StepKinds, AskedNext DEF Asked

\* What a read that begins has seen.
LEMMA ReadBegins ==
    ASSUME TypeInv, NEW r \in Readers, Read(r)
    PROVE  /\ reader[r].pc = "idle" /\ reader'[r].pc = "test" /\ reader'[r].names = Names
           /\ reader'[r].result = Nothing
           /\ \A g \in Guids :
                 \/ g \notin Asked(r)' /\ reader'[r].began[g] = Unseen
                 \/ g \in Asked(r)' /\ reader'[r].began[g] = Seen(g)
           /\ Asked(r)' \subseteq Guids
           /\ UNCHANGED <<file, writer, stamp>>
  <1>1. PICK guid \in Guids \cup {All} :
           /\ reader[r].pc = "idle" /\ reader'[r].pc = "test" /\ reader'[r].names = Names
           /\ reader'[r].guid = guid /\ reader'[r].result = Nothing
           /\ \A g \in Guids :
                 reader'[r].began[g] = IF guid \in {All, g} THEN Seen(g) ELSE Unseen
    BY ReadNext
  <1>2. Asked(r)' = IF guid = All THEN Guids ELSE {guid}
    BY <1>1, AskedNext
  <1>3. \A g \in Guids : g \in Asked(r)' <=> guid \in {All, g}
    BY <1>2
  <1>4. UNCHANGED <<file, writer, stamp>>
    BY DEF Read, Reading, NoChangeOfCache
  <1>. QED
    BY <1>1, <1>2, <1>3, <1>4

\* Only where it saw nothing, or a writer at work, can a read meet a file without
\* a message.
LEMMA FailStep ==
    TypeInv /\ ControlInv /\ FailInv /\ [Next]_vars => FailInv'
  <1>. SUFFICES ASSUME TypeInv, ControlInv, FailInv, [Next]_vars, NEW r \in Readers
                PROVE  /\ reader'[r].pc # "idle" =>
                             \A g \in Asked(r)' : ~reader'[r].began[g].unsettled => Settled(g)'
                       /\ reader'[r].result.kind = "exception" =>
                             reader'[r].began[reader'[r].result.file].unsettled
    BY DEF FailInv
  <1>0. /\ Controlled(r) /\ Asked(r) \subseteq Guids
        /\ reader[r].pc # "idle" =>
              \A g \in Asked(r) : ~reader[r].began[g].unsettled => Settled(g)
        /\ reader[r].result.kind = "exception" =>
              reader[r].began[reader[r].result.file].unsettled
        /\ Nothing.kind = "none"
    BY ReaderType DEF ControlInv, FailInv, Nothing, Asked
  <1>1. CASE Read(r)
    <2>1. ASSUME NEW g \in Asked(r)', ~reader'[r].began[g].unsettled
          PROVE  Settled(g)'
      <3>1. g \in Guids /\ ~Seen(g).unsettled
        BY <1>1, <2>1, ReadBegins
      <3>2. Intact(g) # <<>> /\ ~Creating(g)
        BY <3>1, SeenType
      <3>3. Settled(g)
        BY <3>1, <3>2, IntactProperties DEF Settled
      <3>. QED
        BY <3>1, <3>3, SettledStays
    <2>. QED
      BY <1>0, <1>1, <2>1, ReadBegins
  <1>2. CASE ~Read(r)
    <2>1. reader'[r].pc # "idle" =>
             \A g \in Asked(r)' : ~reader'[r].began[g].unsettled => Settled(g)'
      <3>. SUFFICES ASSUME reader'[r].pc # "idle", NEW g \in Guids, g \in Asked(r)',
                           ~reader'[r].began[g].unsettled
                    PROVE  Settled(g)'
        BY <1>0, <1>2, SameRead
      <3>1. reader[r].pc # "idle" /\ g \in Asked(r) /\ ~reader[r].began[g].unsettled
        BY <1>2, SameRead
      <3>. QED
        BY <1>0, <3>1, SettledStays
    <2>2. reader'[r].result.kind = "exception" =>
             reader'[r].began[reader'[r].result.file].unsettled
      <3>1. \/ reader'[r].result \in {reader[r].result, Nothing}
            \/ reader'[r].result.kind \in {"cached", "loaded"}
            \/ \E f \in Guids :
                  /\ reader[r].pc = "load" /\ f \in reader[r].names /\ Intact(f) = <<>>
                  /\ reader'[r].result = Failure(f)
        <4>1. ASSUME Looks(r), ~LoadMsgsById(r)
              PROVE  reader'[r].result = reader[r].result
          BY <1>2, <4>1, IsCacheExistNext, NeedRefreshNext, LoadListNext
             DEF Looks, ToLoadTurned, Turned
        <4>2. ASSUME LoadMsgsById(r)
              PROVE  \/ reader'[r].result = reader[r].result
                     \/ \E f \in Guids :
                           /\ reader[r].pc = "load" /\ f \in reader[r].names
                           /\ Intact(f) = <<>> /\ reader'[r].result = Failure(f)
          BY <4>2, LoadMsgsByIdNext, ReaderType DEF Turned
        <4>3. ASSUME CacheRead(r) \/ CacheClear(r) \/ CacheFill(r) \/ CacheStamp(r)
              PROVE  \/ reader'[r].result = reader[r].result
                     \/ reader'[r].result.kind \in {"cached", "loaded"}
          <5>1. \A kind, time : Answering(r, kind, time).kind = kind
            BY DEF Answering
          <5>. QED
            BY <4>3, <5>1, CacheNext DEF Turned
        <4>4. Restart => reader'[r].result = Nothing
          BY RestartNext
        <4>. QED
          BY <4>1, <4>2, <4>3, <4>4, StepKinds
      <3>2. ASSUME NEW f \in Guids, reader[r].pc = "load", f \in reader[r].names,
                   Intact(f) = <<>>, reader'[r].result = Failure(f)
            PROVE  reader'[r].began[f].unsettled /\ reader'[r].result.file = f
        <4>1. f \in Asked(r) /\ ~Settled(f)
          BY <1>0, <3>2 DEF Controlled, Settled
        <4>2. reader[r].began[f].unsettled
          BY <1>0, <3>2, <4>1
        <4>. QED
          BY <1>2, <3>2, <4>2, SameRead DEF Failure
      <3>. QED
        BY <1>0, <1>2, <3>1, <3>2, SameRead
    <2>. QED
      BY <2>1, <2>2
  <1>. QED
    BY <1>1, <1>2

\* The invariants of readers at the start.
LEMMA ReadersInit == Init => ControlInv /\ OnceInv /\ FailInv
  <1>. SUFFICES ASSUME Init PROVE ControlInv /\ OnceInv /\ FailInv
    OBVIOUS
  <1>1. /\ lock = Nobody
        /\ \A r \in Readers : /\ reader[r].pc = "idle" /\ reader[r].result = Nothing
                              /\ \A g \in Guids : reader[r].began[g] = Unseen
        /\ \A g \in Guids : file[g].items = <<>>
    BY DEF Init
  <1>2. ControlInv
    BY <1>1, NullAssumption DEF ControlInv, Controlled
  <1>3. \A g \in Guids : Intact(g) = <<>>
    BY <1>1, EmptyFile DEF Intact
  <1>4. Unseen.items = <<>> /\ ToSet(<<>>) = {}
    BY EmptySeq, ItemsOfSeq DEF Unseen
  <1>5. OnceInv
    BY <1>1, <1>3, <1>4 DEF OnceInv
  <1>6. FailInv
    BY <1>1 DEF FailInv, Nothing
  <1>. QED
    BY <1>2, <1>5, <1>6

\* A read is thrown out of only where, when it began, the file had no message yet
\* or a writer was still to begin it.
THEOREM ReadsFailOnlyAtCreation == Spec => []FailsOnlyAtCreation
  <1>1. FailInv => FailsOnlyAtCreation
    BY DEF FailInv, FailsOnlyAtCreation
  <1>2. Spec => []ControlInv
    BY TypeCorrect, ReadersInit, ControlStep, PTL DEF Spec
  <1>. QED
    BY TypeCorrect, <1>1, <1>2, ReadersInit, FailStep, PTL DEF Spec

\* The clock of the file system is coarse, and keeps the order of times.
LEMMA FloorMonotone ==
    ASSUME NEW a \in Nat, NEW b \in Nat, a <= b
    PROVE  Floor(a) <= Floor(b)
  <1>0. Granularity \in Nat /\ Granularity >= 1
    BY GranularityAssumption
  <1>. DEFINE p == a \div Granularity
              q == b \div Granularity
  <1>1. /\ p \in Int /\ q \in Int
        /\ p * Granularity <= a /\ a < p * Granularity + Granularity
        /\ q * Granularity <= b /\ b < q * Granularity + Granularity
    BY <1>0
  <1>. HIDE DEF p, q
  <1>2. p * Granularity < (q + 1) * Granularity
    BY <1>0, <1>1
  <1>3. p < q + 1
    BY <1>0, <1>1, <1>2
  <1>4. p <= q
    BY <1>1, <1>3
  <1>5. p * Granularity <= q * Granularity
    BY <1>0, <1>1, <1>4
  <1>. QED
    BY <1>5 DEF Floor, p, q

\* A list that has what a read is to find has it still after a step: what the
\* file gets meanwhile is new, and what it loses is gone for good.
LEMMA KeptStays ==
    ASSUME TypeInv, OnceInv, [Next]_vars, NEW r \in Readers, NEW g \in Guids, NEW list,
           Kept(reader[r].began[g].items, list, Intact(g))
    PROVE  Kept(reader[r].began[g].items, list, Intact(g)')
  <1>. SUFFICES ASSUME NEW m \in ToSet(reader[r].began[g].items), m \in ToSet(Intact(g)')
                PROVE  m \in ToSet(list)
    BY DEF Kept
  <1>1. m \in PastMessages
    BY DEF OnceInv
  <1>2. m \in ToSet(Intact(g))
    BY <1>1, NothingReturns
  <1>. QED
    BY <1>2 DEF Kept

\* The invariant of what is missed, after a step.
LEMMA MissNext ==
    \A r \in Readers, g \in Guids :
       /\ Reached(r, g)' <=>
             /\ g \in Asked(r)' /\ file'[g].there /\ reader'[r].began[g].time <= file'[g].time
             /\ reader'[r].pc = "test" => g \in reader'[r].names
             /\ reader'[r].pc = "fresh" =>
                   g \in reader'[r].names \/ Floor(reader'[r].began[g].time) <= stamp'
             /\ reader'[r].pc = "hit" => Floor(reader'[r].began[g].time) <= stamp'
             /\ reader'[r].pc = "load" =>
                   \/ g \in reader'[r].names
                   \/ /\ g \in DOMAIN reader'[r].loaded
                      /\ Kept(reader'[r].began[g].items, reader'[r].loaded[g], Intact(g)')
             /\ reader'[r].pc \in {"clear", "fill", "stamp"} =>
                   /\ g \in DOMAIN reader'[r].loaded
                   /\ Kept(reader'[r].began[g].items, reader'[r].loaded[g], Intact(g)')
       /\ Given(r, g)' = IF g \in DOMAIN reader'[r].result.lists
                         THEN reader'[r].result.lists[g] ELSE <<>>
       /\ AnsweredOf(r, g)' <=>
             \/ Kept(reader'[r].began[g].items, Given(r, g)', Intact(g)')
             \/ /\ reader'[r].result.kind = "cached"
                /\ Floor(reader'[r].began[g].time) <= reader'[r].result.time
  <1>. TAKE r \in Readers, g \in Guids
  <1>1. Given(r, g)' = IF g \in DOMAIN reader'[r].result.lists
                       THEN reader'[r].result.lists[g] ELSE <<>>
    BY DEF Given
  <1>2. AnsweredOf(r, g)' <=>
             \/ Kept(reader'[r].began[g].items, Given(r, g)', Intact(g)')
             \/ /\ reader'[r].result.kind = "cached"
                /\ Floor(reader'[r].began[g].time) <= reader'[r].result.time
    BY DEF AnsweredOf, Kept, ToSet, Floor
  <1>3. Kept(reader[r].began[g].items, reader[r].loaded[g], Intact(g))' <=>
           Kept(reader'[r].began[g].items, reader'[r].loaded[g], Intact(g)')
    BY DEF Kept, ToSet
  <1>4. (Floor(reader[r].began[g].time) <= stamp)' <=>
           Floor(reader'[r].began[g].time) <= stamp'
    BY DEF Floor
  <1>. QED
    BY <1>1, <1>2, <1>3, <1>4 DEF Reached

\* A read comes by what was there when it began, or by a cache that claims to be
\* as young.
LEMMA MissStep ==
    TypeInv /\ ControlInv /\ OnceInv /\ MissInv /\ [Next]_vars => MissInv'
  <1>. SUFFICES ASSUME TypeInv, ControlInv, OnceInv, MissInv, [Next]_vars,
                       NEW r \in Readers, NEW g \in Guids, reader'[r].began[g].items # <<>>
                PROVE  /\ reader'[r].pc # "idle" => Reached(r, g)'
                       /\ Answered(r)' => AnsweredOf(r, g)'
    BY DEF MissInv
  <1>0. /\ Answered(r)' <=> reader'[r].pc = "idle" /\ reader'[r].result.kind \in {"cached", "loaded"}
        /\ Nothing.kind = "none"
        /\ file[g].time \in Nat /\ file'[g].time \in Nat /\ stamp \in Nat /\ stamp <= now
        /\ file[g].there => file'[g].there
        /\ file[g].time <= file'[g].time
        /\ Controlled(r)
    <2>1. /\ file[g].time \in Nat /\ stamp \in Nat /\ stamp <= now /\ now \in Nat
      BY DEF TypeInv, TypeOK, Shapes, FileStates
    <2>2. /\ file'[g].time \in 0..now /\ file[g].time <= file'[g].time
          /\ file[g].there => file'[g].there
      BY FilesNext DEF FilesStep
    <2>3. Answered(r)' <=>
             reader'[r].pc = "idle" /\ reader'[r].result.kind \in {"cached", "loaded"}
      BY DEF Answered
    <2>. QED
      BY <2>1, <2>2, <2>3 DEF Nothing, ControlInv
  <1>1. CASE Read(r)
    <2>1. /\ g \in Asked(r)' /\ reader'[r].began[g] = Seen(g)
          /\ reader'[r].pc = "test" /\ reader'[r].names = Names /\ file' = file
      BY <1>1, ReadBegins, SeenType
    <2>2. Seen(g).items # <<>> /\ Intact(g) # <<>> /\ Seen(g).time = file[g].time
      BY <2>1, SeenType
    <2>3. file[g].there
      BY <2>2, IntactProperties
    <2>4. g \in Names /\ reader'[r].began[g].time <= file'[g].time
      BY <1>0, <2>1, <2>2, <2>3 DEF Names
    <2>5. Reached(r, g)'
      BY <1>0, <2>1, <2>3, <2>4, MissNext
    <2>. QED
      BY <1>0, <2>1, <2>5
  <1>2. CASE ~Read(r)
    <2>. DEFINE items == reader[r].began[g].items
                time == reader[r].began[g].time
    <2>0. /\ reader'[r].began = reader[r].began /\ Asked(r)' = Asked(r)
          /\ items # <<>> /\ time \in Nat
          /\ reader'[r].guid = reader[r].guid
      BY <1>2, SameRead, ReaderType DEF Seens
    <2>1. \A list : Kept(items, list, Intact(g)) => Kept(items, list, Intact(g)')
      BY KeptStays
    <2>2. /\ reader[r].pc # "idle" => Reached(r, g)
          /\ Answered(r) => AnsweredOf(r, g)
      BY <2>0 DEF MissInv
    <2>3. CASE reader[r].pc = "idle"
      <3>1. /\ reader'[r].pc = "idle"
            /\ reader'[r].result \in {reader[r].result, Nothing}
        BY <1>2, <2>3, SameRead
      <3>2. ASSUME Answered(r)' PROVE AnsweredOf(r, g)'
        <4>1. reader'[r].result = reader[r].result /\ Answered(r)
          BY <1>0, <2>3, <3>1, <3>2 DEF Answered
        <4>2. Given(r, g)' = Given(r, g)
          BY <4>1, MissNext DEF Given
        <4>. QED
          BY <2>0, <2>1, <2>2, <4>1, <4>2, MissNext DEF AnsweredOf
      <3>. QED
        BY <3>1, <3>2
    <2>4. CASE reader[r].pc # "idle"
      <3>1. /\ g \in Asked(r) /\ file'[g].there /\ time <= file[g].time /\ time <= file'[g].time
        BY <1>0, <2>0, <2>2, <2>4 DEF Reached
      <3>2. ~Restart
        BY <2>4 DEF Restart
      <3>3. Floor(time) <= stamp => Floor(time) <= stamp'
        <4>1. stamp' \in {stamp, now}
          BY <3>2, StepKinds, CacheNext DEF TypeInv, Shapes
        <4>2. Floor(time) \in Int /\ stamp \in Nat /\ now \in Nat /\ stamp <= now
          BY <1>0, <2>0, GranularityAssumption DEF Floor, TypeInv, Shapes
        <4>. QED
          BY <4>1, <4>2
      <3>4. ASSUME NEW pc, NEW names, NEW loaded,
                   reader'[r].pc = pc, reader'[r].names = names, reader'[r].loaded = loaded,
                   pc = "test" => g \in names,
                   pc = "fresh" => g \in names \/ Floor(time) <= stamp',
                   pc = "hit" => Floor(time) <= stamp',
                   pc = "load" =>
                      g \in names \/ (g \in DOMAIN loaded /\ Kept(items, loaded[g], Intact(g)')),
                   pc \in {"clear", "fill", "stamp"} =>
                      g \in DOMAIN loaded /\ Kept(items, loaded[g], Intact(g)')
            PROVE  Reached(r, g)'
        BY <2>0, <3>1, <3>4, MissNext
      <3>5. CASE reader'[r] = reader[r]
        <4>1. Reached(r, g)'
          <5>1. /\ reader[r].pc = "test" => g \in reader[r].names
                /\ reader[r].pc = "fresh" => g \in reader[r].names \/ Floor(time) <= stamp'
                /\ reader[r].pc = "hit" => Floor(time) <= stamp'
            BY <2>2, <2>4, <3>3 DEF Reached
          <5>2. /\ reader[r].pc = "load" =>
                      \/ g \in reader[r].names
                      \/ /\ g \in DOMAIN reader[r].loaded
                         /\ Kept(items, reader[r].loaded[g], Intact(g)')
                /\ reader[r].pc \in {"clear", "fill", "stamp"} =>
                      /\ g \in DOMAIN reader[r].loaded
                      /\ Kept(items, reader[r].loaded[g], Intact(g)')
            BY <2>1, <2>2, <2>4 DEF Reached
          <5>. QED
            BY <3>4, <3>5, <5>1, <5>2
        <4>. QED
          BY <1>0, <2>4, <3>5, <4>1
      <3>. HIDE DEF items, time
      <3>6. ASSUME ToLoadTurned(r)
            PROVE  Reached(r, g)' /\ reader'[r].pc # "idle"
        <4>1. /\ reader'[r].pc = IF reader[r].guid = All THEN "list" ELSE "load"
              /\ reader'[r].names = IF reader[r].guid = All THEN {} ELSE {reader[r].guid}
          BY <3>6 DEF ToLoadTurned, Turned
        <4>2. reader'[r].pc = "load" => g \in reader'[r].names
          BY <3>1, <4>1 DEF Asked
        <4>3. reader'[r].pc \in {"list", "load"}
          BY <4>1
        <4>. QED
          BY <3>4, <4>2, <4>3
      <3>7. CASE IsCacheExist(r)
        <4>1. ASSUME Turned(r, "fresh", reader[r].names, reader[r].loaded, reader[r].result)
              PROVE  Reached(r, g)' /\ reader'[r].pc = "fresh"
          <5>1. reader'[r].pc = "fresh" /\ reader'[r].names = reader[r].names
            BY <4>1 DEF Turned
          <5>2. g \in reader[r].names
            BY <2>2, <3>7 DEF IsCacheExist, Reached
          <5>. QED
            BY <3>4, <5>1, <5>2
        <4>. QED
          BY <1>0, <3>6, <3>7, <4>1, IsCacheExistNext
      <3>8. CASE NeedRefresh(r)
        <4>0. g \in reader[r].names \/ Floor(time) <= stamp
          BY <2>2, <3>8 DEF NeedRefresh, Reached, time
        <4>1. ASSUME reader[r].names = {},
                     Turned(r, "hit", {}, reader[r].loaded, reader[r].result)
              PROVE  Reached(r, g)' /\ reader'[r].pc = "hit"
          <5>1. reader'[r].pc = "hit" /\ Floor(time) <= stamp'
            BY <3>3, <4>0, <4>1 DEF Turned
          <5>. QED
            BY <3>4, <5>1
        <4>2. ASSUME NEW f \in reader[r].names, ~(LastModified(f) > stamp),
                     Turned(r, "fresh", reader[r].names \ {f}, reader[r].loaded, reader[r].result)
              PROVE  Reached(r, g)' /\ reader'[r].pc = "fresh"
          <5>1. reader'[r].pc = "fresh" /\ reader'[r].names = reader[r].names \ {f}
            BY <4>2 DEF Turned
          <5>2. g = f => Floor(time) <= stamp
            <6>1. SUFFICES ASSUME g = f PROVE Floor(time) <= stamp
              OBVIOUS
            <6>2. Floor(time) <= Floor(file[g].time)
              BY <1>0, <2>0, <3>1, FloorMonotone
            <6>3. Floor(file[g].time) = LastModified(f)
              BY <6>1 DEF Floor, LastModified
            <6>4. /\ Floor(time) \in Int /\ LastModified(f) \in Int /\ stamp \in Int
              BY <1>0, <2>0, <6>3, GranularityAssumption DEF Floor
            <6>. QED
              BY <4>2, <6>2, <6>3, <6>4
          <5>3. g \in reader'[r].names \/ Floor(time) <= stamp'
            BY <3>3, <4>0, <5>1, <5>2
          <5>. QED
            BY <3>4, <5>1, <5>3
        <4>. QED
          BY <1>0, <3>6, <3>8, <4>1, <4>2, NeedRefreshNext
      <3>9. CASE LoadList(r)
        <4>1. reader'[r].pc = "load" /\ reader'[r].names = Names /\ file' = file
          BY <3>9, LoadListNext DEF Turned, LoadList, Reading
        <4>2. g \in Names
          BY <3>1, <4>1 DEF Names
        <4>3. Reached(r, g)'
          BY <3>4, <4>1, <4>2
        <4>. QED
          BY <1>0, <4>1, <4>3
      <3>10. CASE LoadMsgsById(r)
        <4>0. \/ g \in reader[r].names
              \/ g \in DOMAIN reader[r].loaded /\ Kept(items, reader[r].loaded[g], Intact(g)')
          BY <2>1, <2>2, <3>10 DEF LoadMsgsById, Reached, items
        <4>1. ASSUME reader[r].names = {},
                     Turned(r, "clear", {}, reader[r].loaded, reader[r].result)
              PROVE  Reached(r, g)' /\ reader'[r].pc = "clear"
          <5>1. reader'[r].pc = "clear" /\ reader'[r].loaded = reader[r].loaded
            BY <4>1 DEF Turned
          <5>. QED
            BY <3>4, <4>0, <4>1, <5>1
        <4>2. ASSUME NEW f \in reader[r].names,
                     Turned(r, "load", reader[r].names \ {f},
                            Put(reader[r].loaded, f, Intact(f)), reader[r].result)
              PROVE  Reached(r, g)' /\ reader'[r].pc = "load"
          <5>0. f \in Guids /\ Intact(f) \in Seq(Messages) /\ Intact(g)' = Intact(g)
                /\ reader[r].loaded \in Maps
            BY <3>10, ReaderType, IntactProperties, IntactNext
               DEF LoadMsgsById, Reading, Intact
          <5>1. /\ reader'[r].pc = "load" /\ reader'[r].names = reader[r].names \ {f}
                /\ reader'[r].loaded = Put(reader[r].loaded, f, Intact(f))
            BY <4>2 DEF Turned
          <5>2. /\ g = f => g \in DOMAIN reader'[r].loaded /\ reader'[r].loaded[g] = Intact(g)
                /\ g # f /\ g \in DOMAIN reader[r].loaded =>
                      /\ g \in DOMAIN reader'[r].loaded
                      /\ reader'[r].loaded[g] = reader[r].loaded[g]
            <6>1. \A map, list :
                     /\ g = f => g \in DOMAIN Put(map, f, list) /\ Put(map, f, list)[g] = list
                     /\ g # f /\ g \in DOMAIN map =>
                           g \in DOMAIN Put(map, f, list) /\ Put(map, f, list)[g] = map[g]
              BY DEF Put
            <6>. QED
              BY <5>1, <6>1
          <5>3. Kept(items, Intact(g), Intact(g)')
            BY <5>0 DEF Kept
          <5>4. \/ g \in reader'[r].names
                \/ g \in DOMAIN reader'[r].loaded /\ Kept(items, reader'[r].loaded[g], Intact(g)')
            BY <4>0, <5>1, <5>2, <5>3
          <5>. QED
            BY <3>4, <5>1, <5>4
        <4>3. ASSUME NEW f, Turned(r, "idle", {}, Empty, Failure(f))
              PROVE  reader'[r].pc = "idle" /\ reader'[r].result.kind = "exception"
          BY <4>3 DEF Turned, Failure
        <4>. QED
          BY <1>0, <3>10, <4>1, <4>2, <4>3, LoadMsgsByIdNext
      <3>11. CASE CacheRead(r)
        <4>1. /\ reader'[r].pc = "idle" /\ reader'[r].result = Answering(r, "cached", stamp)
          BY <3>11, CacheNext DEF Turned
        <4>2. reader'[r].result.kind = "cached" /\ reader'[r].result.time = stamp
          BY <4>1 DEF Answering
        <4>3. Floor(time) <= stamp
          BY <2>2, <3>11 DEF CacheRead, Reached, time
        <4>4. AnsweredOf(r, g)'
          BY <2>0, <4>2, <4>3, MissNext DEF time
        <4>. QED
          BY <4>1, <4>4
      <3>12. CASE CacheClear(r) \/ CacheFill(r)
        <4>1. /\ reader[r].pc \in {"clear", "fill"} /\ reader'[r].pc \in {"fill", "stamp"}
              /\ reader'[r].loaded = reader[r].loaded
          BY <3>12, CacheNext DEF Turned
        <4>2. g \in DOMAIN reader[r].loaded /\ Kept(items, reader[r].loaded[g], Intact(g)')
          BY <2>1, <2>2, <4>1 DEF Reached, items
        <4>3. Reached(r, g)'
          BY <3>4, <4>1, <4>2
        <4>. QED
          BY <1>0, <4>1, <4>3
      <3>13. CASE CacheStamp(r)
        <4>1. /\ reader[r].pc = "stamp" /\ reader'[r].pc = "idle"
              /\ reader'[r].result = Answering(r, "loaded", 0)
          BY <3>13, CacheNext DEF Turned
        <4>2. g \in DOMAIN cache /\ Kept(items, cache[g], Intact(g)')
          BY <1>0, <2>1, <2>2, <4>1 DEF Reached, Controlled, items
        <4>3. Given(r, g)' = cache[g]
          <5>1. reader'[r].result.lists = GenerateResultMap(reader[r].guid, cache)
            BY <4>1 DEF Answering
          <5>2. reader[r].guid = All \/ reader[r].guid = g
            BY <3>1 DEF Asked
          <5>3. /\ g \in DOMAIN GenerateResultMap(reader[r].guid, cache)
                /\ GenerateResultMap(reader[r].guid, cache)[g] = cache[g]
            BY <4>2, <5>2 DEF GenerateResultMap
          <5>. QED
            BY <5>1, <5>3, MissNext
        <4>4. AnsweredOf(r, g)'
          BY <2>0, <4>2, <4>3, MissNext DEF items
        <4>. QED
          BY <4>1, <4>4
      <3>14. \/ reader'[r] = reader[r]
             \/ Looks(r) \/ CacheRead(r) \/ CacheClear(r) \/ CacheFill(r) \/ CacheStamp(r)
        BY <3>2, StepKinds
      <3>. QED
        BY <1>2, <3>5, <3>7, <3>8, <3>9, <3>10, <3>11, <3>12, <3>13, <3>14 DEF Looks
    <2>. QED
      BY <2>3, <2>4
  <1>. QED
    BY <1>1, <1>2

\* A message that was there before a read began, and still is, is missed only by
\* an answer from a cache that claims to be as young as the file was.
THEOREM ReadsMissOnlyTheYoung == Spec => []MissesOnlyTheYoung
  <1>1. Init => MissInv
    <2>. SUFFICES ASSUME Init, NEW r \in Readers, NEW g \in Guids
                  PROVE  reader[r].began[g].items = <<>>
      BY DEF MissInv
    <2>. QED
      BY DEF Init, Unseen
  <1>2. TypeInv /\ MissInv => MissesOnlyTheYoung
    <2>. SUFFICES ASSUME TypeInv, MissInv, NEW r \in Readers, Answered(r), NEW g \in Asked(r),
                         NEW m \in ToSet(reader[r].began[g].items)
                  PROVE  \/ m \in ToSet(Given(r, g))
                         \/ m \notin ToSet(Intact(g))
                         \/ /\ reader[r].result.kind = "cached"
                            /\ (reader[r].began[g].time \div Granularity) * Granularity
                                  <= reader[r].result.time
      BY DEF MissesOnlyTheYoung
    <2>1. g \in Guids
      BY ReaderType DEF Asked
    <2>2. reader[r].began[g].items # <<>>
      <3>1. ToSet(<<>>) = {}
        BY EmptySeq, ItemsOfSeq
      <3>. QED
        BY <3>1
    <2>3. AnsweredOf(r, g)
      BY <2>1, <2>2 DEF MissInv
    <2>. QED
      BY <2>3 DEF AnsweredOf, Kept, Floor
  <1>3. Spec => []ControlInv
    BY TypeCorrect, ReadersInit, ControlStep, PTL DEF Spec
  <1>4. Spec => []OnceInv
    BY TypeCorrect, ReadersInit, OnceStep, PTL DEF Spec
  <1>. QED
    BY TypeCorrect, <1>1, <1>2, <1>3, <1>4, MissStep, PTL DEF Spec
=============================================================================

---------------------------- MODULE MessageStore ----------------------------
(* The message store of src/java/Demo: WriteService appends messages to one *)
(* file per guid, ReadService reads the files of a directory through a      *)
(* cache.  Writers and readers are threads; writers may be of any process,  *)
(* readers share one and its cache.                                         *)
(*                                                                          *)
(* A step is one access to the file system or to the cache.  Only           *)
(* cacheRWHandler takes the lock of ReadService.  A file is no longer than  *)
(* what one read or write of a buffer moves, and a message is no shorter    *)
(* than the title of a file.                                                *)
EXTENDS Integers, SequencesExt

CONSTANTS
    Readers, Writers,
    Guids,        \* also the names of the files
    All,          \* the null given for a guid to read everything
    Nobody,       \* holds the lock when no reader does
    Granularity,  \* of the time that lastModified answers, in clock units
    MaxWrites,    \* bound on the messages of a writer
    MaxTime       \* bound on the clock

ASSUME GranularityAssumption == Granularity \in Nat \ {0}
ASSUME NullAssumption == All \notin Guids /\ Nobody \notin Readers
ASSUME BoundAssumption == MaxWrites \in Nat /\ MaxTime \in Nat \ {0}

VARIABLES
    now,     \* new Date().getTime()
    file,    \* the files: whether they are there, what is in them, written when
    writer,  \* where each writer is
    reader,  \* where each reader is, and what its last read gave
    cache,   \* lists of messages by guid
    stamp,   \* cacheTimeMillis
    lock,    \* the monitor of ReadService
    log,     \* history: the messages ever appended for each guid
    created  \* history: how many of them before the file was last created

vars == <<now, file, writer, reader, cache, stamp, lock, log, created>>

Title == <<"title">>
Torn == <<"torn">> \* what is left of a message under a title
Message(w, n) == <<"message", w, n>>
Messages == {Message(w, n) : w \in Writers, n \in 1..MaxWrites}

IsLists(map) == DOMAIN map \subseteq Guids /\ \A g \in DOMAIN map : map[g] \in Seq(Messages)

\* A file has one title, before all else.
TypeOK ==
    /\ now \in 1..MaxTime /\ stamp \in 0..now
    /\ \A g \in Guids :
          /\ file[g].there \in BOOLEAN /\ file[g].time \in 0..now
          /\ \A i \in 1..Len(file[g].items) :
                \/ file[g].items[i] \in Messages
                \/ file[g].items[i] = Title /\ i = 1
                \/ file[g].items[i] = Torn /\ i = 2
    /\ \A w \in Writers : writer[w].pc \in {"idle", "create", "title", "append"}
    /\ \A r \in Readers :
          /\ reader[r].pc \in {"idle", "test", "fresh", "list", "load", "hit",
                               "clear", "fill", "stamp"}
          /\ reader[r].names \subseteq Guids
          /\ IsLists(reader[r].loaded)
    /\ IsLists(cache)
    /\ lock \in Readers \cup {Nobody}
    /\ \A g \in Guids : log[g] \in Seq(Messages) /\ created[g] \in 0..Len(log[g])

Empty == [g \in {} |-> <<>>]
Nothing == [kind |-> "none", lists |-> Empty, time |-> 0, file |-> All]

\* History: what was to be read of a guid when a read of it began, how young the
\* last of it was, and whether the file was yet to have a message or to be begun
\* again.
Unseen == [items |-> <<>>, time |-> 0, unsettled |-> TRUE]

Init ==
    /\ now = 1
    /\ file = [g \in Guids |-> [there |-> FALSE, items |-> <<>>, time |-> 0]]
    /\ writer = [w \in Writers |-> [pc |-> "idle", count |-> 0, guid |-> All]]
    /\ reader = [r \in Readers |-> [pc |-> "idle", guid |-> All, names |-> {}, loaded |-> Empty,
                                    result |-> Nothing,
                                    began |-> [g \in Guids |-> Unseen]]]
    /\ cache = Empty /\ stamp = 0
    /\ lock = Nobody
    /\ log = [g \in Guids |-> <<>>] /\ created = [g \in Guids |-> 0]

\* purify: what is read of a file begins at its first "Result".
FirstResult(items) == SelectInSeq(items, LAMBDA item : item \in Messages)
Purify(items) ==
    IF FirstResult(items) = 0 THEN <<>> ELSE SubSeq(items, FirstResult(items), Len(items))

\* The messages that are read from a file.
Intact(g) == Purify(file[g].items)

--------------------------------------------------------------------------
(* WriteService.                                                          *)

Writing == UNCHANGED <<now, reader, cache, stamp, lock>>

\* Every write would begin the file again.
PrepareDataFileAlways(w) ==
    /\ writer[w].pc = "idle" /\ writer[w].count < MaxWrites
    /\ \E g \in Guids :
          writer' = [writer EXCEPT ![w] = [pc |-> "create", count |-> @.count + 1, guid |-> g]]
    /\ Writing
    /\ UNCHANGED <<file, log, created>>

\* prepareDataFile up to dataFile.exists().
PrepareDataFile(w) ==
    /\ writer[w].pc = "idle" /\ writer[w].count < MaxWrites
    /\ \E g \in Guids :
          writer' = [writer EXCEPT ![w] = [pc |-> IF file[g].there THEN "append" ELSE "create",
                                           count |-> @.count + 1, guid |-> g]]
    /\ Writing
    /\ UNCHANGED <<file, log, created>>

\* new FileWriter(filePath, false): the file is there and empty, whatever it
\* has become since.
OpenNew(w) ==
    /\ writer[w].pc = "create"
    /\ writer' = [writer EXCEPT ![w].pc = "title"]
    /\ file' = [file EXCEPT ![writer[w].guid] = [there |-> TRUE, items |-> <<>>, time |-> now]]
    /\ created' = [created EXCEPT ![writer[w].guid] = Len(log[writer[w].guid])]
    /\ Writing
    /\ UNCHANGED log

\* The title goes to the beginning of the file, onto what is there.
WithTitle(items) ==
    IF items = <<>> THEN <<Title>>
    ELSE IF items[1] = Title THEN items ELSE <<Title, Torn>> \o Tail(items)

WriteTitle(w) ==
    /\ writer[w].pc = "title"
    /\ writer' = [writer EXCEPT ![w].pc = "append"]
    /\ file' = [file EXCEPT ![writer[w].guid].items = WithTitle(@),
                            ![writer[w].guid].time = now]
    /\ created' = [created EXCEPT ![writer[w].guid] = Len(log[writer[w].guid])]
    /\ Writing
    /\ UNCHANGED log

\* A file not opened to append to is written from its beginning.
WithMessageAtStart(items, m) == <<m>> \o (IF items = <<>> THEN <<>> ELSE Tail(items))

WithMessage(items, m) == items \o <<m>>

\* The block of the message goes to the end of the file.
AppendBlock(w) ==
    LET g == writer[w].guid
        m == Message(w, writer[w].count)
    IN  /\ writer[w].pc = "append"
        /\ writer' = [writer EXCEPT ![w] = [pc |-> "idle", count |-> @.count, guid |-> All]]
        /\ file' = [file EXCEPT ![g].items = WithMessage(@, m), ![g].time = now]
        /\ log' = [log EXCEPT ![g] = Append(@, m)]
        /\ Writing
        /\ UNCHANGED created

--------------------------------------------------------------------------
(* ReadService.                                                           *)

Reading == UNCHANGED <<now, file, writer, log, created>>
NoChangeOfCache == UNCHANGED <<cache, stamp, lock>>

Move(r, pc) == reader' = [reader EXCEPT ![r].pc = pc]
Asked(r) == IF reader[r].guid = All THEN Guids ELSE {reader[r].guid}
Names == {g \in Guids : file[g].there}

\* Writers that have found no file for g and are yet to begin it.
Creating(g) == \E w \in Writers : writer[w].pc \in {"create", "title"} /\ writer[w].guid = g

Seen(g) == [items |-> Intact(g),
            time |-> IF Intact(g) = <<>> THEN 0 ELSE file[g].time,
            unsettled |-> Intact(g) = <<>> \/ Creating(g)]

\* read: the files are listed.
Read(r) ==
    /\ reader[r].pc = "idle"
    /\ \E guid \in Guids \cup {All} :
          reader' = [reader EXCEPT ![r] =
              [pc |-> "test", guid |-> guid, names |-> Names, loaded |-> Empty, result |-> Nothing,
               began |-> [g \in Guids |-> IF guid \in {All, g} THEN Seen(g) ELSE Unseen]]]
    /\ Reading /\ NoChangeOfCache

ToLoad(r) ==
    reader' = [reader EXCEPT ![r].pc = IF reader[r].guid = All THEN "list" ELSE "load",
                             ![r].names = IF reader[r].guid = All THEN {} ELSE {reader[r].guid}]

\* isCacheExist, without the lock.
IsCacheExist(r) ==
    /\ reader[r].pc = "test"
    /\ IF cache = Empty THEN ToLoad(r) ELSE Move(r, "fresh")
    /\ Reading /\ NoChangeOfCache

LastModified(g) == (file[g].time \div Granularity) * Granularity

\* The first file would speak for all.
NeedRefreshFirst(r) ==
    /\ reader[r].pc = "fresh"
    /\ \/ reader[r].names = {} /\ Move(r, "hit")
       \/ \E f \in reader[r].names :
             IF LastModified(f) > stamp THEN ToLoad(r) ELSE Move(r, "hit")
    /\ Reading /\ NoChangeOfCache

\* One turn of the loop of needRefresh, without the lock.
NeedRefresh(r) ==
    /\ reader[r].pc = "fresh"
    /\ \/ reader[r].names = {} /\ Move(r, "hit")
       \/ \E f \in reader[r].names :
             IF LastModified(f) > stamp THEN ToLoad(r)
             ELSE reader' = [reader EXCEPT ![r].names = @ \ {f}]
    /\ Reading /\ NoChangeOfCache

\* load(null) lists the files again.
LoadList(r) ==
    /\ reader[r].pc = "list"
    /\ reader' = [reader EXCEPT ![r].pc = "load", ![r].names = Names]
    /\ Reading /\ NoChangeOfCache

\* The put and putAll of a HashMap.
Put(map, g, list) ==
    [h \in DOMAIN map \cup {g} |-> IF h = g THEN list ELSE map[h]]
PutAll(map, new) ==
    [h \in DOMAIN map \cup DOMAIN new |-> IF h \in DOMAIN new THEN new[h] ELSE map[h]]

\* A read returns, or is thrown out of.
End(r, result) ==
    reader' = [reader EXCEPT ![r] = [@ EXCEPT !.pc = "idle", !.names = {}, !.loaded = Empty,
                                              !.result = result]]
Failure(f) == [kind |-> "exception", lists |-> Empty, time |-> 0, file |-> f]

\* One list for all files: each file's would begin with those before.
LoadMsgsByIdShared(r) ==
    /\ reader[r].pc = "load"
    /\ \/ reader[r].names = {} /\ Move(r, "clear")
       \/ \E f \in reader[r].names :
             reader' = [reader EXCEPT ![r].names = @ \ {f},
                                      ![r].loaded = Put(@, f, FoldSet(LAMBDA g, list : reader[r].loaded[g] \o list,
                                                          Intact(f), DOMAIN reader[r].loaded))]
    /\ Reading /\ NoChangeOfCache

\* loadMsgsById: a file without a "Result", as one that is not there, ends the
\* read with an exception.
LoadMsgsById(r) ==
    /\ reader[r].pc = "load"
    /\ \/ reader[r].names = {} /\ Move(r, "clear")
       \/ \E f \in reader[r].names :
             IF Intact(f) = <<>> THEN End(r, Failure(f))
             ELSE reader' = [reader EXCEPT ![r].names = @ \ {f},
                                           ![r].loaded = Put(@, f, Intact(f))]
    /\ Reading /\ NoChangeOfCache

\* generateResultMap: what a read of guid gets of a map.
GenerateResultMap(guid, map) ==
    IF guid = All THEN map
    ELSE [g \in {guid} |-> IF g \in DOMAIN map THEN map[g] ELSE <<>>]

Answer(r, kind, time) ==
    End(r, [kind |-> kind, lists |-> GenerateResultMap(reader[r].guid, cache),
            time |-> time, file |-> All])

\* cacheRWHandler(guid, null).
CacheRead(r) ==
    /\ reader[r].pc = "hit" /\ lock = Nobody
    /\ Answer(r, "cached", stamp)
    /\ Reading /\ NoChangeOfCache

\* cacheRWHandler(guid, newCache): clear, putAll, the stamp.
CacheClear(r) ==
    /\ reader[r].pc = "clear" /\ lock = Nobody
    /\ lock' = r
    /\ cache' = Empty
    /\ Move(r, "fill")
    /\ Reading
    /\ UNCHANGED stamp

CacheFill(r) ==
    /\ reader[r].pc = "fill"
    /\ cache' = PutAll(cache, reader[r].loaded)
    /\ Move(r, "stamp")
    /\ Reading
    /\ UNCHANGED <<stamp, lock>>

CacheStamp(r) ==
    /\ reader[r].pc = "stamp"
    /\ stamp' = now
    /\ lock' = Nobody
    /\ Answer(r, "loaded", 0)
    /\ Reading
    /\ UNCHANGED cache

\* The readers' process ends and is started again.
Restart ==
    /\ \A r \in Readers : reader[r].pc = "idle"
    /\ cache' = Empty /\ stamp' = 0
    /\ reader' = [r \in Readers |-> [reader[r] EXCEPT !.result = Nothing]]
    /\ UNCHANGED <<now, file, writer, lock, log, created>>

Tick ==
    /\ now < MaxTime
    /\ now' = now + 1
    /\ UNCHANGED <<file, writer, reader, cache, stamp, lock, log, created>>

Next ==
    \/ \E w \in Writers : PrepareDataFile(w) \/ OpenNew(w) \/ WriteTitle(w) \/ AppendBlock(w)
    \/ \E r \in Readers :
          \/ Read(r) \/ IsCacheExist(r) \/ NeedRefresh(r) \/ LoadList(r) \/ LoadMsgsById(r)
          \/ CacheRead(r) \/ CacheClear(r) \/ CacheFill(r) \/ CacheStamp(r)
    \/ Restart
    \/ Tick

Spec == Init /\ [][Next]_vars

--------------------------------------------------------------------------
(* What a store is for.                                                   *)

\* Writers that find no file at the same time begin it more than once, and may
\* lose what the first have appended (prepareDataFile); whatever is appended
\* after that stays, in the order it was appended.
KeepsLog ==
    \A g \in Guids : \E k \in 0..created[g] :
        Intact(g) = SubSeq(log[g], k + 1, Len(log[g]))

\* Every file is one title and a log, whoever began it and however often.
FilesAreLogs == TypeOK /\ KeepsLog

Answered(r) == reader[r].pc = "idle" /\ reader[r].result.kind \in {"cached", "loaded"}
Given(r, g) == LET lists == reader[r].result.lists
               IN  IF g \in DOMAIN lists THEN lists[g] ELSE <<>>

\* A read gives a stretch of the log of a guid without a gap or a repetition,
\* whatever it and other readers did to the cache meanwhile.
ReadsAStretch ==
    \A r \in Readers : Answered(r) =>
        \A g \in Guids : \E i \in 0..(Len(log[g]) - Len(Given(r, g))) :
            Given(r, g) = SubSeq(log[g], i + 1, i + Len(Given(r, g)))

\* A read misses a message that was there before it began, and still is, only if
\* it was answered from a cache that claims to be as young as the message, by
\* the clock of the file system: it was loaded before the message was written,
\* or for another guid (needRefresh, cacheRWHandler).
MissesOnlyTheYoung ==
    \A r \in Readers : Answered(r) =>
        \A g \in Asked(r) : \A m \in ToSet(reader[r].began[g].items) :
            \/ m \in ToSet(Given(r, g))
            \/ m \notin ToSet(Intact(g))
            \/ /\ reader[r].result.kind = "cached"
               /\ (reader[r].began[g].time \div Granularity) * Granularity
                     <= reader[r].result.time

\* A read fails only where, when it began, the file had no message yet or a
\* writer was still to begin it (purify).
FailsOnlyAtCreation ==
    \A r \in Readers : reader[r].result.kind = "exception" =>
        reader[r].began[reader[r].result.file].unsettled
=============================================================================

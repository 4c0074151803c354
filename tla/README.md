# Verification of unity-learning

The repository is a collection of learning projects. Five of them carry real logic of
their own and are modelled here:

* **TaskSchedulerAdvance** (`src/java/TaskSchedulerAdvance`): a cron scheduler. A store of
  crons, a picker thread, an executor with a bounded queue and a thread created on demand,
  and a parser that computes the next run time of a crontab trigger.
* **the DOH client** (`src/c/https/do_doh_https_request.c`): an HTTPS client that fetches
  six groups of data about a supernova array, with a login session, 30-second caches, a
  hand-written read loop, and two linked lists filled from XML.
* **the message store** (`src/java/Demo`): services that append messages to a file per guid
  and read them through a cache shared by all threads.
* **the request codes** (`src/c/encryption`): three versions of a tool that packs a UUID and
  the time into an encrypted code and reads it back, and a generator of the raw code.
* **the linked lists** (`src/c/link_list.c`, `src/c/doubly_link_list.c`): two menu programs over
  a hand-made list.

Everything below was read from the code; comments and tests are used only where a run
compares the code with what they say.

## 1. Inventory

| Component | State | Operations | Interaction |
|---|---|---|---|
| Store (`StoreManager`) | list of `CronModel`, the list's modification count | create, update, delete, getAll, getById, print; one synchronized `apply` | called by picker, executor and any client; iterates without the lock |
| Picker (`CronPicker`) | its place in `run`, an iterator, the clones of `getAll`, `currentTime` | scan every 5 s: clone all, print all, push what has expired, `executor.start()` | reads the store, puts into the queue, starts the executor |
| Executor (`CronExecutor`) | `ArrayBlockingQueue`, thread reference `t` (not volatile) | push, isInQueue, start; `run`: while not empty, execute; `t = null` | polls the queue, writes back to the store |
| Crontab parser (`CrontabParser`, fields, `InternalTime`, `Util`) | six fields with list, range, step and time stamp; a cache of days per month | parse and validate; `next()` through five nudges | called by the store for each next run time |
| DOH requests (`fetch_doh_information`, `process_doh_request`) | session id, one cache time per group, values, request under way, open resources | fetch; per request: cache test, connect, send, read, parse; log out, log in, retry | server over TLS; the answer passes through a file to the XML reader |
| DOH read loop | buffer, `received_bytes`, output file | one pass per `SSL_read` | writes the file the parsers read |
| DOH tables (`populate_alert_list`, `populate_audit_list`) | linked list, entry being made, flags of the parse (partly globals) | free the list, one node per step, insertion in order | called by the request that was answered |
| Message store (`WriteService`, `ReadService`) | a file per guid; a map of lists by guid, and one time for the whole map | write: create the file with its title if it is not there, append; read: is the cache there and fresh, load files, replace the cache | writers and readers meet in the files, readers in the cache, of which one method is synchronized |
| Request codes (`encryptor_tool_v1.c` to `_v3.c`, `raw_code_generator.c`) | the buffers of one process: key, raw code, IV, code | encrypt, decrypt, generate | a printed code is typed into a later run, perhaps of another version |
| Linked lists | nodes, head, a count | create, bulk create, insert at either end, delete, show | one user, in any order |

Not modelled, and why: `PROJECT.json` lists every further part, and section 7 says why.

### What is hard in this code

* **Interleaving.** Picker, executor and clients share a list, a queue and a reference with
  one lock among them. `isInQueue`/`put`, `isEmpty`/`poll` and `getById`/`apply` are pairs of
  calls with anything in between; the executor's last test of the queue and `t = null` leave
  a window in which `start()` does nothing.
* **Stale state.** The queue holds clones of crons, which are executed and written back
  later. The DOH caches are served without asking. Flags of a broken-off parse, bytes of an
  earlier read, and stamps of an earlier search are met by the next one.
* **Exceptions that end threads.** A `ConcurrentModificationException`, a cron deleted under
  the executor, a trigger that does not parse.
* **Failures between two steps.** Sessions expire, reads break off, calls fail, the process
  dies between login and the request it was for.
* **Boundaries.** Months without a day, years of them, `received_bytes` at or below zero,
  lists asked for a first element, equal keys at both ends of a list.
* **Memory nobody wrote.** Strings without a terminator, a byte of an IV that is not cleared, a
  head pointer and a `temp_value` that are not initialised, nodes that are freed and taken again.
* **Endings.** Searches for a date, loops over a list, a fetch that logs in again.

`PROJECT.json`, "hazards", has each at its line, with the property that would catch it, or the
reason why none does: some of them the code simply has, and the properties except them.

### What makes each component correct

* Scheduler: one executor at a time; no cron queued twice; none run before its time, nor the
  same due time again and again; none left overdue; no deleted cron comes back; together,
  that it keeps a schedule (module `CronSchedule`).
* Parser: the answer is the nearest time the trigger asks for; the search ends.
* DOH requests: a fetch ends; success means everything was asked; nothing stale is shown or
  served; no session is forgotten at the server; nothing leaks beyond what is known to.
* Read loop: bytes in order, once, header skipped; complete, under a condition it states.
* Tables: the list is one sorted chain without a leak that lists what the server reported; the
  parse crashes over nothing but the answers that are named.
* Message store: a file is one title and the messages in the order they were appended; a read
  gives a stretch of them, misses none that it need not, and fails only where it must.
* Request codes: what is encrypted is what is decrypted, whatever memory holds; what is shown
  is true; a code of another version is refused.
* Linked lists: a sequence of numbers, a count that never exceeds it, no node lost.

## 2. Plan

Order of the work, the most important behaviour first:

1. `CronScheduler`, its abstract `CronSchedule`, and the proofs. *Done.*
2. `DohClient`, `DohReadLoop`, `DohLogList` with `DohAuditList` and `DohAlertList`, the
   abstract `SortedLog`, and the proofs. *Done.*
3. `CrontabCalendar`, `CrontabParser`. *Done, model-checked.*
4. `MessageStore` and the proofs. *Done.*
5. `LinkList` with the abstract `NumberList`, and the proofs. *Done.* `CodeBits`, `EncryptorV1` to
   `EncryptorV3` and `RequestCode`. *Done, model-checked.*
6. The completeness of the alert table (`AllLogsListed`), along the lines of that of the audit
   table. *Done.* Next, of what section 5 lists as only model-checked: that five-bit symbols and
   bytes of `CodeBits` are undone exactly, which no `RECURSIVE` operator stands in the way of.
7. Then `TaskManager` (`java/ThreadPoolDemo`) and the Ruby demos, smaller and further from the
   core than what is above.

Runs are added with the modules; where two ask related questions of one module they share a
run, as `cron_clients` does with its liveness and its safety.

## 3. Modules

### CronScheduler, CronSchedule, MCCronScheduler

One action per access to something shared. Picker: `PickerScan` starts a scan; `PickerGetAll`
and `PickerPrint` are one turn each of the unlocked loops over the live list, with the
iterator's `modCount` test (`Comodified`), and an exception ends the thread (`"dead"`);
`PickerCheck` tests one clone (`Expired`, `IsInQueue`); `PickerPut` waits for room;
`PickerStart` creates a thread if `t` is null. Executor: `WorkerLoop` is `isEmpty`,
`WorkerPoll` the poll six seconds later, `WorkerSetNext` the next run time of the polled
clone, `WorkerGetById` one turn of the search in `update`, `WorkerUpdate` the `apply`,
`WorkerClear` is `t = null`. Clients: `ClientCreate`, `ClientEdit`, `ClientUpdate`,
`ClientDelete` up to the lock, `ClientApply` the synchronized `apply`. `Tick` is the clock.

Abstractions: a single call on an `ArrayList` or on the queue, the queue's iteration
included, is atomic; a client's own lookup is (it cannot hurt anyone else); a late sight of
the write to `t` is the thread lingering before `WorkerClear`; `CrontabParser.next` is the
constant `NextRunTime` with `NextAssumption`: later than the time given, and for the trigger
of `Main`, `* * * * *`, the same for every time until it comes. `CrontabParser` is where
this is checked: `SearchAdvances` and `NextIsNearest` there are these two assumptions.

`CronSchedule` is the promise without threads: each job has a run time; a run replaces it by
the time that follows some moment since it was due; an overdue job is run. `CronScheduler`
implements it with `due` mapped to the run times in the store (`Schedule`).

### CrontabCalendar, CrontabParser, MCCrontabParser

`CrontabCalendar` is `java.util.Calendar` as the parser uses it, of any size: lenient
conversion of a time to an instant (`ToTime`: a day 0 or an hour -1 carries), its inverse,
weeks, and addition of months. `CrontabParser` keeps the code's structure: `ParsedField`,
`SteppedRange` and `LeastOfStep` make the lists; `MonthStamp`, `DayStamp`, `HourStampIsDue`
and `MinuteStampIsDue` are the four updates of a stepped field; `NudgeYear`, `NudgeMonth`,
`NudgeDate` (with `FindDate`, its loop and its recursion), `NudgeHour` and `NudgeMinute`
carry; `Interpolated` is the cache of days; `FixYear` to `FixHour` and `NudgeMinute` make
`GetNext`. `Parse` is the constructor, `CallNext` the entry of `next()`, and each `Calculate`
is one `getNext`, with the conditions of the loop of `next` and of the jump of weeks. `next` is
called without a date or, as `Main.getNext` does, with the answer of the call before. A
fault (`"year out of range"`, `"index out of bounds"`, `"endless"`) ends the parser.

A trigger arrives as its ranges, since splitting text decides nothing else; there is no
summer time; the clock stands still during one call.

### DohClient, MCDohClient

`pc` is where `process_doh_request` is, `at` and `phase` where `fetch_doh_information` is.
`AnswerFromCache` is the early return on a fresh cache; `OpenFails`, `Open`, `SendFails`,
`Send`, `NoBuffer`, `OpenFile`, `NoFile`, `Read`, `ReadShort`, `ReadFails` carry the request
out, each early return closing what the code closes; `ParseLogin` to `ParseAudits`,
`ParseRefused` and `NoReader` are the populate functions. `Crash` is the end of the process: by
what is put into the file that `fopen` did not open (`NoFile` is the one way past it), or by
a tag without a text that is read through a `temp_value` nothing has set (`HollowTag`). `LogOutFirst`, `LogIn`, `Retry`,
`NextRequest`, `FetchReturns` are `fetch_doh_information`. `Expire`, `Send`'s answers,
`Restart` and `Tick` are the environment: server, network, machine. An answer is data, part
of it, an error, an error that broke off, or a demand to log in; a group's values are blank
or from an answer. The figures of the supernova (memory, processors, state) are never
blanked by the code and are not part of `data`.

`Resident` tells whether the fetch is called again in one process. `main` calls it once; the
caches, the guards of lines 2195-2250 and the comment at line 1078 are written for a
caller that stays.

### DohReadLoop, MCDohReadLoop

One pass of lines 2465-2514 (`ReadChunk`: `Receive`, `Closed`, `ReadError`). The buffer holds
positions of the message, so what an earlier read has left in it is told from what has just
arrived; `StartOfText` is the `strstr` for `<?xml`, `LeftToWrite` the arithmetic on
`received_bytes`, `GoesOn` the loop's condition, `Filtered` the loop that writes what is
printable, a byte at a time.

### DohXml, DohLogList, SortedLog, DohAuditList, DohAlertList and their MC modules

`DohXml` gives the nodes the libxml2 reader visits, with `get_tag_value` as the code calls
it. `DohLogList` is the list both tables keep, a heap of cells: `Chain` follows its links (a
recursive function, at most as far as there are cells), freeing it (`FreeHead`,
one pass a step), the walk to an entry's place (`Walk`), the
insertion (`LinkEntry`). `DohAuditList` and `DohAlertList` add the parse around it, a node a
step, with the flags of the source: `in_audit` is reset by some paths only; `in_log` and the
section flags are globals. Fields that are read alike are represented by one (`component`
for time, type and explain-text; `time` for user and description).

`posted` and `severity` of an alert and `remotehost` of an audit go through the local variable
`temp_value`, which is set to NULL after each of them but is not initialised (lines 1071 and 1726),
and `get_tag_value` leaves it alone where the tag is there without a text. `unset` says that it is
as the call found it. `ReadPosted`, `ReadSeverity` and `ReadHost` then take it for the NULL it may be;
`Crash` takes it for a pointer, which is read and freed, and after which nothing is said of the
program.

`SortedLog` is the table as its reader sees it. What the server may send is bounded by two
assumptions on the constants, `RecordAssumption` and `AlertAssumption`: records and alerts have
the fields the parse knows, with values that are texts or none.

### MessageStore, MCMessageStore

Writers and readers are threads; a step is one access to the file system or to the cache.
`PrepareDataFile` is `prepareDataFile` up to `exists()`, `OpenNew` the `FileWriter` that begins
the file (again, if another writer has begun it meanwhile), `WriteTitle` the flush of its title
at the beginning of the file, `AppendBlock` the flush of the message at its end. `Read` lists
the files, `IsCacheExist`, `NeedRefresh` (a file a turn), `LoadList` and `LoadMsgsById` (a file
a turn) run without the lock; `CacheRead` is one critical section of `cacheRWHandler`,
`CacheClear`, `CacheFill` and `CacheStamp` another. `Restart` is the end of the readers'
process, which leaves the files and loses the cache.

A message is one value; the parts the code splits it into are not told apart. A file fits into
one buffer, so a flush is one write, and a message is no shorter than the title, so a title
written late tears the first message (`Torn`) and no other. `lastModified` is rounded down to
`Granularity`. A thread sees the latest cache: the map is an ordinary `HashMap` read by
`isEmpty` without the lock, of which nothing more than old values is promised, and that is
covered by the reader lingering.

### CodeBits, EncryptorV1, EncryptorV2, EncryptorV3, RequestCode, MCRequestCode

`CodeBits` is what the tools share: bytes to bits and back, five-bit symbols, base32 as
libtomcrypt has it, dashes, `strlen`, the entangling of two bit arrays, and the XOR of counter
mode with a keystream that is a constant, since nothing of Blowfish or SHA-256 is the
repository's. `EncryptorV1` to `EncryptorV3` are what each version makes of it. `RequestCode` is
the processes: `Main` (`Encrypting`, `Decrypting`, `Mistaking`) the option and the key,
`GetRawCode`, `SetIv`, `PrintCode` the way of `-e`, `OpenCode` and `ShowRawCode` that of `-d`,
`Generate` the raw code generator; `Read` is the user, who has seen the result.

What a process reads without having written it is chosen by the step that reads it: `Leftovers`
for what follows a string without terminator, `Garbage` for the last byte of the IV of
versions 1 and 2 (`IvOnLeftover`). Reading a byte or two past an array is taken to give such a
byte and nothing worse.

### LinkList, NumberList, MCLinkList

Both programs in one module, told apart by `doubly`; a step is one turn of the menu. Memory is
a set of cells from which `malloc` takes any and to which `free` gives back, so that a dangling
pointer may come to point to a new node. `Walk`, `EndOf` and `Nodes` are the loops over the
list; `FreeLinkList`, `Built`, `HeadInserted`, `TailInserted` and `Deleted` what the functions
make of memory. A read through no node ends the program with a `fault`. `NumberList` is the
promise: a sequence of numbers, until one of the misuses it names.

## 4. Runs

Every run finishes within about three minutes with two workers. Some properties are
conjunctions of named parts: `CachesAreSound` is `TypeOK` and `FreshWasAnswered`,
`FileIsInOrder` is `TypeOK`, `WrittenInOrder` and `HeaderSkipped`, `MemoryIsSound` is `TypeOK`,
`ListIsSound`, `NothingElseLeaks` and, for alerts, `EntryIsThere`, `FillsLog` is `KeepsLog` and
`PopulateReturns`, `AnswersAreRight` is `TypeOK` and `NextIsNearest`, `CodesOpen` is `TypeOK` and
`OpensWhatWasClosed`, `ListInv` is `TypeOK` and `CountWithinList`, `FilesAreLogs` is `TypeOK` and
`KeepsLog`.

| Run | Checks | States | Shows |
|---|---|---|---|
| `cron_main` | OneExecutor, QueueDistinct, NeverEarly, AtMostThrice, KeepsSchedule, MeetsSchedule | 0.42 M | the program of `Main`: picker and executor keep the schedule |
| `cron_clients` | TypeOK, PollFindsJob, NoResurrection, OverdueMovesOn | 0.67 M | with two clients that create, edit and delete, bad triggers included |
| `crontab` | AnswersAreRight, SearchAdvances | 1.47 M | 18 triggers, all starts, two calls with two clock readings, or a date for the second |
| `crontab_ranges` | ListsKeepToRanges, violated | | a stepped field leaves its range |
| `doh_once` | SuccessAskedAll, FetchEnds | 0.73 M | the fetch of `main`, six groups, one fault |
| `doh_resident` | CachesAreSound, ShownIsLatest, NoForgottenSession, LeaksAreKnown | 1.61 M | two fetches, two groups, two faults, caches that expire |
| `doh_read` | FileIsInOrder, LongReadsAreEntire, LoopEnds | 0.34 M | every message in every split into reads |
| `doh_audit` | MemoryIsSound, AllRecordsListed, CrashesForAReason, KeepsLog, PopulateReturns | 0.33 M | two messages of up to three records, whole or broken off |
| `doh_alert` | MemoryIsSound, AllLogsListed, CrashesForAReason, FillsLog | 0.07 M | two messages of up to two alerts |
| `message_store` | FilesAreLogs, ReadsAStretch, MissesOnlyTheYoung, FailsOnlyAtCreation | 1.82 M | two writers, two readers, two files, a clock |
| `request_code` | CodesOpen, TellsUuidAndTime, OtherVersionIsRefused | 0.12 M | each tool prints a code, each is given it, whole or damaged |
| `link_list` | ListInv, KeepsTrack, IsNumberList | 0.04 M | every order of operations on three nodes, both programs |

**Bounds, and why they are enough.**

* `cron_main`: two crons and two places, as many as `Main` has crons; a two-minute period in
  a clock of five, so that a run time comes up, is missed and comes up again while a clone
  of it is queued; two thread objects, so that a second thread could exist. `AtMostThrice`
  is reached: three executions of one due time happen, four do not.
* `cron_clients`: two clients and two calls give every pair of concurrent operations, with
  the create of a second cron; one thread object, since `ExecutorIsAlone` proves for any
  number, with clients, that two are never in `run`. With fewer places than crons the picker
  can wait in `put` for ever before it starts the executor; the runs have two places, and
  `PutIsImmediate` proves that with enough places it never waits.
* `crontab`: a calendar of 2-minute hours, 3-hour days, 3-day weeks and two months, of which
  one has a third day in every second year only. Each kind of carry, a month without a day, a
  year without one and a week that crosses a month occur. Starts and clock: the last minute
  of the first year up to the middle of the third. The threshold is 2 years. Two calls on one
  parser, as a one time trigger gets them in `test/Main.java`.
* `doh_once`: one fault is enough to make each early return happen at each request;
  sessions expire at any moment besides. `doh_resident`: a cache lives two ticks of three, so
  it serves one fetch, and has expired for another; the two groups are one whose errors do
  not count as answers and one that is blanked.
* `doh_read`: headers of up to 2 and bodies of up to 4 symbols, reads of up to 6, a buffer of 9:
  reads may be shorter than, as long as and longer than header and declaration.
* `doh_audit`, `doh_alert`: keys that are equal, smaller and greater; values given, hollow and
  self-closed, for what goes through `temp_value` each of the three as the first of the message
  and after a text; four cells, so that a list has a front, a middle and an end. Messages break off
  at every node, and the second starts from what the first left.

* `message_store`: two writers that create the same file at once, or different ones, and two
  readers that replace the cache under each other; one message of each writer, since a second
  adds nothing to the race for the title; a clock of three with a granularity of two, so that a
  file is as old as, younger and older than the cache, and looks older than it is.
* `request_code`: UUIDs that share the first sixteen characters, or not, and one that is too
  short; times whose bytes are all nonzero, of which the first is zero, or the third, below
  2^31 as TLC's integers are; leftovers of up to four bytes, of which three make up for the
  shortest raw code; a keystream that depends on every byte of the IV and on both ends of the
  key; codes whole, without dashes, cut and with a mistake.
* `link_list`: three nodes give a front, a middle and an end, and a freed one to take again.

**Deadlock.** `cron_main` and `message_store` are checked for deadlock. The others may stop: threads die, fetches,
calls and messages run out, a parser fails.

**Fairness.** `CronScheduler`: weak fairness of the picker and of each executor thread, as the
JVM runs every started thread; the clock and the clients owe nothing. `DohClient`: weak
fairness of the process's own steps; `Send` stands for the peer's answer or its going away, so
`FetchEnds` leaves out a server that accepts and stays silent (no call has a timeout).
`DohReadLoop`: the peer goes on sending or closes. The tables: their one thread runs on.
`MessageStore`, `RequestCode` and `LinkList` make no promise about time. `CrontabParser` has no
fairness: its liveness is stated as `SearchAdvances`, each round being
at least a minute nearer to the end.

## 5. Proofs

Checked by TLAPS, for every value of the constants that satisfies the assumptions the
modules name. Each proof module EXTENDS the module it is about. The assumptions are those of
the modules: sizes and bounds are naturals, ids, sessions, cells and guids are told from the
values that mean "none", and what is said of them below. TLC evaluates each on every run.

| Module | Theorem | Says |
|---|---|---|
| `CronSchedulerProofs` | `TypeCorrect` | `Spec => []TypeOK` |
| | `ExecutorIsAlone` | `Spec => []OneExecutor` |
| | `PollIsNeverNull` | `Spec => []PollFindsJob` |
| | `QueueIsDistinct` | `Spec => []QueueDistinct` |
| | `PutIsImmediate` | `Spec => []PutNeverWaits` |
| | `NoEarlyExecution` | `Spec => []NeverEarly` |
| | `DeletedForGood` | `Spec => NoResurrection`, an action property |
| | `NeverMoreThanThrice` | `Spec => []AtMostThrice` when no client calls the store |
| | `ScheduleIsKept` | `Spec => KeepsSchedule` when no client calls the store |
| `DohClientProofs` | `TypeCorrect` | types, answers and what a request holds |
| | `NoMoreLeaks` | `Spec => []LeaksAreKnown` |
| | `ShownFromLatest` | `Spec => []ShownIsLatest` |
| | `FreshCachesAnswered` | `Spec => []CachesAreSound` |
| | `SessionsRemembered` | `Spec => []NoForgottenSession`, which excepts ids that never arrived or were lost with the process |
| | `SuccessMeansAsked` | `Spec => []SuccessAskedAll` |
| `MessageStoreProofs` | `TypeCorrect` | types, and what a file is made of |
| | `FilesKeepTheirLogs` | `Spec => []FilesAreLogs` |
| | `ReadsAreStretches` | `Spec => []ReadsAStretch` |
| | `ReadsMissOnlyTheYoung` | `Spec => []MissesOnlyTheYoung` |
| | `ReadsFailOnlyAtCreation` | `Spec => []FailsOnlyAtCreation` |
| `DohReadLoopProofs` | `InOrder` | `Spec => []FileIsInOrder`, with no header if the declaration comes with the first read |
| | `Entirety` | `Spec => []LongReadsAreEntire`: that, and each later read, the last included, covers header and declaration |
| `DohLogListProofs` | `ChainIs`, `LinkHeapStep` and others | lemmas on lists, shared by the tables |
| `DohAuditListProofs` | `TableIsAList` | `Spec => []Inv`, the inductive invariant |
| | `AuditMemory` | `Spec => []MemoryIsSound` |
| | `AuditLog` | `Spec => KeepsLog`: the table implements `SortedLog` |
| | `ParseIsSomewhere` | `Spec => []ParseInv`, the inductive invariant of the parse |
| | `AuditCrashes` | `Spec => []CrashesForAReason` |
| | `AuditListed` | `Spec => []AllRecordsListed` |
| `DohAlertListProofs` | `TableIsAList`, `AlertMemory`, `AlertLog` | the same for the alert table |
| | `ParseIsSomewhere` | `Spec => []ParseInv`, the inductive invariant of the parse |
| | `AlertListed` | `Spec => []AllLogsListed` |
| | `AlertCrashes` | `Spec => []CrashesForAReason` |
| `LinkListProofs` | `InductiveInvariant` | `Spec => []IInv` |
| | `ListInvariant` | `Spec => []ListInv` |
| | `TracksNodes` | `Spec => KeepsTrack` |
| | `ImplementsNumberList` | `Spec => IsNumberList`: both programs implement `NumberList` |

### The scheduler

In layers, each using those before it:

* `TypeInv` = `TypeOK` and `Shape`. Types alone are not inductive: an iterator reads
  `crons[cursor]`, so `Shape` says that an iterator whose expected count is still the list's
  (`Sound`) is inside the list. It also says what `job`, `draft` and `snapshot` hold where
  they are read.
* `ExecutorInv`: `OneExecutor` and `PollFindsJob` together. Only the executor polls, so with
  one of them what `isEmpty` saw is still there at the poll.
* `QueueInv`: `QueueDistinct` and, at `put`, that the cron to be put is not in the queue: the
  executor can only take away between the test and the put. `PutIsImmediate` follows by
  counting: distinct ids, one more of them outside the queue.
* `DueInv`: `NeverEarly` needs that everything queued was overdue when it was tested, and that
  `pickTime` is never ahead of the clock.
* `DeletedForGood`: every write to the list either takes away, replaces a cron that is there by
  one of the same id, or adds one whose id was given out just then.
* `MainInv` and `TimeInv`, without clients: the store holds the crons of `Main`, each run time
  in it follows a past moment, and the one an executor is about to store follows a moment no
  earlier than that of the one it replaces. Hence `WorkerUpdate` is a `Run` of the abstract
  schedule or, if a second execution gives the same time, a stutter, and every other step is
  a `Tick` or a stutter. `NextAssumption` (the next time is later than the time it is asked
  from, and does not change until it comes) is what this rests on.
* `ThriceInv` counts executions of a due time against the copies that may still carry it: while
  the store has it, none was executed, or one by an executor still on its way to the update
  (`Busy`); after that one entry of the queue and one clone of the picker (`CloneInv`: a scan
  has one of each cron) can be left.

### The DOH client

* `TypeInv`: types, that an answer is one of those its request can get (`Answers`), and
  `Resourceful`, which counts each open resource as what past failures have left and what the
  request under way holds (`Held`). `LeaksAreKnown` is the case between requests.
* `ShownInv` adds to `ShownIsLatest` that the group whose figures are never blanked shows nothing.
* `CacheInv`: `FreshWasAnswered`, that no cache has a time ahead of the clock, and that the group
  being asked for is not fresh: only then can a parse not have to account for an old value.
* `SessionInv`: `NoForgottenSession` is not inductive, since the process forgets its session at
  several places. `Unheeded` lists them: logging out, logging in, after an answer that demanded
  a login, while an anonymous cookie is on its way. There the server has ended the session.
* `AskedInv`: during a fetch, what was asked is the part of the sequence up to `at`.

### The message store

* `TypeInv` includes `FileInv`: each file is at most a title, at most one torn message, and
  messages (`Headed`). A writer's step leaves of the messages of a file (`Intact`) all, all but the
  first, none, or one more (`LogKept`, `LogCut`, `LogGrown`), and `FilesAreLogs` follows: they
  are always a suffix of what was appended, which begins no later than the last creation.
* `StretchInv`: `ReadsAStretch` of the cache and of what each reader has loaded, as well as of
  what it answers; a stretch stays one when the log grows.
* `ControlInv` is what the lock gives: between `clear` and `stamp` the cache is the filler's.
  `OnceInv`: a message that a file has lost does not come back.
* `MissInv`: wherever a read has come to, a message that was there when it began is in what
  was loaded, or will be loaded, or is gone from the file, or the cache claims to be as young as
  the file was, rounded down. `Reached` says which, for each step of the read.
* `FailInv`: a file with a message and no writer about to begin it stays so (`Settled`).

### The read loop

`Inv` is `TypeOK`, `WrittenInOrder` and `HeaderSkipped`, with three parts more. `NothingRead`: before
the first read nothing is in the buffer. `DeclarationArrived`: after a first read that holds it,
the declaration has arrived. `WrittenSoFar`: while every read is long enough, the file is what has
arrived after the header, and the declaration is in the buffer only where the first read has left
it, so that no later read finds it; that is why the loop does not end early. `ReadIs` says of one
read, whatever it brings, what it writes and leaves; the rest are consequences.

`Filtered` is a recursive function. Its equations come from `RecursionExists`, and what it
computes by `BoundedInduction`, induction stated of sets and functions, as in `DohLogListProofs`: of a run of the message it keeps the order, of two runs that
follow each other it gives the one after the other.

### The tables

`Inv` of both: the types, and that there is a sequence `cs` of distinct cells that is the list
(`IsList`), where the allocated cells are those of `cs`, the entry in the making and the lost
ones, and no two of these meet (`Heap`). On the way to an entry's place, `loop` and `prev` are
neighbours in `cs` and everything before has a key that is not greater (`Place`). Each step keeps
some such sequence, and from the old to the new is a `LogStep`: the same records, without the
first, or with the entry after its equals (`Kept`). So the invariant and the refinement of
`SortedLog` are proved together, a lemma per action (`KeptBy...`).

The alert table needs more for `EntryIsThere`, since flags of an earlier call are met: an answer has
no field of a log before a log (`Answers`, `Logged`), and while there is no entry the table is empty
and, if the flag says that the parse is inside a log, none was met. The assumptions
`RecordAssumption` and `AlertAssumption` say what records, alerts and error texts consist of;
nothing bounds their number or order, and messages break off anywhere.

What the audit table lists of an answer takes a second invariant, `ParseInv`, over the first. An
answer is laid out by lemmas: where in it the n-th audit begins (`Begin`), where its i-th field
ends (`FieldAt`), and which nodes are there (`AuditPlaces`, `FieldPlaces`). Unless a record before
the last is of no use (`Usable`), the parse is at one of the places `Where` lists, each with what is
then true of the table and of the entry: before the n-th audit the table sorts the first n - 1
records (`SortsFirst`), within it the entry holds what the fields read so far give (`ReadSoFar`).
A lemma leads from each place to the next (`FromBetween`, `FromField`, ...), and to two more: where
the message breaks off, and somewhere past a last record of no use. No place is a crash unless a
remotehost is the first of the message and hollow (`Mishap`), and the
one at the end of the message is a table that sorts every record. That linking an entry keeps the
table sorted by key and, of equal keys, by the message is `SortsInserted` of `DohLogListProofs`.

The alert table's `ParseInv` goes the same way, one level deeper. `AlertAt`, `LogAt`, `SectionAt`
and `EndAt` say where in an answer an alert, a log of it, its section and the section's end are,
and `Where` lists the places: before an alert (`Outside`), at its trap, between its logs
(`Between`), in a log (`InLogOf`), at the link (`Linking`), past the answer. A log is linked
before its alert is over, so the table sorts what was told of the alerts before, complete, and of
this alert's logs without what comes last (`ToldSoFar`, of `Partial` entries). `found` holds what
the parse has met of the alert (`FoundBy`); leaving the alert writes its source into the listed
entries that have its id and none. Entries of earlier alerts have one if they have an id
(`Sourced`), even where two alerts share an id, so just this alert's are completed (`Completed`), and
`ToldSoFar` becomes `Told`: giving cells fields that are not the key changes no order
(`SortsChanged`). The places
of severity and posted say besides whether the message has opened one before, which is when
`temp_value` is no longer `unset`; hence `AlertCrashes`. All of it holds from a `clean` start, that is, with no flag left by a message that
broke off inside a log or a section; without it the first node of the next answer may already be read the wrong way round.

### The linked lists

A list is a `Chain`: a sequence of different allocated nodes, each with a link to the next and the
last with Null. The loops of the code are `Walk`, a recursive function, and two lemmas tie them to
chains: a walk over a chain ends and passes just its nodes (`ChainIsWalked`, with `ChainFits`: it is no
longer than there are cells), and what is walked to its end is a chain (`WalkedIsChain`: pointers
that repeat would go round for ever). So the memory holds at most one list (`OneList`), and what an
operation does is said of sequences: `BuiltLists`, `HeadInserts`, `TailInserts` and `Deletes` say
which sequence is a list of the new memory, and with which numbers.

`IInv` is `TypeOK`, `CountWithinList` and `BackLinks`: in the doubly linked program, as long as nothing
was deleted, each node of a list links back to the one before. `DescShow` needs that to be the
`Reverse` that `NumberList` promises (`BackIsChain`); a deletion does not mend the links backwards, which
is why it ends there. Nor may a memory without a list come to hold one by an insertion or a
deletion, or the list `NumberList` no longer speaks of would be back: `HeadInserts` and `WasList` go from
the new list to an old one, and the head left behind by deleting the first node is never one
(`FirstIsLost`). Each operation then keeps `IInv`, loses no node but where `KeepsTrack` says so, and
is a step of `NumberList`, shown together (`Kept`). Of the constants it is assumed that there are finitely
many cells (`CellAssumption`) and that numbers are integers (`InputAssumption`).

### Only model-checked

* Liveness, which the prover does not reach: `MeetsSchedule`, `OverdueMovesOn`, `FetchEnds`,
  `LoopEnds`, `PopulateReturns` and with it the second half of `FillsLog`.
* `AnswersAreRight` and `SearchAdvances`: the parser is recursive (`FindDate`), by operators that
  take the fields apart, and a module with a `RECURSIVE` operator is out of the prover's reach.
* `CodesOpen`, `TellsUuidAndTime` and `OtherVersionIsRefused`: they rest on what the codecs compute
  for inputs of any length. Not attempted, see the plan of section 2.

## 6. Findings

`PROJECT.json` quotes the lines. The first is a run that TLC finds violated; the others are properties
that hold and say what the code does, where a comment says something else.

* `crontab_ranges`: a field x-y/z, once updated, starts at a value of its stamp, in the range
  or not; the hour and minute stamps never move, as the arguments of `hasReachedDest...` are
  swapped there. The hour field `0-1/2` parsed at hour 2 fires at hour 2; `8-18/2` parsed at
  hour 21 gives an empty list and an `IndexOutOfBoundsException`.
* `doh_alert`, `CrashesForAReason`: the comment of lines 1577-1583 knows that a new DOH sends hollow
  tags, that the SNMP agent crashed on one, and says that `get_tag_value` leaves NULL there. It
  leaves what was there. For `severity` and `posted`, and `remotehost` of an audit, that is an
  uninitialised `temp_value`, if the tag is the first of the message to be read through it. The
  property says that no other answer crashes the parse.
* `request_code`, `TellsUuidAndTime`: `encryptor_tool_v3.c:222` says "Use first 9 characters of uuid";
  `use_first_n` is 6 there, and the seventh byte is already one of the time. The comment is that of
  version 1, where nine are used. The property has 9 for version 1 and 6 for version 3.

Met while modelling, contained in the models, without a run of their own:

* After an exception in `execute`, `t` stays set: `start()` prints "no need to create another
  thread" (`CronExecutor.java:46`) for ever and nothing is executed again. `OverdueMovesOn`
  excepts a dead thread.
* A read shorter than what precedes the message finds the old `<?xml` in the buffer again and
  ends the loop early, and loses its own bytes, also if it is the last (line 2498; the comment at
  2442 speaks of the whole answer):
  `LongReadsAreEntire` has the condition under which it does not.
* A record without an index is freed but `in_audit` stays set (1835); the next audit tag reads
  through a null pointer, where the comment at 1821 only means to leave the record out:
  `CrashesForAReason`.
* A due time may be executed again after a late clone (up to three times), and, as the run
  time is then computed from the later moment, a slot in between may be passed over. So the
  schedule promises that an overdue cron moves on, not that every slot is run.
* An edited trigger does not change the next run time until the next execution, and an edit
  made between queueing and execution is overwritten by the executor's clone.
* `getAll` and `getById` can miss the last element after a removal without noticing.
* The status of a retry after login is passed over; `main` then reports success. An error
  element that breaks off counts as an answer. `fopen`'s NULL is tested with `< 0`.
* Four early returns leave something open (`LeaksAreKnown` names them).
* A `<day></day>` of an audit record swallows the tags after it, as line 1969 passes `time`.
* After an alert answer that broke off inside a log, the flags that are globals make the next
  answer be read the wrong way round (`AllLogsListed` therefore asks for `clean`); in a
  process that fetches once this does not come up.
* A stepped day field after the 29th to 31st: the date handed to `updateFieldList` still has the
  old day, lies in the month after a short one, and the stamp is moved past the month.
* A field of several ranges keeps only the last range's step and, once updated, its list.
* A trigger whose days of month and week never meet within the threshold is accepted, and
  `next()` throws. A one time trigger whose year has passed gives a date in a later year.
* Two writers that find no file both begin it: what the first has appended meanwhile is lost, and
  a title that comes late overwrites the beginning of a message (`FilesAreLogs`). A reader that
  meets a file with its title only throws (`FailsOnlyAtCreation`).
* The cache of messages is keyed by guid but has one age: after a read of one guid, a read of all
  gives that guid's messages only, until some file is younger (`MissesOnlyTheYoung`).
* The usage of version 3 decrypts a code of version 1, and is refused by the length; the usage of
  version 1 shows groups of six symbols where the code prints four (`OtherVersionIsRefused`).
* `memset(out, 0, sizeof(out) - 1)` clears seven bytes: the eighth byte of the IV of versions 1
  and 2 is what memory held, or-ed (`SameIv` in `CodesOpen`). A time with a zero byte ends the raw
  code early. The generator's terminator goes one past its buffer.
* Deleting the first node leaves the head where it was, on a node that is freed; a deletion in the
  doubly linked list leaves the next node's link backwards; a node inserted at the end is not
  counted, so neither printed of an uncounted list nor freed (`KeepsTrack`, `NumberList`).

## 7. Not modelled

Within what is modelled: the file `/tmp/snmp/tempxml` shared by two processes; timeouts, as there
are none; summer time; the text of a trigger, request or header; `isValidDateForOneTime`, which
only compares an answer of `next()`; a `malloc` that fails; failures inside libtomcrypt; files
longer than a buffer in the message store. The five setters of `apply`'s update are one step: that
an unlocked `getAll` may clone a cron between two of them, a new trigger with an old run time, is
not in `CronScheduler` (the run time of such a clone is one the cron had, and the executor computes the
next from the clone's trigger). Of `temp_value`, a stale pointer that happens to be readable and
may be freed is not told from one that crashes. In version 3 the length of the template is taken
from a string without a terminator (430, 516); only its first 44 bits are used, all of them the
template's own, so that `EntangleIv` has no leftover.

Of the repository: `TaskManager` (`java/ThreadPoolDemo`), the log machine and the employee cache
(Ruby) have state and threads, and are left for later as they are demonstrations of one
mechanism each; their hazards are listed. The earlier `TaskScheduler` has the same store, picker
and executor as the advanced one. The key codecs in Java are the bits of `CodeBits` again. The
headers under `src/c/encryption/headers` are libtomcrypt's. Exercises, framework demos, .NET
services and web servers are pure functions, calls of a library, or handlers without state of
their own. `PROJECT.json` lists each with its reason.

---------------------------- MODULE CronScheduler ----------------------------
(***************************************************************************)
(* The task scheduler of java/TaskSchedulerAdvance: the StoreManager that  *)
(* keeps the crons, the CronPicker thread that scans it, the CronExecutor  *)
(* with its bounded queue and on-demand thread, and callers of the store.  *)
(*                                                                         *)
(* Every access to a shared object is a step of its own: the unlocked      *)
(* iterations of getAll, print and getById advance one element at a time   *)
(* over the live ArrayList, so that a structural change under them is seen *)
(* the way the list's modCount check sees it.                              *)
(***************************************************************************)
EXTENDS Integers, Sequences, FiniteSets

CONSTANTS
    Ids,            \* the ids UUID.randomUUID can return
    MainIds,        \* the ids, in order, of the crons Main.mockup creates
    Workers,        \* the Thread objects CronExecutor.start can create
    NoThread,       \* the null of CronExecutor.t
    QueueSize,      \* CRON_QUEUE_SIZE
    Triggers,       \* the trigger strings in use
    EveryMinute,    \* the trigger "* * * * *" of Main.mockup
    BadTriggers,    \* the triggers StoreManager.setNextRunTime throws on
    NextRunTime(_, _), \* CrontabParser.next: trigger, time |-> next run time
    Clients,        \* threads that call the store's public operations
    ClientOps,      \* the operations they call, among create, update, delete
    MaxTime,        \* bound on the clock
    MaxEdits        \* bound on the calls of the clients

Times == 0..MaxTime

ASSUME IdAssumption == /\ MainIds \in Seq(Ids)
                       /\ \A i, j \in DOMAIN MainIds :
                              MainIds[i] = MainIds[j] => i = j

ASSUME ThreadAssumption == NoThread \notin Workers

ASSUME BoundAssumption == /\ QueueSize \in Nat \ {0}
                          /\ MaxTime \in Nat
                          /\ MaxEdits \in Nat

ASSUME TriggerAssumption == /\ BadTriggers \subseteq Triggers
                            /\ EveryMinute \in Triggers \ BadTriggers
                            /\ ClientOps \subseteq {"create", "update", "delete"}

\* The promise of CrontabParser.next (lines 280-298): a run time strictly later
\* than the given time, and for a trigger without steps, as the one of
\* Main.mockup, the nearest.
ASSUME NextAssumption ==
    \A tr \in Triggers \ BadTriggers, a \in Times :
        /\ NextRunTime(tr, a) \in Nat
        /\ NextRunTime(tr, a) > a
        /\ tr = EveryMinute =>
              \A b \in Times : a <= b /\ b < NextRunTime(tr, a)
                                  => NextRunTime(tr, b) = NextRunTime(tr, a)

VARIABLES
    now,        \* the system clock
    crons,      \* StoreManager.crons, a list of CronModel
    modCount,   \* its count of structural modifications
    pickPc,     \* where CronPicker.run is
    pickIter,   \* the picker's iterator over the live list
    snapshot,   \* the clones getAll has made, those still to be examined
    pickTime,   \* currentTime of pickExpiredCrons
    queue,      \* CronExecutor.queue
    t,          \* CronExecutor.t
    pc,         \* where each executor thread is in CronExecutor.run
    job,        \* the CronModel each executor thread has polled
    workIter,   \* its iterator in StoreManager.getById
    clientPc,   \* where each client is
    draft,      \* the CronModel (or the id) each client passes to the store
    edits,      \* calls the clients have made
    born,       \* history: the ids create has given out
    runs        \* history: for each cron, the due times it was executed for

storeVars  == <<crons, modCount>>
pickVars   == <<pickPc, pickIter, snapshot, pickTime>>
workVars   == <<pc, job, workIter, runs>>
clientVars == <<clientPc, draft, edits, born>>
vars == <<now, storeVars, pickVars, queue, t, workVars, clientVars>>

-----------------------------------------------------------------------------
(* CronModel: what of it decides what the threads do.                      *)

CronModel == [id : Ids, trigger : Triggers, next : Nat]

NewCron(i, tr, time) ==
    [id |-> i, trigger |-> tr, next |-> NextRunTime(tr, time)]

StoredIds(list) == {list[n].id : n \in DOMAIN list}

(* java.util.ArrayList's iterator, as the for-each loops use it.           *)

Iterators == [cursor : Nat, expected : Nat]
FreshIterator == [cursor |-> 1, expected |-> modCount]
HasNext(it) == it.cursor # Len(crons) + 1
Comodified(it) == it.expected # modCount
Advance(it) == [it EXCEPT !.cursor = @ + 1]

-----------------------------------------------------------------------------
Init ==
    /\ now = 0
    /\ crons = [n \in DOMAIN MainIds |-> NewCron(MainIds[n], EveryMinute, 0)]
    /\ modCount = Len(MainIds)
    /\ pickPc = "scan"
    /\ pickIter = [cursor |-> 1, expected |-> 0]
    /\ snapshot = <<>>
    /\ pickTime = 0
    /\ queue = <<>>
    /\ t = NoThread
    /\ pc = [w \in Workers |-> "off"]
    /\ job = [w \in Workers |-> <<>>]
    /\ workIter = [w \in Workers |-> [cursor |-> 1, expected |-> 0]]
    /\ clientPc = [c \in Clients |-> "idle"]
    /\ draft = [c \in Clients |-> <<>>]
    /\ edits = 0
    /\ born = {MainIds[n] : n \in DOMAIN MainIds}
    /\ runs = [i \in Ids |-> <<>>]

Tick ==
    /\ now < MaxTime
    /\ now' = now + 1
    /\ UNCHANGED <<storeVars, pickVars, queue, t, workVars, clientVars>>

-----------------------------------------------------------------------------
(* StoreManager.apply, the one synchronized method: the list each of its   *)
(* three branches leaves.                                                  *)

Added(list, c) == Append(list, c)

(* Variants with a bug, here and below: each breaks one property of a run. *)

\* The update forgets the next run time altogether.
UpdatedWithoutNext(list, c) ==
    [n \in DOMAIN list |-> IF list[n].id = c.id
                           THEN [id |-> c.id, trigger |-> c.trigger] ELSE list[n]]

\* The update copies everything but the next run time.
UpdatedKeepingNext(list, c) ==
    [n \in DOMAIN list |-> IF list[n].id = c.id
                           THEN [c EXCEPT !.next = list[n].next] ELSE list[n]]

\* The update adds a cron it does not find.
UpdatedOrAdded(list, c) ==
    IF c.id \in StoredIds(list)
    THEN [n \in DOMAIN list |-> IF list[n].id = c.id THEN c ELSE list[n]]
    ELSE Append(list, c)


Updated(list, c) ==
    [n \in DOMAIN list |-> IF list[n].id = c.id THEN c ELSE list[n]]

Position(list, i) == CHOOSE n \in DOMAIN list : list[n].id = i

Deleted(list, i) ==
    IF i \in StoredIds(list)
    THEN [n \in 1..(Len(list) - 1) |->
             IF n < Position(list, i) THEN list[n] ELSE list[n + 1]]
    ELSE list

-----------------------------------------------------------------------------
(* The picker: while (true) { pickExpiredCrons(); Thread.sleep(5000); }.   *)
(* A ConcurrentModificationException is not caught and ends its thread.    *)

PickerScan ==
    /\ pickPc = "scan"
    /\ pickPc' = "getAll"
    /\ pickIter' = FreshIterator
    /\ snapshot' = <<>>
    /\ UNCHANGED <<now, storeVars, pickTime, queue, t, workVars, clientVars>>

\* One turn of getAll's loop: hasNext, next, clone, add.
PickerGetAll ==
    /\ pickPc = "getAll"
    /\ \/ /\ ~HasNext(pickIter)
          /\ pickPc' = "print"
          /\ pickIter' = FreshIterator
          /\ UNCHANGED snapshot
       \/ /\ HasNext(pickIter) /\ Comodified(pickIter)
          /\ pickPc' = "dead"
          /\ UNCHANGED <<pickIter, snapshot>>
       \/ /\ HasNext(pickIter) /\ ~Comodified(pickIter)
          /\ snapshot' = Append(snapshot, crons[pickIter.cursor])
          /\ pickIter' = Advance(pickIter)
          /\ UNCHANGED pickPc
    /\ UNCHANGED <<now, storeVars, pickTime, queue, t, workVars, clientVars>>

\* One turn of StoreManager.print's loop over the live list; at its end the
\* picker reads the clock.
PickerPrint ==
    /\ pickPc = "print"
    /\ \/ /\ ~HasNext(pickIter)
          /\ pickPc' = "check"
          /\ pickTime' = now
          /\ UNCHANGED pickIter
       \/ /\ HasNext(pickIter) /\ Comodified(pickIter)
          /\ pickPc' = "dead"
          /\ UNCHANGED <<pickIter, pickTime>>
       \/ /\ HasNext(pickIter) /\ ~Comodified(pickIter)
          /\ pickIter' = Advance(pickIter)
          /\ UNCHANGED <<pickPc, pickTime>>
    /\ UNCHANGED <<now, storeVars, snapshot, queue, t, workVars, clientVars>>

\* Only the head of the queue is compared.
IsAtHead(i) == queue # <<>> /\ Head(queue).id = i

IsInQueue(i) == i \in StoredIds(queue)

\* <= for <.
ExpiredOrDue(c) == c.next <= pickTime

Expired(c) == c.next < pickTime

\* The test of one clone of the snapshot, or the end of the loop over it.
PickerCheck ==
    /\ pickPc = "check"
    /\ \/ /\ snapshot = <<>>
          /\ pickPc' = "start"
          /\ UNCHANGED snapshot
       \/ /\ snapshot # <<>>
          /\ Expired(Head(snapshot)) /\ ~IsInQueue(Head(snapshot).id)
          /\ pickPc' = "put"
          /\ UNCHANGED snapshot
       \/ /\ snapshot # <<>>
          /\ ~Expired(Head(snapshot)) \/ IsInQueue(Head(snapshot).id)
          /\ snapshot' = Tail(snapshot)
          /\ UNCHANGED pickPc
    /\ UNCHANGED <<now, storeVars, pickIter, pickTime, queue, t, workVars,
                   clientVars>>

\* CronExecutor.push: put waits for room in the queue.
PickerPut ==
    /\ pickPc = "put"
    /\ Len(queue) < QueueSize
    /\ queue' = Append(queue, Head(snapshot))
    /\ snapshot' = Tail(snapshot)
    /\ pickPc' = "check"
    /\ UNCHANGED <<now, storeVars, pickIter, pickTime, t, workVars, clientVars>>

\* A thread is created whether or not t is null.
PickerStartAlways ==
    /\ pickPc = "start"
    /\ \E w \in Workers :
          /\ pc[w] = "off"
          /\ t' = w
          /\ pc' = [pc EXCEPT ![w] = "loop"]
    /\ pickPc' = "scan"
    /\ UNCHANGED <<now, storeVars, pickIter, snapshot, pickTime, queue, job,
                   workIter, runs, clientVars>>

\* CronExecutor.start: a thread is created only when t is null.
PickerStart ==
    /\ pickPc = "start"
    /\ \/ /\ t = NoThread
          /\ \E w \in Workers :
                /\ pc[w] = "off"
                /\ t' = w
                /\ pc' = [pc EXCEPT ![w] = "loop"]
       \/ /\ t # NoThread
          /\ UNCHANGED <<t, pc>>
    /\ pickPc' = "scan"
    /\ UNCHANGED <<now, storeVars, pickIter, snapshot, pickTime, queue, job,
                   workIter, runs, clientVars>>

-----------------------------------------------------------------------------
(* An executor thread: while (!queue.isEmpty()) execute(); t = null.  An   *)
(* exception thrown in execute is not caught and ends the thread before    *)
(* it clears t.                                                            *)

\* do { execute(); } while (...): the queue is not looked at first.
WorkerLoopBlind(w) ==
    /\ pc[w] = "loop"
    /\ pc' = [pc EXCEPT ![w] = "poll"]
    /\ UNCHANGED <<now, storeVars, pickVars, queue, t, job, workIter, runs,
                   clientVars>>

WorkerLoop(w) ==
    /\ pc[w] = "loop"
    /\ pc' = [pc EXCEPT ![w] = IF queue = <<>> THEN "clear" ELSE "poll"]
    /\ UNCHANGED <<now, storeVars, pickVars, queue, t, job, workIter, runs,
                   clientVars>>

\* After its 6 seconds of sleep the thread polls; poll returns null on an
\* empty queue, and cron.getId() then throws.
WorkerPoll(w) ==
    /\ pc[w] = "poll"
    /\ \/ /\ queue = <<>>
          /\ pc' = [pc EXCEPT ![w] = "dead"]
          /\ UNCHANGED <<queue, job, runs>>
       \/ /\ queue # <<>>
          /\ queue' = Tail(queue)
          /\ job' = [job EXCEPT ![w] = Head(queue)]
          /\ runs' = [runs EXCEPT ![Head(queue).id] =
                          Append(@, Head(queue).next)]
          /\ pc' = [pc EXCEPT ![w] = "setNext"]
    /\ UNCHANGED <<now, storeVars, pickVars, t, workIter, clientVars>>

\* The run time after next.
WorkerSetNextTwice(w) ==
    /\ pc[w] = "setNext"
    /\ LET Following(time) == NextRunTime(job[w].trigger, time) IN
           job' = [job EXCEPT ![w].next = Following(Following(now))]
    /\ workIter' = [workIter EXCEPT ![w] = FreshIterator]
    /\ pc' = [pc EXCEPT ![w] = "getById"]
    /\ UNCHANGED <<now, storeVars, pickVars, queue, t, runs, clientVars>>

\* StoreManager.setNextRunTime on the polled clone, then the start of
\* update's getById.
WorkerSetNext(w) ==
    /\ pc[w] = "setNext"
    /\ \/ /\ job[w].trigger \in BadTriggers
          /\ pc' = [pc EXCEPT ![w] = "dead"]
          /\ UNCHANGED <<job, workIter>>
       \/ /\ job[w].trigger \notin BadTriggers
          /\ job' = [job EXCEPT ![w].next = NextRunTime(job[w].trigger, now)]
          /\ workIter' = [workIter EXCEPT ![w] = FreshIterator]
          /\ pc' = [pc EXCEPT ![w] = "getById"]
    /\ UNCHANGED <<now, storeVars, pickVars, queue, t, runs, clientVars>>

\* One turn of getById's loop; update throws when it found nothing.
WorkerGetById(w) ==
    /\ pc[w] = "getById"
    /\ \/ /\ ~HasNext(workIter[w]) \/ Comodified(workIter[w])
          /\ pc' = [pc EXCEPT ![w] = "dead"]
          /\ UNCHANGED workIter
       \/ /\ HasNext(workIter[w]) /\ ~Comodified(workIter[w])
          /\ IF crons[workIter[w].cursor].id = job[w].id
             THEN pc' = [pc EXCEPT ![w] = "update"] /\ UNCHANGED workIter
             ELSE workIter' = [workIter EXCEPT ![w] = Advance(@)]
                  /\ UNCHANGED pc
    /\ UNCHANGED <<now, storeVars, pickVars, queue, t, job, runs, clientVars>>

WorkerUpdate(w) ==
    /\ pc[w] = "update"
    /\ crons' = Updated(crons, job[w])
    /\ pc' = [pc EXCEPT ![w] = "loop"]
    /\ UNCHANGED <<now, modCount, pickVars, queue, t, job, workIter, runs,
                   clientVars>>

\* The thread ends without clearing t.
WorkerEnd(w) ==
    /\ pc[w] = "clear"
    /\ pc' = [pc EXCEPT ![w] = "off"]
    /\ UNCHANGED <<now, storeVars, pickVars, queue, t, job, workIter, runs,
                   clientVars>>

WorkerClear(w) ==
    /\ pc[w] = "clear"
    /\ t' = NoThread
    /\ pc' = [pc EXCEPT ![w] = "off"]
    /\ UNCHANGED <<now, storeVars, pickVars, queue, job, workIter, runs,
                   clientVars>>

-----------------------------------------------------------------------------
(* Clients of the store. A call that throws leaves its client idle again.  *)

Call(op) == op \in ClientOps /\ edits < MaxEdits /\ edits' = edits + 1

Stored(i) == i \in StoredIds(crons)

GetById(i) == crons[Position(crons, i)]

\* StoreManager.create up to apply: a new id and, unless the trigger makes
\* it throw, the first run time.
ClientCreate(c) ==
    /\ clientPc[c] = "idle"
    /\ Call("create")
    /\ \E i \in Ids \ born, tr \in Triggers \ BadTriggers :
          /\ draft' = [draft EXCEPT ![c] = NewCron(i, tr, now)]
          /\ born' = born \cup {i}
    /\ clientPc' = [clientPc EXCEPT ![c] = "add"]
    /\ UNCHANGED <<now, storeVars, pickVars, queue, t, workVars>>

\* A client gets a clone with getById and edits its trigger, which nothing
\* validates.
ClientEdit(c) ==
    /\ clientPc[c] = "idle"
    /\ Call("update")
    /\ \E i \in StoredIds(crons), tr \in Triggers :
          draft' = [draft EXCEPT ![c] = [GetById(i) EXCEPT !.trigger = tr]]
    /\ clientPc' = [clientPc EXCEPT ![c] = "update"]
    /\ UNCHANGED <<now, storeVars, pickVars, queue, t, workVars, born>>

\* StoreManager.update up to apply.
ClientUpdate(c) ==
    /\ clientPc[c] = "update"
    /\ IF Stored(draft[c].id)
       THEN clientPc' = [clientPc EXCEPT ![c] = "set"] /\ UNCHANGED draft
       ELSE /\ clientPc' = [clientPc EXCEPT ![c] = "idle"]
            /\ draft' = [draft EXCEPT ![c] = <<>>]
    /\ UNCHANGED <<now, storeVars, pickVars, queue, t, workVars, edits, born>>

\* StoreManager.delete up to apply.
ClientDelete(c) ==
    /\ clientPc[c] = "idle"
    /\ Call("delete")
    /\ \E i \in StoredIds(crons) : draft' = [draft EXCEPT ![c] = GetById(i)]
    /\ clientPc' = [clientPc EXCEPT ![c] = "remove"]
    /\ UNCHANGED <<now, storeVars, pickVars, queue, t, workVars, born>>

\* The call of apply that ends create, update or delete, and with it the life
\* of the cron passed. Only add, and a remove that finds its cron, are
\* structural.
ClientApply(c) ==
    /\ \/ /\ clientPc[c] = "add"
          /\ crons' = Added(crons, draft[c])
          /\ modCount' = modCount + 1
       \/ /\ clientPc[c] = "set"
          /\ crons' = Updated(crons, draft[c])
          /\ UNCHANGED modCount
       \/ /\ clientPc[c] = "remove"
          /\ crons' = Deleted(crons, draft[c].id)
          /\ modCount' = IF Stored(draft[c].id) THEN modCount + 1 ELSE modCount
    /\ clientPc' = [clientPc EXCEPT ![c] = "idle"]
    /\ draft' = [draft EXCEPT ![c] = <<>>]
    /\ UNCHANGED <<now, pickVars, queue, t, workVars, edits, born>>

-----------------------------------------------------------------------------
Picker == \/ PickerScan \/ PickerGetAll \/ PickerPrint
          \/ PickerCheck \/ PickerPut \/ PickerStart

Worker(w) == \/ WorkerLoop(w) \/ WorkerPoll(w) \/ WorkerSetNext(w)
             \/ WorkerGetById(w) \/ WorkerUpdate(w) \/ WorkerClear(w)

Client(c) == \/ ClientCreate(c) \/ ClientEdit(c) \/ ClientUpdate(c)
             \/ ClientDelete(c) \/ ClientApply(c)

Next == \/ Tick
        \/ Picker
        \/ \E w \in Workers : Worker(w)
        \/ \E c \in Clients : Client(c)

\* The JVM runs every started thread; the clock and the clients owe nothing.
Fairness == WF_vars(Picker) /\ \A w \in Workers : WF_vars(Worker(w))

Spec == Init /\ [][Next]_vars

FairSpec == Spec /\ Fairness

-----------------------------------------------------------------------------
(* Properties.                                                             *)

Running == {"loop", "poll", "setNext", "getById", "update", "clear"}

TypeOK ==
    /\ now \in Times
    /\ crons \in Seq(CronModel) /\ modCount \in Nat
    /\ pickPc \in {"scan", "getAll", "print", "check", "put", "start", "dead"}
    /\ pickIter \in Iterators
    /\ snapshot \in Seq(CronModel)
    /\ pickTime \in Times
    /\ queue \in Seq(CronModel)
    /\ t \in Workers \cup {NoThread}
    /\ pc \in [Workers -> Running \cup {"off", "dead"}]
    /\ job \in [Workers -> CronModel \cup {<<>>}]
    /\ workIter \in [Workers -> Iterators]
    /\ clientPc \in [Clients -> {"idle", "add", "update", "set", "remove"}]
    /\ draft \in [Clients -> CronModel \cup {<<>>}]
    /\ edits \in 0..MaxEdits
    /\ born \in SUBSET Ids
    /\ runs \in [Ids -> Seq(Nat)]

\* One executor at a time: a thread that is inside CronExecutor.run, at any
\* of its steps, is the one t refers to, so two never share the queue,
\* although t is neither volatile nor guarded by a lock (CronExecutor 32-48).
OneExecutor == \A w \in Workers : pc[w] \in Running => t = w

\* The thread that found the queue not empty still finds an element when it
\* polls six seconds later: poll never returns null (CronExecutor 34-35, 67).
PollFindsJob == \A w \in Workers : pc[w] = "poll" => queue # <<>>

\* The queue never holds two entries of one cron, although isInQueue and put
\* are two calls and the executor polls between them (CronPicker 51-52).
QueueDistinct == \A m, n \in DOMAIN queue : queue[m].id = queue[n].id => m = n

\* With no more crons than places in the queue, put never has to wait: the
\* picker always gets to executor.start() (CronExecutor 24, CronPicker 55).
PutNeverWaits ==
    IsFiniteSet(Ids) /\ Cardinality(Ids) <= QueueSize
        => (pickPc = "put" => Len(queue) < QueueSize)

\* A cron is never executed before its time, however old the clone in the
\* queue is (CronPicker 51, CronExecutor 59-68).
NeverEarly == \A i \in Ids : \A n \in DOMAIN runs[i] : runs[i][n] < now

\* While nobody edits the store, the same due time is executed at most three
\* times: from a scan before the first poll, from one between that poll and
\* its update, and from one whose clone is older than that update
\* (CronPicker 46-53, CronExecutor 67-73).
AtMostThrice ==
    ClientOps = {} =>
        \A i \in Ids : \A d \in Times :
            Cardinality({n \in DOMAIN runs[i] : runs[i][n] = d}) <= 3

\* The cron was stored once and has been deleted.
Gone(i) ==
    /\ i \in born /\ ~Stored(i)
    /\ \A c \in Clients : ~(clientPc[c] = "add" /\ draft[c].id = i)

\* A deleted cron stays deleted, although the executor and other clients
\* write back clones they took before (StoreManager 32-42, 74-90).
NoResurrection == [][\A i \in Ids : Gone(i) => Gone(i)']_vars

Overdue(i) == \E n \in DOMAIN crons : crons[n].id = i /\ crons[n].next < now

\* An overdue cron does not stay overdue, whatever the picker and the
\* executor were doing when its time came (CronPicker 44-56, CronExecutor
\* 32-48): the window between isEmpty and t = null, in which start() does
\* nothing, is closed by the next scan, and a client that writes back an old
\* run time only causes another execution. Only a thread that an exception has
\* ended, and which nothing replaces, can keep it waiting.
ThreadDied == pickPc = "dead" \/ \E w \in Workers : pc[w] = "dead"
OverdueMovesOn == \A i \in Ids : Overdue(i) ~> ~Overdue(i) \/ ThreadDied

-----------------------------------------------------------------------------
(* The scheduler as the abstract schedule of the crons of Main.mockup.     *)

MainJobs == {MainIds[n] : n \in DOMAIN MainIds}

NextRunOf(i) == GetById(i).next

AfterMinute(i, time) == NextRunTime(EveryMinute, time)

Schedule == INSTANCE CronSchedule WITH
    Jobs <- MainJobs,
    After <- AfterMinute,
    Horizon <- MaxTime,
    clock <- now,
    due <- [i \in MainJobs |-> NextRunOf(i)]

\* With no clients, as in Main, the threads implement the abstract schedule:
\* stale clones in the queue never bring a run time back or skip one that
\* has not come (CronPicker 44-56, CronExecutor 59-76).
KeepsSchedule == Schedule!Spec

\* ... and every overdue cron is moved on.
MeetsSchedule == Schedule!FairSpec

=============================================================================

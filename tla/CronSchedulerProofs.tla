------------------------- MODULE CronSchedulerProofs -------------------------
(***************************************************************************)
(* Proofs about CronScheduler for any number of crons, threads and         *)
(* clients, any size of the queue and any triggers.                        *)
(***************************************************************************)
EXTENDS CronScheduler, FiniteSetTheorems, TLAPS

-----------------------------------------------------------------------------
(* Type correctness.                                                       *)

\* An iterator that no structural change has invalidated is inside the list.
Sound(it) == /\ it.expected <= modCount
             /\ it.expected = modCount => it.cursor \in 1..(Len(crons) + 1)

\* What is in the variables that are read at some places of the code only.
Shape ==
    /\ Sound(pickIter)
    /\ \A w \in Workers : Sound(workIter[w])
    /\ pickPc = "put" => snapshot # <<>>
    /\ \A w \in Workers :
          pc[w] \in {"setNext", "getById", "update"} => job[w] \in CronModel
    /\ \A c \in Clients : clientPc[c] # "idle" => draft[c] \in CronModel

TypeInv == TypeOK /\ Shape

\* The lists apply leaves are lists of crons.
LEMMA ApplyType ==
    ASSUME NEW list \in Seq(CronModel), NEW c \in CronModel
    PROVE  /\ Added(list, c) \in Seq(CronModel)
           /\ Updated(list, c) \in Seq(CronModel)
           /\ Len(Updated(list, c)) = Len(list)
           /\ Deleted(list, c.id) \in Seq(CronModel)
  <1>1. Added(list, c) \in Seq(CronModel)
    BY DEF Added
  <1>2. Updated(list, c) \in Seq(CronModel) /\ Len(Updated(list, c)) = Len(list)
    BY DEF Updated
  <1>3. Deleted(list, c.id) \in Seq(CronModel)
    <2>1. CASE c.id \notin StoredIds(list)
      BY <2>1 DEF Deleted
    <2>2. CASE c.id \in StoredIds(list)
      <3>1. Len(list) \in Nat \ {0}
        BY <2>2 DEF StoredIds
      <3>2. Deleted(list, c.id) =
              [n \in 1..(Len(list) - 1) |->
                  IF n < Position(list, c.id) THEN list[n] ELSE list[n + 1]]
        BY <2>2 DEF Deleted
      <3>. QED
        BY <3>1, <3>2
    <2>. QED
      BY <2>1, <2>2
  <1>. QED
    BY <1>1, <1>2, <1>3

\* A cron found in the list is a cron of the list.
LEMMA PositionIn ==
    ASSUME NEW list \in Seq(CronModel), NEW i \in StoredIds(list)
    PROVE  Position(list, i) \in DOMAIN list /\ list[Position(list, i)].id = i
  BY DEF Position, StoredIds

\* An iterator that passes next()'s test is at an element, and stays sound.
LEMMA IteratorStep ==
    ASSUME TypeOK, NEW it \in Iterators, Sound(it), HasNext(it), ~Comodified(it)
    PROVE  /\ crons[it.cursor] \in CronModel
           /\ Advance(it) \in Iterators
           /\ Sound(Advance(it))
  <1>1. it.cursor \in 1..Len(crons)
    BY DEF TypeOK, Sound, HasNext, Comodified
  <1>2. crons[it.cursor] \in CronModel
    BY <1>1 DEF TypeOK
  <1>3. /\ it.cursor \in Nat /\ it.expected \in Nat
        /\ Advance(it) = [cursor |-> it.cursor + 1, expected |-> it.expected]
    BY DEF Iterators, Advance
  <1>4. Advance(it) \in Iterators /\ Sound(Advance(it))
    BY <1>1, <1>3 DEF Iterators, Sound, TypeOK
  <1>. QED
    BY <1>2, <1>4

\* The types at the start.
LEMMA TypeInit == Init => TypeInv
  <1>. SUFFICES ASSUME Init PROVE TypeInv
    OBVIOUS
  <1>1. \A n \in DOMAIN MainIds : NewCron(MainIds[n], EveryMinute, 0) \in CronModel
    BY IdAssumption, TriggerAssumption, NextAssumption, BoundAssumption
       DEF NewCron, CronModel, Times
  <1>2. crons \in Seq(CronModel) /\ Len(crons) = Len(MainIds)
    <2>1. Len(MainIds) \in Nat /\ DOMAIN MainIds = 1..Len(MainIds)
      BY IdAssumption
    <2>2. crons \in [1..Len(MainIds) -> CronModel]
      BY <1>1, <2>1 DEF Init
    <2>. QED
      BY <2>1, <2>2
  <1>3. TypeOK
    <2>1. born \in SUBSET Ids /\ modCount \in Nat
      BY IdAssumption DEF Init
    <2>. QED
      BY <1>2, <2>1, BoundAssumption DEF Init, TypeOK, Times, Iterators, Running
  <1>4. Shape
    BY <1>2, IdAssumption DEF Init, Shape, Sound
  <1>. QED
    BY <1>3, <1>4 DEF TypeInv

\* The picker's steps keep the types.
LEMMA TypePicker ==
    ASSUME TypeInv, Picker
    PROVE  TypeInv'
  <1>. USE DEF TypeInv
  <1>1. CASE PickerScan
    BY <1>1 DEF PickerScan, TypeOK, Shape, Sound, FreshIterator, Iterators,
                storeVars, workVars, clientVars
  <1>2. CASE PickerGetAll
    <2>1. HasNext(pickIter) /\ ~Comodified(pickIter) =>
             /\ crons[pickIter.cursor] \in CronModel
             /\ Advance(pickIter) \in Iterators
             /\ Sound(Advance(pickIter))
      BY IteratorStep DEF Shape, TypeOK
    <2>2. CASE ~HasNext(pickIter)
      BY <1>2, <2>2 DEF PickerGetAll, TypeOK, Shape, Sound, FreshIterator,
                Iterators, storeVars, workVars, clientVars
    <2>3. CASE HasNext(pickIter) /\ Comodified(pickIter)
      BY <1>2, <2>3 DEF PickerGetAll, TypeOK, Shape, Sound, storeVars, workVars,
                clientVars
    <2>4. CASE HasNext(pickIter) /\ ~Comodified(pickIter)
      <3>1. /\ snapshot' \in Seq(CronModel)
            /\ pickIter' = Advance(pickIter)
            /\ pickPc' = "getAll"
        <4>1. Append(snapshot, crons[pickIter.cursor]) \in Seq(CronModel)
          BY <2>1, <2>4 DEF TypeOK
        <4>. QED
          BY <1>2, <2>4, <4>1 DEF PickerGetAll
      <3>. QED
        BY <1>2, <2>1, <2>4, <3>1 DEF PickerGetAll, TypeOK, Shape, Sound,
                storeVars, workVars, clientVars
    <2>. QED
      BY <2>2, <2>3, <2>4
  <1>3. CASE PickerPrint
    <2>1. HasNext(pickIter) /\ ~Comodified(pickIter) =>
             /\ Advance(pickIter) \in Iterators
             /\ Sound(Advance(pickIter))
      BY IteratorStep DEF Shape, TypeOK
    <2>. QED
      BY <1>3, <2>1 DEF PickerPrint, TypeOK, Shape, Sound, FreshIterator,
                Iterators, storeVars, workVars, clientVars
  <1>4. CASE PickerCheck
    <2>1. /\ snapshot' \in Seq(CronModel)
          /\ pickPc' \in {"check", "put", "start"}
          /\ pickPc' = "put" => snapshot' # <<>>
      <3>1. snapshot # <<>> => Tail(snapshot) \in Seq(CronModel)
        BY DEF TypeOK
      <3>2. snapshot \in Seq(CronModel)
        BY DEF TypeOK
      <3>. QED
        BY <1>4, <3>1, <3>2 DEF PickerCheck
    <2>. QED
      BY <1>4, <2>1 DEF PickerCheck, TypeOK, Shape, Sound, storeVars, workVars,
                clientVars
  <1>5. CASE PickerPut
    BY <1>5 DEF PickerPut, TypeOK, Shape, Sound, storeVars, workVars, clientVars
  <1>6. CASE PickerStart
    BY <1>6 DEF PickerStart, TypeOK, Shape, Sound, Running, storeVars, clientVars
  <1>. QED
    BY <1>1, <1>2, <1>3, <1>4, <1>5, <1>6 DEF Picker

\* The steps of a worker keep the types.
LEMMA TypeWorker ==
    ASSUME TypeInv, NEW w \in Workers, Worker(w)
    PROVE  TypeInv'
  <1>. USE DEF TypeInv
  <1>1. CASE WorkerLoop(w)
    BY <1>1 DEF WorkerLoop, TypeOK, Shape, Sound, Running, storeVars, pickVars,
                clientVars
  <1>2. CASE WorkerPoll(w)
    <2>1. CASE queue = <<>>
      BY <1>2, <2>1 DEF WorkerPoll, TypeOK, Shape, Sound, storeVars, pickVars,
                clientVars
    <2>2. CASE queue # <<>>
      <3>1. Head(queue) \in CronModel /\ Tail(queue) \in Seq(CronModel)
        BY <2>2 DEF TypeOK
      <3>2. runs' \in [Ids -> Seq(Nat)]
        <4>1. Head(queue).id \in Ids /\ Head(queue).next \in Nat
          BY <3>1 DEF CronModel
        <4>2. Append(runs[Head(queue).id], Head(queue).next) \in Seq(Nat)
          BY <4>1 DEF TypeOK
        <4>. QED
          BY <1>2, <2>2, <4>1, <4>2 DEF WorkerPoll, TypeOK
      <3>3. /\ job' \in [Workers -> CronModel \cup {<<>>}]
            /\ job'[w] \in CronModel
            /\ \A x \in Workers \ {w} : job'[x] = job[x]
        BY <1>2, <2>2, <3>1 DEF WorkerPoll, TypeOK
      <3>4. /\ pc' \in [Workers -> Running \cup {"off", "dead"}]
            /\ \A x \in Workers \ {w} : pc'[x] = pc[x]
        BY <1>2, <2>2 DEF WorkerPoll, TypeOK, Running
      <3>. QED
        BY <1>2, <2>2, <3>1, <3>2, <3>3, <3>4 DEF WorkerPoll, TypeOK, Shape,
                Sound, storeVars, pickVars, clientVars
    <2>. QED
      BY <2>1, <2>2
  <1>3. CASE WorkerSetNext(w)
    <2>1. job[w].trigger \notin BadTriggers =>
             NextRunTime(job[w].trigger, now) \in Nat
      BY <1>3, NextAssumption DEF WorkerSetNext, TypeOK, Shape, CronModel
    <2>2. job' \in [Workers -> CronModel \cup {<<>>}]
          /\ \A x \in Workers : job[x] \in CronModel => job'[x] \in CronModel
      <3>1. job[w] \in CronModel
        BY <1>3 DEF WorkerSetNext, Shape
      <3>2. CASE job[w].trigger \in BadTriggers
        BY <1>3, <3>2 DEF WorkerSetNext, TypeOK
      <3>3. CASE job[w].trigger \notin BadTriggers
        <4>1. [job[w] EXCEPT !.next = NextRunTime(job[w].trigger, now)]
                 \in CronModel
          BY <2>1, <3>1, <3>3 DEF CronModel
        <4>2. job' = [job EXCEPT ![w] =
                 [job[w] EXCEPT !.next = NextRunTime(job[w].trigger, now)]]
          BY <1>3, <3>3 DEF WorkerSetNext
        <4>. QED
          BY <4>1, <4>2 DEF TypeOK
      <3>. QED
        BY <3>2, <3>3
    <2>3. /\ workIter' \in [Workers -> Iterators]
          /\ \A x \in Workers : Sound(workIter'[x])
      <3>1. FreshIterator \in Iterators /\ Sound(FreshIterator)
        BY DEF TypeOK, Sound, FreshIterator, Iterators
      <3>2. \/ UNCHANGED workIter
            \/ workIter' = [workIter EXCEPT ![w] = FreshIterator]
        BY <1>3 DEF WorkerSetNext
      <3>. QED
        BY <3>1, <3>2 DEF TypeOK, Shape
    <2>4. pc' \in [Workers -> Running \cup {"off", "dead"}]
      BY <1>3 DEF WorkerSetNext, TypeOK, Running
    <2>. QED
      BY <1>3, <2>2, <2>3, <2>4 DEF WorkerSetNext, TypeOK, Shape, Sound,
                storeVars, pickVars, clientVars
  <1>4. CASE WorkerGetById(w)
    <2>1. /\ workIter' \in [Workers -> Iterators]
          /\ \A x \in Workers : Sound(workIter'[x])
      <3>1. HasNext(workIter[w]) /\ ~Comodified(workIter[w]) =>
               /\ Advance(workIter[w]) \in Iterators
               /\ Sound(Advance(workIter[w]))
        BY IteratorStep DEF TypeOK, Shape
      <3>2. \/ UNCHANGED workIter
            \/ /\ HasNext(workIter[w]) /\ ~Comodified(workIter[w])
               /\ workIter' = [workIter EXCEPT ![w] = Advance(workIter[w])]
        BY <1>4 DEF WorkerGetById
      <3>. QED
        BY <3>1, <3>2 DEF TypeOK, Shape
    <2>2. pc' \in [Workers -> Running \cup {"off", "dead"}]
      BY <1>4 DEF WorkerGetById, TypeOK, Running
    <2>. QED
      BY <1>4, <2>1, <2>2 DEF WorkerGetById, TypeOK, Shape, Sound,
                storeVars, pickVars, clientVars
  <1>5. CASE WorkerUpdate(w)
    <2>1. crons' \in Seq(CronModel) /\ Len(crons') = Len(crons)
      BY <1>5, ApplyType DEF WorkerUpdate, TypeOK, Shape
    <2>2. pc' \in [Workers -> Running \cup {"off", "dead"}]
      BY <1>5 DEF WorkerUpdate, TypeOK, Running
    <2>. QED
      BY <1>5, <2>1, <2>2 DEF WorkerUpdate, TypeOK, Shape, Sound, pickVars,
                clientVars
  <1>6. CASE WorkerClear(w)
    BY <1>6 DEF WorkerClear, TypeOK, Shape, Sound, storeVars, pickVars, clientVars
  <1>. QED
    BY <1>1, <1>2, <1>3, <1>4, <1>5, <1>6 DEF Worker

\* The steps of a client keep the types.
LEMMA TypeClient ==
    ASSUME TypeInv, NEW c \in Clients, Client(c)
    PROVE  TypeInv'
  <1>. USE DEF TypeInv
  <1>0. StoredIds(crons) \subseteq Ids
    <2>1. \A n \in DOMAIN crons : crons[n] \in CronModel
      BY DEF TypeOK
    <2>. QED
      BY <2>1 DEF StoredIds, CronModel
  <1>1. CASE ClientCreate(c)
    <2>1. PICK i \in Ids \ born, tr \in Triggers \ BadTriggers :
             /\ draft' = [draft EXCEPT ![c] = NewCron(i, tr, now)]
             /\ born' = born \cup {i}
      BY <1>1 DEF ClientCreate
    <2>2. NewCron(i, tr, now) \in CronModel
      BY NextAssumption DEF NewCron, CronModel, TypeOK
    <2>. QED
      BY <1>1, <2>1, <2>2, BoundAssumption DEF ClientCreate, Call, TypeOK, Shape,
                Sound, storeVars, pickVars, workVars
  <1>2. CASE ClientEdit(c)
    <2>1. PICK i \in StoredIds(crons), tr \in Triggers :
             draft' = [draft EXCEPT ![c] = [GetById(i) EXCEPT !.trigger = tr]]
      BY <1>2 DEF ClientEdit
    <2>2. [GetById(i) EXCEPT !.trigger = tr] \in CronModel
      <3>1. GetById(i) \in CronModel
        BY PositionIn DEF GetById, TypeOK
      <3>. QED
        BY <3>1 DEF CronModel
    <2>3. edits' \in 0..MaxEdits
      BY <1>2, BoundAssumption DEF ClientEdit, Call, TypeOK
    <2>4. /\ draft' \in [Clients -> CronModel \cup {<<>>}]
          /\ draft'[c] \in CronModel
          /\ \A k \in Clients \ {c} : draft'[k] = draft[k]
      BY <2>1, <2>2 DEF TypeOK
    <2>. QED
      BY <1>2, <2>3, <2>4 DEF ClientEdit, TypeOK, Shape,
                Sound, storeVars, pickVars, workVars
  <1>3. CASE ClientUpdate(c)
    BY <1>3 DEF ClientUpdate, TypeOK, Shape, Sound, storeVars, pickVars, workVars
  <1>4. CASE ClientDelete(c)
    <2>1. PICK i \in StoredIds(crons) : draft' = [draft EXCEPT ![c] = GetById(i)]
      BY <1>4 DEF ClientDelete
    <2>2. GetById(i) \in CronModel
      BY PositionIn DEF GetById, TypeOK
    <2>. QED
      BY <1>4, <2>1, <2>2, BoundAssumption DEF ClientDelete, Call, TypeOK, Shape,
                Sound, storeVars, pickVars, workVars
  <1>5. CASE ClientApply(c)
    <2>1. draft[c] \in CronModel
      BY <1>5 DEF ClientApply, Shape
    <2>2. /\ crons' \in Seq(CronModel)
          /\ modCount' \in Nat
          /\ \/ modCount' = modCount + 1
             \/ modCount' = modCount /\ Len(crons') = Len(crons)
      <3>1. CASE clientPc[c] = "add"
        BY <1>5, <2>1, <3>1, ApplyType DEF ClientApply, TypeOK
      <3>2. CASE clientPc[c] = "set"
        BY <1>5, <2>1, <3>2, ApplyType DEF ClientApply, TypeOK
      <3>3. CASE clientPc[c] = "remove"
        <4>1. crons' = Deleted(crons, draft[c].id)
          BY <1>5, <3>3 DEF ClientApply
        <4>2. crons' \in Seq(CronModel)
          BY <2>1, <4>1, ApplyType DEF TypeOK
        <4>3. draft[c].id \notin StoredIds(crons) => crons' = crons
          BY <4>1 DEF Deleted
        <4>. QED
          BY <1>5, <3>3, <4>2, <4>3 DEF ClientApply, TypeOK, Stored
      <3>. QED
        BY <1>5, <3>1, <3>2, <3>3 DEF ClientApply
    <2>. QED
      BY <1>5, <2>1, <2>2 DEF ClientApply, TypeOK, Shape, Sound, pickVars,
                workVars, Iterators
  <1>. QED
    BY <1>1, <1>2, <1>3, <1>4, <1>5 DEF Client

\* Every step keeps the types.
LEMMA TypeStep == TypeInv /\ [Next]_vars => TypeInv'
  <1>. SUFFICES ASSUME TypeInv, [Next]_vars PROVE TypeInv'
    OBVIOUS
  <1>1. CASE Tick
    BY <1>1, BoundAssumption DEF Tick, TypeInv, TypeOK, Shape, Sound, Times,
             storeVars, pickVars, workVars, clientVars
  <1>2. CASE UNCHANGED vars
    BY <1>2 DEF TypeInv, TypeOK, Shape, Sound, vars, storeVars, pickVars,
             workVars, clientVars
  <1>. QED
    BY <1>1, <1>2, TypePicker, TypeWorker, TypeClient DEF Next

\* Every variable always has its type, and what a thread is about to use is
\* there: the iterators stay inside the list they are on unless the list's
\* modCount tells (StoreManager 27-110, CronPicker, CronExecutor).
THEOREM TypeInvariance == Spec => []TypeInv
  BY TypeInit, TypeStep, PTL DEF Spec

\* The type invariant TLC checks.
THEOREM TypeCorrect == Spec => []TypeOK
  <1>1. TypeInv => TypeOK
    BY DEF TypeInv
  <1>. QED
    BY <1>1, TypeInvariance, PTL

-----------------------------------------------------------------------------
(* One executor thread, and a job for it whenever it polls.                *)

ExecutorInv == OneExecutor /\ PollFindsJob

\* The invariant of the executor is inductive.
LEMMA ExecutorStep == TypeInv /\ ExecutorInv /\ [Next]_vars => ExecutorInv'
  <1>. SUFFICES ASSUME TypeInv, ExecutorInv, [Next]_vars
                PROVE  ExecutorInv'
    OBVIOUS
  <1>. USE DEF ExecutorInv, OneExecutor, PollFindsJob
  <1>0. /\ pc \in [Workers -> Running \cup {"off", "dead"}]
        /\ queue \in Seq(CronModel)
    BY DEF TypeInv, TypeOK
  <1>1. CASE UNCHANGED <<pc, t, queue>>
    BY <1>1
  <1>2. CASE PickerPut
    <2>1. snapshot # <<>>
      BY <1>2 DEF PickerPut, TypeInv, Shape
    <2>2. queue' # <<>>
      BY <1>0, <1>2 DEF PickerPut
    <2>. QED
      BY <1>2, <2>2 DEF PickerPut, workVars
  <1>3. CASE PickerStart
    BY <1>0, <1>3, ThreadAssumption DEF PickerStart, Running
  <1>4. ASSUME NEW w \in Workers, Worker(w)
        PROVE  ExecutorInv'
    <2>1. CASE WorkerLoop(w)
      BY <1>0, <2>1 DEF WorkerLoop, Running
    <2>2. CASE WorkerPoll(w)
      BY <1>0, <2>2 DEF WorkerPoll, Running
    <2>3. CASE WorkerSetNext(w)
      BY <1>0, <2>3 DEF WorkerSetNext, Running
    <2>4. CASE WorkerGetById(w)
      BY <1>0, <2>4 DEF WorkerGetById, Running
    <2>5. CASE WorkerUpdate(w)
      BY <1>0, <2>5 DEF WorkerUpdate, Running
    <2>6. CASE WorkerClear(w)
      BY <1>0, <2>6 DEF WorkerClear, Running
    <2>. QED
      BY <1>4, <2>1, <2>2, <2>3, <2>4, <2>5, <2>6 DEF Worker
  <1>5. CASE Tick \/ PickerScan \/ PickerGetAll \/ PickerPrint \/ PickerCheck
    BY <1>1, <1>5 DEF Tick, PickerScan, PickerGetAll, PickerPrint, PickerCheck,
             workVars
  <1>6. ASSUME NEW c \in Clients, Client(c)
        PROVE  ExecutorInv'
    BY <1>1, <1>6 DEF Client, ClientCreate, ClientEdit, ClientUpdate,
             ClientDelete, ClientApply, workVars
  <1>. QED
    BY <1>1, <1>2, <1>3, <1>4, <1>5, <1>6 DEF Next, Picker, vars, workVars

\* The invariant of the executor holds always.
LEMMA ExecutorInvariance == Spec => []ExecutorInv
  <1>1. Init => ExecutorInv
    BY DEF Init, ExecutorInv, OneExecutor, PollFindsJob, Running
  <1>. QED
    BY <1>1, ExecutorStep, TypeInvariance, PTL DEF Spec

\* However many threads the JVM may create, at most one is inside
\* CronExecutor.run, and it is the one t names (CronExecutor 32-48).
THEOREM ExecutorIsAlone == Spec => []OneExecutor
  <1>1. ExecutorInv => OneExecutor
    BY DEF ExecutorInv
  <1>. QED
    BY <1>1, ExecutorInvariance, PTL

\* Therefore poll never returns null, although isEmpty and poll are two calls
\* (CronExecutor 34, 67).
THEOREM PollIsNeverNull == Spec => []PollFindsJob
  <1>1. ExecutorInv => PollFindsJob
    BY DEF ExecutorInv
  <1>. QED
    BY <1>1, ExecutorInvariance, PTL

-----------------------------------------------------------------------------
(* The queue: distinct crons, all of them due.                             *)

\* Between isInQueue and put the clone's cron stays out of the queue: the
\* picker alone adds to it.
QueueInv ==
    /\ QueueDistinct
    /\ pickPc = "put" => Head(snapshot).id \notin StoredIds(queue)

DueInv ==
    /\ pickTime <= now
    /\ \A n \in DOMAIN queue : queue[n].next < now
    /\ pickPc = "put" => Head(snapshot).next < pickTime
    /\ NeverEarly

\* The queue after a poll holds what it held behind its head.
LEMMA TailElements ==
    ASSUME NEW q \in Seq(CronModel), q # <<>>
    PROVE  /\ Tail(q) \in Seq(CronModel)
           /\ DOMAIN Tail(q) = 1..(Len(q) - 1)
           /\ \A n \in DOMAIN Tail(q) : /\ n + 1 \in DOMAIN q
                                        /\ Tail(q)[n] = q[n + 1]
  OBVIOUS

\* The invariant of the queue is inductive.
LEMMA QueueStep == TypeInv /\ QueueInv /\ [Next]_vars => QueueInv'
  <1>. SUFFICES ASSUME TypeInv, QueueInv, [Next]_vars PROVE QueueInv'
    OBVIOUS
  <1>. USE DEF QueueInv, QueueDistinct, StoredIds
  <1>0. queue \in Seq(CronModel) /\ snapshot \in Seq(CronModel)
    BY DEF TypeInv, TypeOK
  <1>1. CASE UNCHANGED <<queue, pickPc, snapshot>>
    BY <1>1
  <1>2. CASE PickerPut
    <2>1. DOMAIN queue' = 1..(Len(queue) + 1)
      BY <1>0, <1>2 DEF PickerPut
    <2>2. /\ queue'[Len(queue) + 1] = Head(snapshot)
          /\ \A n \in DOMAIN queue : queue'[n] = queue[n]
      BY <1>0, <1>2 DEF PickerPut
    <2>3. \A n \in DOMAIN queue : queue[n].id # Head(snapshot).id
      BY <1>2 DEF PickerPut
    <2>4. QueueDistinct'
      BY <1>0, <2>1, <2>2, <2>3
    <2>. QED
      BY <1>2, <2>4 DEF PickerPut
  <1>3. CASE PickerCheck
    BY <1>3 DEF PickerCheck, IsInQueue
  <1>4. CASE PickerScan \/ PickerGetAll \/ PickerPrint \/ PickerStart
    BY <1>4 DEF PickerScan, PickerGetAll, PickerPrint, PickerStart
  <1>5. ASSUME NEW w \in Workers, WorkerPoll(w), queue # <<>>
        PROVE  QueueInv'
    <2>1. queue' = Tail(queue) /\ UNCHANGED <<pickPc, snapshot>>
      BY <1>5 DEF WorkerPoll, pickVars
    <2>2. \A n \in DOMAIN queue' : n + 1 \in DOMAIN queue
                                   /\ queue'[n] = queue[n + 1]
      BY <1>0, <1>5, <2>1, TailElements
    <2>3. QueueDistinct'
      <3>. SUFFICES ASSUME NEW m \in DOMAIN queue', NEW n \in DOMAIN queue',
                           queue'[m].id = queue'[n].id
                    PROVE  m = n
        OBVIOUS
      <3>1. m + 1 = n + 1
        BY <2>2
      <3>2. m \in Nat /\ n \in Nat
        BY <1>0, <1>5, <2>1, TailElements
      <3>. QED
        BY <3>1, <3>2
    <2>. QED
      BY <2>1, <2>2, <2>3
  <1>6. ASSUME NEW w \in Workers, Worker(w), ~(WorkerPoll(w) /\ queue # <<>>)
        PROVE  QueueInv'
    BY <1>1, <1>6 DEF Worker, WorkerLoop, WorkerPoll, WorkerSetNext,
             WorkerGetById, WorkerUpdate, WorkerClear, pickVars
  <1>7. CASE Tick
    BY <1>1, <1>7 DEF Tick, pickVars
  <1>8. ASSUME NEW c \in Clients, Client(c)
        PROVE  QueueInv'
    BY <1>1, <1>8 DEF Client, ClientCreate, ClientEdit, ClientUpdate,
             ClientDelete, ClientApply, pickVars
  <1>. QED
    BY <1>1, <1>2, <1>3, <1>4, <1>5, <1>6, <1>7, <1>8
       DEF Next, Picker, vars, pickVars

\* The invariant of the queue holds always.
LEMMA QueueInvariance == Spec => []QueueInv
  <1>1. Init => QueueInv
    BY DEF Init, QueueInv, QueueDistinct
  <1>. QED
    BY <1>1, QueueStep, TypeInvariance, PTL DEF Spec

\* No cron is ever queued twice, whatever the number of crons, threads and
\* clients (CronPicker 51-52, CronExecutor 22-57).
THEOREM QueueIsDistinct == Spec => []QueueDistinct
  <1>1. QueueInv => QueueDistinct
    BY DEF QueueInv
  <1>. QED
    BY <1>1, QueueInvariance, PTL

\* A queue with a place for every cron never makes the picker wait, so the
\* picker always reaches executor.start() (CronExecutor 24, CronPicker 55).
THEOREM PutIsImmediate == Spec => []PutNeverWaits
  <1>1. TypeInv /\ QueueInv => PutNeverWaits
    <2>. SUFFICES ASSUME TypeInv, QueueInv, pickPc = "put",
                         IsFiniteSet(Ids), Cardinality(Ids) <= QueueSize
                  PROVE  Len(queue) < QueueSize
      BY DEF PutNeverWaits
    <2>. DEFINE pending == Head(snapshot).id
                others  == Ids \ {pending}
                f       == [n \in 1..Len(queue) |-> queue[n].id]
    <2>1. /\ queue \in Seq(CronModel) /\ Len(queue) \in Nat
          /\ DOMAIN queue = 1..Len(queue)
      BY DEF TypeInv, TypeOK
    <2>2. pending \in Ids
      <3>1. snapshot \in Seq(CronModel) /\ snapshot # <<>>
        BY DEF TypeInv, TypeOK, Shape
      <3>2. Head(snapshot) \in CronModel
        BY <3>1
      <3>. QED
        BY <3>2 DEF CronModel
    <2>3. IsFiniteSet(others) /\ Cardinality(others) = Cardinality(Ids) - 1
      BY <2>2, FS_RemoveElement
    <2>4. \A n \in 1..Len(queue) : queue[n].id \in others
      <3>1. \A n \in 1..Len(queue) : queue[n].id \in Ids
        <4>1. \A n \in 1..Len(queue) : queue[n] \in CronModel
          BY <2>1
        <4>. QED
          BY <4>1 DEF CronModel
      <3>2. \A n \in 1..Len(queue) : queue[n].id # pending
        BY <2>1 DEF QueueInv, StoredIds
      <3>. QED
        BY <3>1, <3>2
    <2>5. f \in Injection(1..Len(queue), others)
      BY <2>1, <2>4 DEF QueueInv, QueueDistinct, Injection, IsInjective
    <2>6. Cardinality(1..Len(queue)) <= Cardinality(others)
      BY <2>3, <2>5, FS_Injection
    <2>7. Cardinality(1..Len(queue)) = Len(queue)
      BY <2>1, FS_Interval
    <2>8. Cardinality(Ids) \in Nat
      BY FS_CardinalityType
    <2>. QED
      BY <2>1, <2>3, <2>6, <2>7, <2>8, BoundAssumption
  <1>. QED
    BY <1>1, TypeInvariance, QueueInvariance, PTL

\* The invariant of what is due is inductive.
LEMMA DueStep == TypeInv /\ DueInv /\ [Next]_vars => DueInv'
  <1>. SUFFICES ASSUME TypeInv, DueInv, [Next]_vars PROVE DueInv'
    OBVIOUS
  <1>. USE DEF DueInv, NeverEarly
  <1>0. /\ now \in Nat /\ pickTime \in Nat
        /\ queue \in Seq(CronModel) /\ snapshot \in Seq(CronModel)
        /\ runs \in [Ids -> Seq(Nat)]
    BY BoundAssumption DEF TypeInv, TypeOK, Times
  <1>1. CASE UNCHANGED <<now, queue, pickPc, pickTime, snapshot, runs>>
    BY <1>1
  <1>2. CASE Tick
    <2>1. /\ now' = now + 1
          /\ UNCHANGED <<queue, pickPc, pickTime, snapshot, runs>>
      BY <1>2 DEF Tick, pickVars, workVars
    <2>2. \A n \in DOMAIN queue : queue[n].next \in Nat
      <3>1. \A n \in DOMAIN queue : queue[n] \in CronModel
        BY <1>0
      <3>. QED
        BY <3>1 DEF CronModel
    <2>3. \A i \in Ids : \A n \in DOMAIN runs[i] : runs[i][n] \in Nat
      BY <1>0
    <2>. QED
      BY <1>0, <2>1, <2>2, <2>3
  <1>3. CASE PickerPut
    <2>1. Head(snapshot) \in CronModel
      BY <1>0, <1>3 DEF PickerPut, TypeInv, Shape
    <2>2. Head(snapshot).next \in Nat /\ Head(snapshot).next < now
      BY <1>0, <1>3, <2>1 DEF PickerPut, CronModel
    <2>3. \A n \in DOMAIN queue' : queue'[n].next < now
      BY <1>0, <1>3, <2>2 DEF PickerPut
    <2>. QED
      BY <1>3, <2>3 DEF PickerPut, workVars
  <1>4. CASE PickerPrint
    BY <1>0, <1>4 DEF PickerPrint, workVars
  <1>5. CASE PickerCheck
    BY <1>5 DEF PickerCheck, Expired, workVars
  <1>6. CASE PickerScan \/ PickerGetAll \/ PickerStart
    BY <1>6 DEF PickerScan, PickerGetAll, PickerStart, workVars
  <1>7. ASSUME NEW w \in Workers, WorkerPoll(w), queue # <<>>
        PROVE  DueInv'
    <2>1. /\ queue' = Tail(queue)
          /\ runs' = [runs EXCEPT ![Head(queue).id] =
                          Append(runs[Head(queue).id], Head(queue).next)]
          /\ UNCHANGED <<now, pickPc, pickTime, snapshot>>
      BY <1>7 DEF WorkerPoll, pickVars
    <2>2. \A n \in DOMAIN queue' : n + 1 \in DOMAIN queue
                                   /\ queue'[n] = queue[n + 1]
      BY <1>0, <1>7, <2>1, TailElements
    <2>3. Head(queue) \in CronModel /\ Head(queue).next < now
      BY <1>0, <1>7
    <2>4. Head(queue).id \in Ids /\ Head(queue).next \in Nat
      BY <2>3 DEF CronModel
    <2>5. NeverEarly'
      <3>. SUFFICES ASSUME NEW i \in Ids, NEW n \in DOMAIN runs'[i]
                    PROVE  runs'[i][n] < now
        BY <2>1
      <3>1. CASE i = Head(queue).id
        <4>1. runs[i] \in Seq(Nat)
              /\ runs'[i] = Append(runs[i], Head(queue).next)
          BY <1>0, <2>1, <3>1
        <4>. QED
          BY <2>3, <2>4, <4>1
      <3>2. CASE i # Head(queue).id
        BY <1>0, <2>1, <3>2
      <3>. QED
        BY <3>1, <3>2
    <2>. QED
      BY <2>1, <2>2, <2>5
  <1>8. ASSUME NEW w \in Workers, Worker(w), ~(WorkerPoll(w) /\ queue # <<>>)
        PROVE  DueInv'
    BY <1>1, <1>8 DEF Worker, WorkerLoop, WorkerPoll, WorkerSetNext,
             WorkerGetById, WorkerUpdate, WorkerClear, pickVars
  <1>9. ASSUME NEW c \in Clients, Client(c)
        PROVE  DueInv'
    BY <1>1, <1>9 DEF Client, ClientCreate, ClientEdit, ClientUpdate,
             ClientDelete, ClientApply, pickVars, workVars
  <1>. QED
    BY <1>1, <1>2, <1>3, <1>4, <1>5, <1>6, <1>7, <1>8, <1>9
       DEF Next, Picker, vars, pickVars, workVars

\* No cron is executed before its time, however stale the clone that was
\* queued (CronPicker 44-56, CronExecutor 59-68).
THEOREM NoEarlyExecution == Spec => []NeverEarly
  <1>1. Init => DueInv
    BY DEF Init, DueInv, NeverEarly
  <1>2. DueInv => NeverEarly
    BY DEF DueInv
  <1>. QED
    BY <1>1, <1>2, DueStep, TypeInvariance, PTL DEF Spec

-----------------------------------------------------------------------------
(* A deleted cron stays deleted.                                           *)

\* The ids apply leaves in the list: one more, the same, or fewer.
LEMMA ApplyIds ==
    ASSUME NEW list \in Seq(CronModel), NEW c \in CronModel
    PROVE  /\ StoredIds(Added(list, c)) = StoredIds(list) \cup {c.id}
           /\ StoredIds(Updated(list, c)) = StoredIds(list)
           /\ StoredIds(Deleted(list, c.id)) \subseteq StoredIds(list)
  <1>0. Len(list) \in Nat /\ DOMAIN list = 1..Len(list)
    OBVIOUS
  <1>1. StoredIds(Added(list, c)) = StoredIds(list) \cup {c.id}
    <2>1. /\ DOMAIN Added(list, c) = 1..(Len(list) + 1)
          /\ \A n \in 1..Len(list) : Added(list, c)[n] = list[n]
          /\ Added(list, c)[Len(list) + 1] = c
      BY DEF Added
    <2>2. 1..(Len(list) + 1) = 1..Len(list) \cup {Len(list) + 1}
      BY <1>0
    <2>. QED
      BY <1>0, <2>1, <2>2 DEF StoredIds
  <1>2. StoredIds(Updated(list, c)) = StoredIds(list)
    <2>1. /\ DOMAIN Updated(list, c) = DOMAIN list
          /\ \A n \in DOMAIN list : Updated(list, c)[n].id = list[n].id
      BY DEF Updated
    <2>. QED
      BY <2>1 DEF StoredIds
  <1>3. StoredIds(Deleted(list, c.id)) \subseteq StoredIds(list)
    <2>1. CASE c.id \notin StoredIds(list)
      BY <2>1 DEF Deleted
    <2>2. CASE c.id \in StoredIds(list)
      <3>1. Len(list) \in Nat \ {0}
        BY <2>2 DEF StoredIds
      <3>2. Deleted(list, c.id) =
              [n \in 1..(Len(list) - 1) |->
                  IF n < Position(list, c.id) THEN list[n] ELSE list[n + 1]]
        BY <2>2 DEF Deleted
      <3>3. ASSUME NEW n \in 1..(Len(list) - 1)
            PROVE  n \in DOMAIN list /\ n + 1 \in DOMAIN list
        BY <1>0, <3>1
      <3>4. \A n \in 1..(Len(list) - 1) : Deleted(list, c.id)[n].id \in StoredIds(list)
        BY <3>2, <3>3 DEF StoredIds
      <3>. QED
        BY <3>2, <3>4 DEF StoredIds
    <2>. QED
      BY <2>1, <2>2
  <1>. QED
    BY <1>1, <1>2, <1>3

\* No step brings back a cron that is gone: the executor and the callers that
\* hold a clone of it only replace, and an id is given out once.
LEMMA GoneStays ==
    ASSUME TypeInv, [Next]_vars, NEW i \in Ids, Gone(i)
    PROVE  Gone(i)'
  <1>0. /\ i \in born /\ i \notin StoredIds(crons) /\ crons \in Seq(CronModel)
        /\ \A c \in Clients : ~(clientPc[c] = "add" /\ draft[c].id = i)
        /\ clientPc \in [Clients -> {"idle", "add", "update", "set", "remove"}]
        /\ draft \in [Clients -> CronModel \cup {<<>>}]
    BY DEF Gone, Stored, TypeInv, TypeOK
  <1>. SUFFICES /\ i \in born' /\ i \notin StoredIds(crons')
                /\ \A c \in Clients : ~(clientPc'[c] = "add" /\ draft'[c].id = i)
    BY DEF Gone, Stored, StoredIds
  <1>1. CASE UNCHANGED <<crons, clientPc, draft, born>>
    BY <1>0, <1>1
  <1>2. ASSUME NEW w \in Workers, WorkerUpdate(w)
        PROVE  StoredIds(crons') = StoredIds(crons) /\ UNCHANGED <<clientPc, draft, born>>
    <2>1. job[w] \in CronModel /\ crons' = Updated(crons, job[w])
      BY <1>2 DEF WorkerUpdate, TypeInv, Shape
    <2>. QED
      BY <1>0, <1>2, <2>1, ApplyIds DEF WorkerUpdate, clientVars
  <1>3. ASSUME NEW c \in Clients, ClientCreate(c)
        PROVE  /\ UNCHANGED crons /\ born \subseteq born'
               /\ \A k \in Clients : ~(clientPc'[k] = "add" /\ draft'[k].id = i)
    <2>1. PICK j \in Ids \ born, tr \in Triggers \ BadTriggers :
             /\ draft' = [draft EXCEPT ![c] = NewCron(j, tr, now)]
             /\ born' = born \cup {j}
      BY <1>3 DEF ClientCreate
    <2>2. NewCron(j, tr, now).id # i
      BY <1>0, <2>1 DEF NewCron
    <2>3. clientPc' = [clientPc EXCEPT ![c] = "add"] /\ UNCHANGED crons
      BY <1>3 DEF ClientCreate, storeVars
    <2>4. ASSUME NEW k \in Clients PROVE ~(clientPc'[k] = "add" /\ draft'[k].id = i)
      <3>1. CASE k = c
        BY <1>0, <2>1, <2>2, <3>1
      <3>2. CASE k # c
        BY <1>0, <2>1, <2>3, <3>2
      <3>. QED
        BY <3>1, <3>2
    <2>. QED
      BY <2>1, <2>3, <2>4
  <1>4. ASSUME NEW c \in Clients, ClientEdit(c) \/ ClientUpdate(c) \/ ClientDelete(c)
        PROVE  /\ UNCHANGED <<crons, born>>
               /\ \A k \in Clients : ~(clientPc'[k] = "add" /\ draft'[k].id = i)
    <2>1. /\ UNCHANGED <<crons, born>>
          /\ clientPc'[c] # "add"
          /\ \A k \in Clients \ {c} : clientPc'[k] = clientPc[k] /\ draft'[k] = draft[k]
      BY <1>0, <1>4 DEF ClientEdit, ClientUpdate, ClientDelete, storeVars
    <2>. QED
      BY <1>0, <2>1
  <1>5. ASSUME NEW c \in Clients, ClientApply(c)
        PROVE  /\ i \notin StoredIds(crons') /\ UNCHANGED born
               /\ \A k \in Clients : ~(clientPc'[k] = "add" /\ draft'[k].id = i)
    <2>0. draft[c] \in CronModel
      BY <1>5 DEF ClientApply, TypeInv, Shape
    <2>1. /\ StoredIds(Updated(crons, draft[c])) = StoredIds(crons)
          /\ StoredIds(Deleted(crons, draft[c].id)) \subseteq StoredIds(crons)
          /\ StoredIds(Added(crons, draft[c])) = StoredIds(crons) \cup {draft[c].id}
      BY <1>0, <2>0, ApplyIds
    <2>2. i \notin StoredIds(crons')
      <3>1. CASE clientPc[c] = "add"
        BY <1>0, <1>5, <2>1, <3>1 DEF ClientApply
      <3>2. CASE clientPc[c] # "add"
        BY <1>0, <1>5, <2>1, <3>2 DEF ClientApply
      <3>. QED
        BY <3>1, <3>2
    <2>3. /\ UNCHANGED born
          /\ clientPc'[c] # "add"
          /\ \A k \in Clients \ {c} : clientPc'[k] = clientPc[k] /\ draft'[k] = draft[k]
      BY <1>0, <1>5 DEF ClientApply
    <2>. QED
      BY <1>0, <2>2, <2>3
  <1>6. \/ UNCHANGED <<crons, clientPc, draft, born>>
        \/ \E w \in Workers : WorkerUpdate(w)
        \/ \E c \in Clients : Client(c)
    BY DEF Next, vars, storeVars, clientVars, Tick, Picker, PickerScan, PickerGetAll,
           PickerPrint, PickerCheck, PickerPut, PickerStart, Worker, WorkerLoop,
           WorkerPoll, WorkerSetNext, WorkerGetById, WorkerClear
  <1>. QED
    BY <1>0, <1>1, <1>2, <1>3, <1>4, <1>5, <1>6 DEF Client

\* A deleted cron stays deleted, whatever clones of it threads still hold
\* (StoreManager 32-42, 74-90).
THEOREM DeletedForGood == Spec => NoResurrection
  <1>1. TypeInv /\ [Next]_vars => [\A i \in Ids : Gone(i) => Gone(i)']_vars
    BY GoneStays
  <1>. QED
    BY <1>1, TypeInvariance, PTL DEF Spec, NoResurrection

-----------------------------------------------------------------------------
(* Without callers of the store the threads implement CronSchedule.        *)

OfMain(c) == c.id \in MainJobs /\ c.trigger = EveryMinute

\* The list holds the crons of Main.mockup, in their order, for ever, and so
\* does every clone.
MainInv ==
    /\ \A c \in Clients : clientPc[c] = "idle"
    /\ DOMAIN crons = DOMAIN MainIds
    /\ \A n \in DOMAIN MainIds : /\ crons[n].id = MainIds[n]
                                 /\ crons[n].trigger = EveryMinute
    /\ \A n \in DOMAIN snapshot : OfMain(snapshot[n])
    /\ \A n \in DOMAIN queue : OfMain(queue[n])
    /\ \A w \in Workers :
          pc[w] \in {"setNext", "getById", "update"} => OfMain(job[w])

\* time |-> run time, for the trigger of Main.
Minute(time) == NextRunTime(EveryMinute, time)

\* Each run time in the store follows a past moment s, and the one an
\* executor is about to store follows a moment m no earlier than that s.
TimeInv ==
    /\ \A n \in DOMAIN crons : \E s \in 0..now : crons[n].next = Minute(s)
    /\ \A w \in Workers : pc[w] \in {"getById", "update"} =>
          \E m \in 0..now :
             /\ job[w].next = Minute(m)
             /\ \A n \in DOMAIN crons : crons[n].id = job[w].id =>
                   \E s \in 0..m : crons[n].next = Minute(s)

\* Main's invariant is inductive as long as nobody adds, updates or deletes.
LEMMA MainStep ==
    ASSUME ClientOps = {}, TypeInv, MainInv, [Next]_vars
    PROVE  MainInv'
  <1>. USE DEF MainInv, OfMain
  <1>0. /\ queue \in Seq(CronModel) /\ snapshot \in Seq(CronModel)
        /\ crons \in Seq(CronModel) /\ MainIds \in Seq(Ids)
        /\ pc \in [Workers -> Running \cup {"off", "dead"}]
    BY IdAssumption DEF TypeInv, TypeOK
  <1>1. CASE UNCHANGED <<crons, snapshot, queue, pc, job, clientPc>>
    BY <1>1
  <1>2. CASE Tick
    BY <1>1, <1>2 DEF Tick, storeVars, pickVars, workVars, clientVars
  <1>3. CASE Picker
    <2>1. CASE PickerScan
      BY <2>1 DEF PickerScan, storeVars, workVars, clientVars
    <2>2. CASE PickerGetAll
      <3>1. UNCHANGED <<crons, queue, pc, job, clientPc>>
        BY <2>2 DEF PickerGetAll, storeVars, workVars, clientVars
      <3>2. \A n \in DOMAIN snapshot' : OfMain(snapshot'[n])
        <4>1. CASE UNCHANGED snapshot
          BY <4>1
        <4>2. CASE /\ HasNext(pickIter) /\ ~Comodified(pickIter)
                   /\ snapshot' = Append(snapshot, crons[pickIter.cursor])
          <5>1. pickIter.cursor \in DOMAIN crons
            BY <1>0, <4>2 DEF HasNext, Comodified, TypeInv, Shape, Sound
          <5>2. OfMain(crons[pickIter.cursor])
            BY <5>1 DEF MainJobs
          <5>3. crons[pickIter.cursor] \in CronModel
            BY <1>0, <5>1
          <5>. QED
            BY <1>0, <4>2, <5>2, <5>3
        <4>. QED
          BY <2>2, <4>1, <4>2 DEF PickerGetAll
      <3>. QED
        BY <3>1, <3>2
    <2>3. CASE PickerPrint
      BY <1>1, <2>3 DEF PickerPrint, storeVars, workVars, clientVars
    <2>4. CASE PickerCheck
      <3>1. UNCHANGED <<crons, queue, pc, job, clientPc>>
        BY <2>4 DEF PickerCheck, storeVars, workVars, clientVars
      <3>2. snapshot' = snapshot \/ (snapshot # <<>> /\ snapshot' = Tail(snapshot))
        BY <2>4 DEF PickerCheck
      <3>3. \A n \in DOMAIN snapshot' : OfMain(snapshot'[n])
        BY <1>0, <3>2, TailElements
      <3>. QED
        BY <3>1, <3>3
    <2>5. CASE PickerPut
      <3>1. UNCHANGED <<crons, pc, job, clientPc>>
        BY <2>5 DEF PickerPut, storeVars, workVars, clientVars
      <3>2. /\ snapshot # <<>> /\ Head(snapshot) \in CronModel
            /\ Head(snapshot) = snapshot[1] /\ 1 \in DOMAIN snapshot
        BY <1>0, <2>5 DEF PickerPut, TypeInv, Shape
      <3>3. \A n \in DOMAIN snapshot' : OfMain(snapshot'[n])
        BY <1>0, <2>5, <3>2, TailElements DEF PickerPut
      <3>4. \A n \in DOMAIN queue' : OfMain(queue'[n])
        BY <1>0, <2>5, <3>2 DEF PickerPut
      <3>. QED
        BY <3>1, <3>3, <3>4
    <2>6. CASE PickerStart
      BY <1>0, <2>6 DEF PickerStart, storeVars, clientVars
    <2>. QED
      BY <1>3, <2>1, <2>2, <2>3, <2>4, <2>5, <2>6 DEF Picker
  <1>4. ASSUME NEW w \in Workers, Worker(w)
        PROVE  MainInv'
    <2>1. CASE WorkerLoop(w)
      BY <1>0, <2>1 DEF WorkerLoop, storeVars, pickVars, clientVars
    <2>2. CASE WorkerPoll(w)
      <3>1. UNCHANGED <<crons, snapshot, clientPc>>
        BY <2>2 DEF WorkerPoll, storeVars, pickVars, clientVars
      <3>2. CASE queue = <<>>
        BY <1>0, <2>2, <3>1, <3>2 DEF WorkerPoll
      <3>3. CASE queue # <<>>
        <4>1. Head(queue) = queue[1] /\ 1 \in DOMAIN queue
          BY <1>0, <3>3
        <4>2. \A n \in DOMAIN queue' : OfMain(queue'[n])
          <5>1. queue' = Tail(queue)
            BY <2>2, <3>3 DEF WorkerPoll
          <5>2. \A n \in DOMAIN queue' : n + 1 \in DOMAIN queue
                                         /\ queue'[n] = queue[n + 1]
            BY <1>0, <3>3, <5>1, TailElements
          <5>. QED
            BY <5>2
        <4>3. \A x \in Workers :
                 /\ x # w => job'[x] = job[x] /\ pc'[x] = pc[x]
                 /\ x = w => job'[x] = queue[1]
          BY <1>0, <2>2, <3>3, <4>1 DEF WorkerPoll, TypeInv, TypeOK
        <4>. QED
          BY <3>1, <4>1, <4>2, <4>3
      <3>. QED
        BY <3>2, <3>3
    <2>3. CASE WorkerSetNext(w)
      <3>1. UNCHANGED <<crons, snapshot, queue, clientPc>>
        BY <2>3 DEF WorkerSetNext, storeVars, pickVars, clientVars
      <3>2. job[w] \in CronModel /\ OfMain(job[w])
        BY <2>3 DEF WorkerSetNext, TypeInv, Shape
      <3>3. \A x \in Workers : /\ x # w => job'[x] = job[x] /\ pc'[x] = pc[x]
                               /\ OfMain(job'[w])
        <4>1. \/ job' = job
              \/ job' = [job EXCEPT ![w] = [job[w] EXCEPT !.next =
                             NextRunTime(job[w].trigger, now)]]
          BY <2>3 DEF WorkerSetNext
        <4>2. \A x \in Workers : x # w => job'[x] = job[x]
          BY <4>1 DEF TypeInv, TypeOK
        <4>3. job'[w].id = job[w].id /\ job'[w].trigger = job[w].trigger
          BY <3>2, <4>1 DEF TypeInv, TypeOK, CronModel
        <4>4. \A x \in Workers : x # w => pc'[x] = pc[x]
          BY <1>0, <2>3 DEF WorkerSetNext
        <4>. QED
          BY <3>2, <4>2, <4>3, <4>4
      <3>. QED
        BY <3>1, <3>3
    <2>4. CASE WorkerGetById(w)
      BY <1>0, <2>4 DEF WorkerGetById, storeVars, pickVars, clientVars
    <2>5. CASE WorkerUpdate(w)
      <3>1. UNCHANGED <<snapshot, queue, job, clientPc>>
        BY <2>5 DEF WorkerUpdate, pickVars, clientVars
      <3>2. /\ DOMAIN crons' = DOMAIN crons
            /\ \A n \in DOMAIN crons :
                  /\ crons'[n].id = crons[n].id
                  /\ crons'[n].trigger = EveryMinute
        BY <1>0, <2>5 DEF WorkerUpdate, Updated
      <3>. QED
        BY <1>0, <2>5, <3>1, <3>2 DEF WorkerUpdate
    <2>6. CASE WorkerClear(w)
      BY <1>0, <2>6 DEF WorkerClear, storeVars, pickVars, clientVars
    <2>. QED
      BY <1>4, <2>1, <2>2, <2>3, <2>4, <2>5, <2>6 DEF Worker
  <1>5. ASSUME NEW c \in Clients, Client(c)
        PROVE  FALSE
    BY <1>5 DEF Client, ClientCreate, ClientEdit, ClientUpdate, ClientDelete,
             ClientApply, Call
  <1>. QED
    BY <1>1, <1>2, <1>3, <1>4, <1>5
       DEF Next, vars, storeVars, pickVars, workVars, clientVars

\* The parser's promise, for the trigger of Main.
LEMMA MinuteNext ==
    ASSUME NEW s \in Times, NEW m \in Times, s <= m
    PROVE  /\ Minute(m) \in Nat /\ Minute(m) > m
           /\ Minute(s) <= m \/ Minute(m) = Minute(s)
  BY TriggerAssumption, NextAssumption, BoundAssumption DEF Minute, Times

\* The invariant of the times is inductive as long as nobody does.
LEMMA TimeStep ==
    ASSUME ClientOps = {}, TypeInv, ExecutorInv, MainInv, TimeInv, [Next]_vars
    PROVE  TimeInv'
  <1>. USE DEF TimeInv
  <1>0. /\ crons \in Seq(CronModel) /\ now \in Nat
        /\ pc \in [Workers -> Running \cup {"off", "dead"}]
    BY BoundAssumption DEF TypeInv, TypeOK, Times
  <1>1. CASE UNCHANGED <<crons, now, pc, job>>
    BY <1>1
  <1>2. CASE Tick
    <2>1. now' = now + 1 /\ UNCHANGED <<crons, pc, job>>
      BY <1>2 DEF Tick, storeVars, workVars
    <2>2. 0..now \subseteq 0..now'
      BY <1>0, <2>1
    <2>. QED
      BY <2>1, <2>2
  <1>3. CASE Picker
    <2>1. UNCHANGED <<crons, now, job>>
      BY <1>3 DEF Picker, PickerScan, PickerGetAll, PickerPrint, PickerCheck,
               PickerPut, PickerStart, storeVars, workVars
    <2>2. \A w \in Workers : pc'[w] \in {"getById", "update"} => pc'[w] = pc[w]
      BY <1>0, <1>3 DEF Picker, PickerScan, PickerGetAll, PickerPrint,
               PickerCheck, PickerPut, PickerStart, workVars
    <2>. QED
      BY <2>1, <2>2
  <1>4. ASSUME NEW w \in Workers, Worker(w)
        PROVE  TimeInv'
    <2>1. CASE WorkerLoop(w) \/ WorkerPoll(w) \/ WorkerClear(w)
      <3>1. UNCHANGED <<crons, now>>
        BY <2>1 DEF WorkerLoop, WorkerPoll, WorkerClear, storeVars
      <3>2. \A x \in Workers : pc'[x] \in {"getById", "update"} =>
               pc'[x] = pc[x] /\ job'[x] = job[x]
        BY <1>0, <2>1 DEF WorkerLoop, WorkerPoll, WorkerClear, TypeInv, TypeOK
      <3>. QED
        BY <3>1, <3>2
    <2>2. CASE WorkerSetNext(w)
      <3>1. UNCHANGED <<crons, now>>
        BY <2>2 DEF WorkerSetNext, storeVars
      <3>2. \A x \in Workers \ {w} : pc'[x] = pc[x] /\ job'[x] = job[x]
        BY <1>0, <2>2 DEF WorkerSetNext, TypeInv, TypeOK
      <3>3. job[w] \in CronModel /\ job[w].trigger = EveryMinute
        BY <2>2 DEF WorkerSetNext, TypeInv, Shape, MainInv, OfMain
      <3>4. job' = [job EXCEPT ![w] =
                       [job[w] EXCEPT !.next = NextRunTime(EveryMinute, now)]]
        BY <2>2, <3>3, TriggerAssumption DEF WorkerSetNext
      <3>5. job'[w].next = Minute(now)
        BY <3>3, <3>4 DEF TypeInv, TypeOK, CronModel, Minute
      <3>6. now \in 0..now
        BY <1>0
      <3>7. \E m \in 0..now :
               /\ job'[w].next = Minute(m)
               /\ \A n \in DOMAIN crons : crons[n].id = job'[w].id =>
                     \E s \in 0..m : crons[n].next = Minute(s)
        BY <3>5, <3>6
      <3>. QED
        BY <3>1, <3>2, <3>7
    <2>3. CASE WorkerGetById(w)
      <3>1. UNCHANGED <<crons, now, job>>
        BY <2>3 DEF WorkerGetById, storeVars
      <3>2. pc[w] = "getById"
        BY <2>3 DEF WorkerGetById
      <3>3. \A x \in Workers \ {w} : pc'[x] = pc[x]
        BY <1>0, <2>3 DEF WorkerGetById
      <3>4. \A x \in Workers : pc'[x] \in {"getById", "update"} =>
               pc[x] \in {"getById", "update"}
        BY <3>2, <3>3
      <3>. QED
        BY <3>1, <3>4
    <2>4. CASE WorkerUpdate(w)
      <3>1. /\ crons' = [n \in DOMAIN crons |->
                            IF crons[n].id = job[w].id THEN job[w] ELSE crons[n]]
            /\ UNCHANGED <<now, job>>
        BY <2>4 DEF WorkerUpdate, Updated
      <3>2. PICK m \in 0..now : job[w].next = Minute(m)
        BY <2>4 DEF WorkerUpdate
      <3>3. \A n \in DOMAIN crons' : \E s \in 0..now : crons'[n].next = Minute(s)
        BY <3>1, <3>2
      <3>4. \A x \in Workers : pc'[x] \notin {"getById", "update"}
        BY <1>0, <2>4 DEF WorkerUpdate, ExecutorInv, OneExecutor, Running
      <3>. QED
        BY <3>1, <3>3, <3>4
    <2>. QED
      BY <1>4, <2>1, <2>2, <2>3, <2>4 DEF Worker
  <1>5. ASSUME NEW c \in Clients, Client(c)
        PROVE  FALSE
    BY <1>5 DEF Client, ClientCreate, ClientEdit, ClientUpdate, ClientDelete,
             ClientApply, Call, MainInv
  <1>. QED
    BY <1>1, <1>2, <1>3, <1>4, <1>5 DEF Next, vars, storeVars, workVars

\* Both hold always, as long as nobody does.
LEMMA MainInvariance ==
    ASSUME ClientOps = {}
    PROVE  Spec => [](MainInv /\ TimeInv)
  <1>1. Init => MainInv /\ TimeInv
    <2>. SUFFICES ASSUME Init PROVE MainInv /\ TimeInv
      OBVIOUS
    <2>1. /\ \A n \in DOMAIN MainIds :
                /\ crons[n].id = MainIds[n] /\ crons[n].trigger = EveryMinute
                /\ crons[n].next = Minute(0)
          /\ DOMAIN crons = DOMAIN MainIds /\ 0 \in 0..now
      BY DEF Init, NewCron, Minute
    <2>2. MainInv
      BY <2>1 DEF Init, MainInv
    <2>3. TimeInv
      BY <2>1 DEF Init, TimeInv
    <2>. QED
      BY <2>2, <2>3
  <1>2. TypeInv /\ ExecutorInv /\ MainInv /\ TimeInv /\ [Next]_vars
           => MainInv' /\ TimeInv'
    BY MainStep, TimeStep
  <1>3. Spec => [](TypeInv /\ ExecutorInv)
    BY TypeInvariance, ExecutorInvariance, PTL
  <1>. QED
    BY <1>1, <1>2, <1>3, PTL DEF Spec

\* In the order of Main's list, the run times of the abstract schedule.
LEMMA DueOfMain ==
    ASSUME MainInv, NEW n \in DOMAIN MainIds
    PROVE  NextRunOf(MainIds[n]) = crons[n].next
  BY IdAssumption DEF MainInv, NextRunOf, GetById, Position

\* The initial states are initial states of the schedule.
LEMMA ScheduleInit == Init /\ MainInv => Schedule!Init
  <1>. SUFFICES ASSUME Init, MainInv PROVE Schedule!Init
    OBVIOUS
  <1>1. \A n \in DOMAIN MainIds : crons[n].next = Minute(0)
    BY DEF Init, NewCron, Minute
  <1>2. \A i \in MainJobs : NextRunOf(i) = AfterMinute(i, 0)
    BY <1>1, DueOfMain DEF MainJobs, AfterMinute, Minute
  <1>3. now = 0
    BY DEF Init
  <1>. QED
    BY <1>2, <1>3 DEF Schedule!Init

\* Every step of the threads is a step of the schedule: the executor's update
\* is Run of the cron it stores, or changes nothing.
LEMMA ScheduleStep ==
    ASSUME ClientOps = {}, TypeInv, MainInv, MainInv', TimeInv, [Next]_vars
    PROVE  [Schedule!Next]_<<now, [i \in MainJobs |-> NextRunOf(i)]>>
  <1>. DEFINE due == [i \in MainJobs |-> NextRunOf(i)]
  <1>0. /\ now \in Times /\ now \in Nat /\ crons \in Seq(CronModel)
        /\ Times = 0..MaxTime /\ MaxTime \in Nat
    BY BoundAssumption DEF TypeInv, TypeOK, Times
  <1>1. crons' = crons => due' = due
    BY DEF NextRunOf, GetById, Position
  <1>2. CASE Tick
    BY <1>1, <1>2 DEF Tick, storeVars, Schedule!Next, Schedule!Tick
  <1>3. ASSUME NEW w \in Workers, WorkerUpdate(w)
        PROVE  [Schedule!Next]_<<now, due>>
    <2>. DEFINE j == job[w].id
    <2>1. /\ crons' = [n \in DOMAIN crons |->
                          IF crons[n].id = j THEN job[w] ELSE crons[n]]
          /\ now' = now
      BY <1>3 DEF WorkerUpdate, Updated
    <2>2. PICK k \in DOMAIN MainIds : j = MainIds[k]
      BY <1>3 DEF WorkerUpdate, MainInv, OfMain, MainJobs
    <2>3. PICK m \in 0..now :
             /\ job[w].next = Minute(m)
             /\ \A n \in DOMAIN crons : crons[n].id = j =>
                   \E s \in 0..m : crons[n].next = Minute(s)
      BY <1>3 DEF WorkerUpdate, TimeInv
    <2>4. k \in DOMAIN crons /\ crons[k].id = j /\ due[j] = crons[k].next
      BY <2>2, DueOfMain DEF MainInv, MainJobs
    <2>5. PICK s \in 0..m : crons[k].next = Minute(s)
      BY <2>3, <2>4
    <2>6. due' = [due EXCEPT ![j] = Minute(m)]
      <3>1. \A n \in DOMAIN MainIds :
               NextRunOf(MainIds[n])' = IF MainIds[n] = j THEN Minute(m)
                                        ELSE NextRunOf(MainIds[n])
        <4>. SUFFICES ASSUME NEW n \in DOMAIN MainIds
                      PROVE  NextRunOf(MainIds[n])' =
                                IF MainIds[n] = j THEN Minute(m)
                                ELSE NextRunOf(MainIds[n])
          OBVIOUS
        <4>1. NextRunOf(MainIds[n])' = crons'[n].next
          BY IdAssumption DEF MainInv, NextRunOf, GetById, Position
        <4>2. NextRunOf(MainIds[n]) = crons[n].next
          BY DueOfMain
        <4>3. n \in DOMAIN crons /\ crons[n].id = MainIds[n]
          BY DEF MainInv
        <4>. QED
          BY <2>1, <2>3, <4>1, <4>2, <4>3
      <3>. QED
        BY <3>1 DEF MainJobs
    <2>7. m \in Times /\ s \in Times /\ s <= m /\ m <= now
      BY <1>0, <2>3, <2>5
    <2>8. due[j] <= m \/ Minute(m) = due[j]
      BY <2>4, <2>5, <2>7, MinuteNext
    <2>9. CASE Minute(m) = due[j]
      BY <2>1, <2>6, <2>9
    <2>10. CASE due[j] <= m
      <3>1. due[j] \in Nat
        BY <2>4, <2>5, <2>7, MinuteNext
      <3>2. m \in due[j]..now
        BY <1>0, <2>3, <2>10, <3>1
      <3>3. Schedule!Run(j)
        BY <2>1, <2>6, <3>2 DEF Schedule!Run, AfterMinute, Minute
      <3>4. j \in MainJobs
        BY <2>2 DEF MainJobs
      <3>. QED
        BY <3>3, <3>4 DEF Schedule!Next
    <2>. QED
      BY <2>8, <2>9, <2>10
  <1>4. ASSUME NEW w \in Workers, Worker(w), ~WorkerUpdate(w)
        PROVE  UNCHANGED <<now, crons>>
    BY <1>4 DEF Worker, WorkerLoop, WorkerPoll, WorkerSetNext, WorkerGetById,
             WorkerClear, storeVars
  <1>5. CASE Picker
    BY <1>1, <1>5 DEF Picker, PickerScan, PickerGetAll, PickerPrint, PickerCheck,
             PickerPut, PickerStart, storeVars
  <1>6. ASSUME NEW c \in Clients, Client(c)
        PROVE  FALSE
    BY <1>6 DEF Client, ClientCreate, ClientEdit, ClientUpdate, ClientDelete,
             ClientApply, Call, MainInv
  <1>7. CASE UNCHANGED vars
    BY <1>1, <1>7 DEF vars, storeVars
  <1>. QED
    BY <1>1, <1>2, <1>3, <1>4, <1>5, <1>6, <1>7 DEF Next

\* Without callers of the store the picker and the executor implement the
\* abstract schedule, for any crons, threads, queue and parser that keeps its
\* promise: stale clones and repeated executions never bring a run time back
\* nor skip one that has not come (CronPicker 44-56, CronExecutor 59-76).
THEOREM ScheduleIsKept ==
    ASSUME ClientOps = {}
    PROVE  Spec => KeepsSchedule
  <1>1. TypeInv /\ MainInv /\ MainInv' /\ TimeInv /\ [Next]_vars
           => [Schedule!Next]_<<now, [i \in MainJobs |-> NextRunOf(i)]>>
    BY ScheduleStep
  <1>. QED
    BY <1>1, MainInvariance, TypeInvariance, ScheduleInit, PTL
       DEF Spec, KeepsSchedule, Schedule!Spec

-----------------------------------------------------------------------------
(* A due time is executed at most three times.                             *)

ExecutedFor(i, d) == {n \in DOMAIN runs[i] : runs[i][n] = d}
Executed(i, d) == Cardinality(ExecutedFor(i, d))

Holds(list, i, d) == \E n \in DOMAIN list : list[n].id = i /\ list[n].next = d

\* The executor is about to store a later time for i, or has died for good.
Busy(i, d) ==
    /\ t \in Workers
    /\ \/ pc[t] = "dead"
       \/ job[t].id = i /\ pc[t] = "setNext"
       \/ job[t].id = i /\ pc[t] \in {"getById", "update"} /\ job[t].next > d

\* The clones of a scan are of distinct crons.
CloneInv ==
    /\ \A m, n \in DOMAIN snapshot : snapshot[m].id = snapshot[n].id => m = n
    /\ pickPc = "getAll" => \A n \in DOMAIN snapshot : \E k \in DOMAIN MainIds :
                               k < pickIter.cursor /\ snapshot[n].id = MainIds[k]

\* While a cron has a due time in the store, the time was not executed yet, or
\* once by an executor that has not come to its update.  After that one entry of
\* the queue and one clone of the picker may still have it.
ThriceOf(i, d) ==
    /\ Executed(i, d) \in 0..3
    /\ Holds(queue, i, d) => Executed(i, d) <= 2
    /\ Holds(snapshot, i, d) => Executed(i, d) <= 2
    /\ Holds(queue, i, d) /\ Holds(snapshot, i, d) => Executed(i, d) <= 1
    /\ \A n \in DOMAIN crons : crons[n].id = i =>
          /\ crons[n].next < d =>
                Executed(i, d) = 0 /\ ~Holds(queue, i, d) /\ ~Holds(snapshot, i, d)
          /\ crons[n].next = d => Executed(i, d) = 0 \/ (Executed(i, d) = 1 /\ Busy(i, d))

ThriceInv == \A i \in Ids : \A d \in Nat : ThriceOf(i, d)

\* The runs of a cron at one due time are finitely many.
LEMMA ExecutedType ==
    ASSUME TypeInv, NEW i \in Ids, NEW d \in Nat
    PROVE  Executed(i, d) \in Nat /\ IsFiniteSet(ExecutedFor(i, d))
  <1>1. runs[i] \in Seq(Nat) /\ Len(runs[i]) \in Nat
    BY DEF TypeInv, TypeOK
  <1>2. IsFiniteSet(1..Len(runs[i]))
    BY <1>1, FS_Interval
  <1>3. ExecutedFor(i, d) \subseteq 1..Len(runs[i])
    BY <1>1 DEF ExecutedFor
  <1>. QED
    BY <1>2, <1>3, FS_Subset, FS_CardinalityType DEF Executed

\* A poll counts for the due time of the clone polled.
LEMMA PollCounts ==
    ASSUME TypeInv, queue # <<>>, NEW i \in Ids, NEW d \in Nat,
           runs' = [runs EXCEPT ![Head(queue).id] = Append(@, Head(queue).next)]
    PROVE  Executed(i, d)' = IF Head(queue).id = i /\ Head(queue).next = d
                             THEN Executed(i, d) + 1 ELSE Executed(i, d)
  <1>. DEFINE h == Head(queue)
  <1>1. h \in CronModel /\ runs \in [Ids -> Seq(Nat)]
    BY DEF TypeInv, TypeOK
  <1>2. h.id \in Ids /\ h.next \in Nat
    BY <1>1 DEF CronModel
  <1>3. CASE h.id # i
    <2>1. runs'[i] = runs[i]
      BY <1>1, <1>3
    <2>2. Executed(i, d)' = Executed(i, d)
      BY <2>1 DEF Executed, ExecutedFor
    <2>. QED
      BY <1>3, <2>2
  <1>4. CASE h.id = i
    <2>1. runs'[i] = Append(runs[i], h.next) /\ runs[i] \in Seq(Nat)
      BY <1>1, <1>2, <1>4
    <2>2. PICK l \in Nat : l = Len(runs[i])
      BY <2>1
    <2>3. /\ DOMAIN runs'[i] = 1..(l + 1) /\ DOMAIN runs[i] = 1..l
          /\ runs'[i][l + 1] = h.next
          /\ \A n \in 1..l : runs'[i][n] = runs[i][n]
      BY <1>2, <2>1, <2>2
    <2>4. 1..(l + 1) = 1..l \cup {l + 1} /\ l + 1 \notin 1..l
      BY <2>2
    <2>5. /\ ExecutedFor(i, d)' = {n \in 1..(l + 1) : runs'[i][n] = d}
          /\ ExecutedFor(i, d) = {n \in 1..l : runs[i][n] = d}
      BY <2>3 DEF ExecutedFor
    <2>6. CASE h.next = d
      <3>1. /\ ExecutedFor(i, d)' = ExecutedFor(i, d) \cup {l + 1}
            /\ l + 1 \notin ExecutedFor(i, d)
        BY <2>3, <2>4, <2>5, <2>6
      <3>. QED
        BY <1>4, <2>6, <3>1, ExecutedType, FS_AddElement DEF Executed
    <2>7. CASE h.next # d
      <3>1. ExecutedFor(i, d)' = ExecutedFor(i, d)
        BY <2>3, <2>4, <2>5, <2>7
      <3>. QED
        BY <2>7, <3>1 DEF Executed
    <2>. QED
      BY <2>6, <2>7
  <1>. QED
    BY <1>3, <1>4

\* The invariant of the clones is inductive.
LEMMA CloneStep ==
    ASSUME TypeInv, MainInv, CloneInv, [Next]_vars, ClientOps = {}
    PROVE  CloneInv'
  <1>. USE DEF CloneInv
  <1>0. /\ snapshot \in Seq(CronModel) /\ crons \in Seq(CronModel)
        /\ pickIter \in Iterators /\ MainIds \in Seq(Ids)
    BY IdAssumption DEF TypeInv, TypeOK
  <1>1. CASE UNCHANGED <<snapshot, pickPc, pickIter>>
    BY <1>1
  <1>2. CASE PickerScan
    BY <1>2 DEF PickerScan
  <1>3. CASE PickerGetAll
    <2>1. CASE ~HasNext(pickIter) \/ Comodified(pickIter)
      BY <1>3, <2>1 DEF PickerGetAll
    <2>2. CASE HasNext(pickIter) /\ ~Comodified(pickIter)
      <3>1. PICK k : k = pickIter.cursor
        OBVIOUS
      <3>2. /\ k \in DOMAIN MainIds /\ k \in Nat
            /\ crons[k].id = MainIds[k]
            /\ crons[k] \in CronModel
        <4>1. k \in 1..Len(crons) /\ k \in Nat
          BY <1>0, <2>2, <3>1
             DEF TypeInv, Shape, Sound, HasNext, Comodified, Iterators
        <4>. QED
          BY <1>0, <4>1 DEF MainInv
      <3>3. /\ snapshot' = Append(snapshot, crons[k])
            /\ pickIter' = Advance(pickIter) /\ pickPc' = "getAll"
            /\ pickPc = "getAll"
        BY <1>3, <2>2, <3>1 DEF PickerGetAll
      <3>4. pickIter'.cursor = k + 1
        BY <1>0, <3>1, <3>3 DEF Advance, Iterators
      <3>5. PICK l \in Nat : l = Len(snapshot)
        BY <1>0
      <3>6. /\ DOMAIN snapshot' = 1..(l + 1) /\ DOMAIN snapshot = 1..l
            /\ snapshot'[l + 1] = crons[k]
            /\ \A n \in 1..l : snapshot'[n] = snapshot[n]
        BY <1>0, <3>2, <3>3, <3>5
      <3>7. \A n \in 1..(l + 1) : n \in 1..l \/ n = l + 1
        BY <3>5
      <3>8. \A n \in 1..l : \E j \in DOMAIN MainIds :
                               j < k /\ snapshot[n].id = MainIds[j]
        BY <3>1, <3>3, <3>6
      <3>9. \A n \in 1..l : snapshot[n].id # MainIds[k]
        <4>. SUFFICES ASSUME NEW n \in 1..l, snapshot[n].id = MainIds[k]
                      PROVE  FALSE
          OBVIOUS
        <4>1. PICK j \in DOMAIN MainIds : j < k /\ snapshot[n].id = MainIds[j]
          BY <3>8
        <4>2. j = k
          BY <3>2, <4>1, IdAssumption
        <4>. QED
          BY <3>2, <4>1, <4>2
      <3>10. \A m, n \in DOMAIN snapshot' : snapshot'[m].id = snapshot'[n].id => m = n
        <4>. SUFFICES ASSUME NEW m \in 1..(l + 1), NEW n \in 1..(l + 1),
                             snapshot'[m].id = snapshot'[n].id
                      PROVE  m = n
          BY <3>6
        <4>1. CASE m \in 1..l /\ n \in 1..l
          BY <3>6, <4>1
        <4>2. CASE m = l + 1 /\ n = l + 1
          BY <4>2
        <4>3. CASE m \in 1..l /\ n = l + 1
          BY <3>2, <3>6, <3>9, <4>3
        <4>4. CASE m = l + 1 /\ n \in 1..l
          BY <3>2, <3>6, <3>9, <4>4
        <4>. QED
          BY <3>7, <4>1, <4>2, <4>3, <4>4
      <3>11. \A n \in DOMAIN snapshot' : \E j \in DOMAIN MainIds :
                j < k + 1 /\ snapshot'[n].id = MainIds[j]
        <4>. SUFFICES ASSUME NEW n \in 1..(l + 1)
                      PROVE  \E j \in DOMAIN MainIds :
                                j < k + 1 /\ snapshot'[n].id = MainIds[j]
          BY <3>6
        <4>1. CASE n \in 1..l
          <5>1. PICK j \in DOMAIN MainIds : j < k /\ snapshot[n].id = MainIds[j]
            BY <3>8, <4>1
          <5>2. j < k + 1
            BY <1>0, <3>2, <5>1
          <5>. QED
            BY <3>6, <4>1, <5>1, <5>2
        <4>2. CASE n = l + 1
          BY <3>2, <3>6, <4>2
        <4>. QED
          BY <3>7, <4>1, <4>2
      <3>. QED
        BY <3>4, <3>10, <3>11
    <2>. QED
      BY <2>1, <2>2
  <1>4. CASE PickerCheck \/ PickerPut
    <2>1. pickPc' # "getAll"
      BY <1>4 DEF PickerCheck, PickerPut
    <2>2. snapshot' = snapshot \/ (snapshot # <<>> /\ snapshot' = Tail(snapshot))
      BY <1>4 DEF PickerCheck, PickerPut, TypeInv, Shape
    <2>3. CASE snapshot' = snapshot
      BY <2>1, <2>3
    <2>4. CASE snapshot # <<>> /\ snapshot' = Tail(snapshot)
      <3>. SUFFICES ASSUME NEW m \in DOMAIN snapshot', NEW n \in DOMAIN snapshot',
                           snapshot'[m].id = snapshot'[n].id
                    PROVE  m = n
        BY <2>1
      <3>1. /\ m + 1 \in DOMAIN snapshot /\ snapshot'[m] = snapshot[m + 1]
            /\ n + 1 \in DOMAIN snapshot /\ snapshot'[n] = snapshot[n + 1]
            /\ m \in Nat /\ n \in Nat
        BY <1>0, <2>4, TailElements
      <3>2. m + 1 = n + 1
        BY <3>1
      <3>. QED
        BY <3>1, <3>2
    <2>. QED
      BY <2>2, <2>3, <2>4
  <1>5. CASE PickerPrint
    BY <1>5 DEF PickerPrint
  <1>6. CASE PickerStart
    BY <1>6 DEF PickerStart
  <1>7. CASE Tick
    BY <1>1, <1>7 DEF Tick, pickVars
  <1>8. ASSUME NEW w \in Workers, Worker(w)
        PROVE  CloneInv'
    BY <1>1, <1>8 DEF Worker, WorkerLoop, WorkerPoll, WorkerSetNext,
             WorkerGetById, WorkerUpdate, WorkerClear, pickVars
  <1>9. ASSUME NEW c \in Clients, Client(c)
        PROVE  FALSE
    BY <1>9 DEF Client, ClientCreate, ClientEdit, ClientUpdate, ClientDelete,
             ClientApply, Call, MainInv
  <1>. QED
    BY <1>1, <1>2, <1>3, <1>4, <1>5, <1>6, <1>7, <1>8, <1>9
       DEF Next, Picker, vars, pickVars


\* An entry or a clone is found behind the head of a list, or at its head.
LEMMA HoldsTail ==
    ASSUME NEW q \in Seq(CronModel), q # <<>>, NEW i, NEW d
    PROVE  /\ Holds(Tail(q), i, d) => Holds(q, i, d)
           /\ Head(q).id = i /\ Head(q).next = d => Holds(q, i, d)
           /\ (\A m, n \in DOMAIN q : q[m].id = q[n].id => m = n)
                 => (Head(q).id = i => ~Holds(Tail(q), i, d))
  <1>1. \A n \in DOMAIN Tail(q) : /\ n + 1 \in DOMAIN q /\ Tail(q)[n] = q[n + 1]
                                  /\ n \in Nat /\ n + 1 # 1 /\ n # 0
    BY TailElements
  <1>2. 1 \in DOMAIN q /\ Head(q) = q[1]
    OBVIOUS
  <1>. QED
    BY <1>1, <1>2 DEF Holds

\* An added entry is found, and no other that was not there.
LEMMA HoldsAppend ==
    ASSUME NEW q \in Seq(CronModel), NEW c \in CronModel, NEW i, NEW d
    PROVE  Holds(Append(q, c), i, d) <=> Holds(q, i, d) \/ (c.id = i /\ c.next = d)
  <1>1. PICK l \in Nat : l = Len(q)
    OBVIOUS
  <1>2. /\ DOMAIN Append(q, c) = 1..(l + 1) /\ DOMAIN q = 1..l
        /\ Append(q, c)[l + 1] = c
        /\ \A n \in 1..l : Append(q, c)[n] = q[n]
    BY <1>1
  <1>3. 1..(l + 1) = 1..l \cup {l + 1}
    BY <1>1
  <1>. QED
    BY <1>2, <1>3 DEF Holds

\* What every step of the picker keeps.
LEMMA ThricePicker ==
    ASSUME TypeInv, MainInv, CloneInv, Picker, NEW i \in Ids, NEW d \in Nat,
           ThriceOf(i, d)
    PROVE  ThriceOf(i, d)'
  <1>0. /\ snapshot \in Seq(CronModel) /\ crons \in Seq(CronModel)
        /\ queue \in Seq(CronModel) /\ MainIds \in Seq(Ids)
        /\ Executed(i, d) \in Nat
    BY IdAssumption, ExecutedType DEF TypeInv, TypeOK
  <1>1. UNCHANGED <<crons, job, runs>> /\ Executed(i, d)' = Executed(i, d)
    BY DEF Picker, PickerScan, PickerGetAll, PickerPrint, PickerCheck, PickerPut,
           PickerStart, storeVars, workVars, Executed, ExecutedFor
  <1>2. ~PickerStart => UNCHANGED <<t, pc>>
    BY DEF Picker, PickerScan, PickerGetAll, PickerPrint, PickerCheck, PickerPut,
           workVars
  <1>3. UNCHANGED <<t, pc>> => Busy(i, d)' = Busy(i, d)
    BY <1>1 DEF Busy
  <1>4. ASSUME UNCHANGED <<queue, t, pc>>,
               Holds(snapshot', i, d) => Holds(snapshot, i, d)
        PROVE  ThriceOf(i, d)'
    BY <1>1, <1>3, <1>4 DEF ThriceOf, Holds
  <1>5. CASE PickerScan
    <2>1. snapshot' = <<>> /\ UNCHANGED queue
      BY <1>5 DEF PickerScan
    <2>2. ~Holds(snapshot', i, d)
      BY <2>1 DEF Holds
    <2>. QED
      BY <1>2, <1>4, <1>5, <2>1, <2>2 DEF PickerScan, workVars
  <1>6. CASE PickerGetAll
    <2>1. UNCHANGED <<queue, t, pc>>
      BY <1>6 DEF PickerGetAll, workVars
    <2>2. CASE snapshot' = snapshot
      BY <1>4, <2>1, <2>2
    <2>3. CASE snapshot' # snapshot
      <3>1. PICK k : k = pickIter.cursor
        OBVIOUS
      <3>2. /\ HasNext(pickIter) /\ ~Comodified(pickIter)
            /\ snapshot' = Append(snapshot, crons[k])
        BY <1>6, <2>3, <3>1 DEF PickerGetAll
      <3>3. k \in DOMAIN crons /\ crons[k] \in CronModel
        BY <1>0, <3>1, <3>2 DEF TypeInv, TypeOK, Shape, Sound, HasNext, Comodified,
                                Iterators
      <3>4. Holds(snapshot', i, d) <=>
               Holds(snapshot, i, d) \/ (crons[k].id = i /\ crons[k].next = d)
        BY <1>0, <3>2, <3>3, HoldsAppend
      <3>5. CASE crons[k].id = i /\ crons[k].next = d
        <4>1. Executed(i, d) = 0 \/ (Executed(i, d) = 1 /\ Busy(i, d))
          BY <3>3, <3>5 DEF ThriceOf
        <4>2. ASSUME NEW n \in DOMAIN crons, crons[n].id = i
              PROVE  crons[n].next = d
          <5>1. n = k
            BY <3>3, <3>5, <4>2, IdAssumption DEF MainInv
          <5>. QED
            BY <3>5, <5>1
        <4>. QED
          BY <1>0, <1>1, <1>3, <2>1, <4>1, <4>2 DEF ThriceOf, Holds
      <3>6. CASE ~(crons[k].id = i /\ crons[k].next = d)
        BY <1>4, <2>1, <3>4, <3>6
      <3>. QED
        BY <3>5, <3>6
    <2>. QED
      BY <2>2, <2>3
  <1>7. CASE PickerPrint
    BY <1>2, <1>4, <1>7 DEF PickerPrint, PickerStart, workVars
  <1>8. CASE PickerCheck
    <2>1. UNCHANGED <<queue, t, pc>>
      BY <1>8 DEF PickerCheck, workVars
    <2>2. Holds(snapshot', i, d) => Holds(snapshot, i, d)
      <3>1. snapshot' = snapshot \/ (snapshot # <<>> /\ snapshot' = Tail(snapshot))
        BY <1>8 DEF PickerCheck
      <3>. QED
        BY <1>0, <3>1, HoldsTail
    <2>. QED
      BY <1>4, <2>1, <2>2
  <1>9. CASE PickerPut
    <2>. DEFINE h == Head(snapshot)
    <2>0. snapshot # <<>> /\ h \in CronModel
      BY <1>0, <1>9 DEF PickerPut, TypeInv, Shape
    <2>1. /\ queue' = Append(queue, h) /\ snapshot' = Tail(snapshot)
          /\ UNCHANGED <<t, pc>>
      BY <1>9 DEF PickerPut, workVars
    <2>2. /\ Holds(snapshot', i, d) => Holds(snapshot, i, d)
          /\ h.id = i /\ h.next = d => Holds(snapshot, i, d)
          /\ h.id = i => ~Holds(snapshot', i, d)
      BY <1>0, <2>0, <2>1, HoldsTail DEF CloneInv
    <2>3. Holds(queue', i, d) <=> Holds(queue, i, d) \/ (h.id = i /\ h.next = d)
      BY <1>0, <2>0, <2>1, HoldsAppend
    <2>. HIDE DEF h
    <2>. QED
      BY <1>1, <1>3, <2>1, <2>2, <2>3 DEF ThriceOf, Holds
  <1>10. CASE PickerStart
    <2>1. UNCHANGED <<snapshot, queue>>
      BY <1>10 DEF PickerStart
    <2>2. CASE t # NoThread
      BY <1>4, <1>10, <2>1, <2>2 DEF PickerStart
    <2>3. CASE t = NoThread
      <3>1. ~Busy(i, d)
        BY <2>3, ThreadAssumption DEF Busy
      <3>. QED
        BY <1>1, <2>1, <3>1 DEF ThriceOf, Holds
    <2>. QED
      BY <2>2, <2>3
  <1>. QED
    BY <1>5, <1>6, <1>7, <1>8, <1>9, <1>10 DEF Picker

\* What every step of an executor keeps.
LEMMA ThriceWorker ==
    ASSUME TypeInv, ExecutorInv, QueueInv, NeverEarly, MainInv, TimeInv,
           NEW w \in Workers, Worker(w), NEW i \in Ids, NEW d \in Nat,
           ThriceOf(i, d)
    PROVE  ThriceOf(i, d)'
  <1>0. /\ snapshot \in Seq(CronModel) /\ crons \in Seq(CronModel)
        /\ queue \in Seq(CronModel) /\ MainIds \in Seq(Ids)
        /\ pc \in [Workers -> Running \cup {"off", "dead"}]
        /\ job \in [Workers -> CronModel \cup {<<>>}]
        /\ now \in Times /\ Executed(i, d) \in Nat
    BY IdAssumption, ExecutedType DEF TypeInv, TypeOK
  <1>a. now \in Nat
    BY <1>0, BoundAssumption DEF Times
  <1>1. pc[w] \in Running /\ t = w
    BY DEF Worker, WorkerLoop, WorkerPoll, WorkerSetNext, WorkerGetById,
           WorkerUpdate, WorkerClear, Running, ExecutorInv, OneExecutor
  <1>2. UNCHANGED snapshot
    BY DEF Worker, WorkerLoop, WorkerPoll, WorkerSetNext, WorkerGetById,
           WorkerUpdate, WorkerClear, pickVars
  <1>3. UNCHANGED runs => Executed(i, d)' = Executed(i, d)
    BY DEF Executed, ExecutedFor
  <1>4. ASSUME UNCHANGED <<crons, queue, runs>>, ~Busy(i, d) \/ Busy(i, d)'
        PROVE  ThriceOf(i, d)'
    BY <1>2, <1>3, <1>4 DEF ThriceOf, Holds
  <1>5. CASE WorkerLoop(w) \/ WorkerClear(w)
    <2>1. UNCHANGED <<crons, queue, runs>>
      BY <1>5 DEF WorkerLoop, WorkerClear, storeVars
    <2>2. ~Busy(i, d)
      BY <1>1, <1>5 DEF WorkerLoop, WorkerClear, Busy
    <2>. QED
      BY <1>4, <2>1, <2>2
  <1>6. CASE WorkerPoll(w)
    <2>. DEFINE h == Head(queue)
    <2>0. queue # <<>> /\ pc[w] = "poll"
      BY <1>6 DEF WorkerPoll, ExecutorInv, PollFindsJob
    <2>1. /\ queue' = Tail(queue) /\ UNCHANGED <<crons, t>>
          /\ runs' = [runs EXCEPT ![Head(queue).id] = Append(@, Head(queue).next)]
          /\ job'[w] = h /\ pc'[w] = "setNext"
      BY <1>0, <1>6, <2>0 DEF WorkerPoll, storeVars
    <2>2. ~Busy(i, d)
      BY <1>1, <2>0 DEF Busy
    <2>3. /\ Holds(queue', i, d) => Holds(queue, i, d)
          /\ h.id = i /\ h.next = d => Holds(queue, i, d) /\ ~Holds(queue', i, d)
      BY <1>0, <2>0, <2>1, HoldsTail DEF QueueInv, QueueDistinct
    <2>4. Executed(i, d)' = IF h.id = i /\ h.next = d
                            THEN Executed(i, d) + 1 ELSE Executed(i, d)
      BY <2>0, <2>1, PollCounts
    <2>5. h.id = i => Busy(i, d)'
      BY <1>1, <2>1 DEF Busy
    <2>6. Holds(snapshot', i, d) = Holds(snapshot, i, d)
      BY <1>2
    <2>. HIDE DEF h
    <2>7. CASE h.id = i /\ h.next = d
      <3>1. /\ Executed(i, d) <= 2
            /\ Holds(snapshot, i, d) => Executed(i, d) <= 1
            /\ \A n \in DOMAIN crons : crons[n].id = i =>
                  /\ ~(crons[n].next < d)
                  /\ crons[n].next = d => Executed(i, d) = 0
        BY <2>2, <2>3, <2>7 DEF ThriceOf
      <3>2. Executed(i, d)' = Executed(i, d) + 1
        BY <2>4, <2>7
      <3>3. ~Holds(queue, i, d)'
        BY <2>3, <2>7 DEF Holds
      <3>4. Holds(snapshot, i, d)' = Holds(snapshot, i, d)
        BY <2>6 DEF Holds
      <3>5. Busy(i, d)' /\ UNCHANGED crons
        BY <2>1, <2>5, <2>7
      <3>. QED
        BY <1>0, <3>1, <3>2, <3>3, <3>4, <3>5 DEF ThriceOf
    <2>8. CASE ~(h.id = i /\ h.next = d)
      <3>1. Executed(i, d)' = Executed(i, d)
        BY <2>4, <2>8
      <3>2. Holds(queue, i, d)' => Holds(queue, i, d)
        BY <2>3 DEF Holds
      <3>3. Holds(snapshot, i, d)' = Holds(snapshot, i, d)
        BY <2>6 DEF Holds
      <3>. QED
        BY <2>1, <2>2, <3>1, <3>2, <3>3 DEF ThriceOf
    <2>. QED
      BY <2>7, <2>8
  <1>7. CASE WorkerSetNext(w)
    <2>1. UNCHANGED <<crons, queue, runs, t>> /\ pc[w] = "setNext"
      BY <1>7 DEF WorkerSetNext, storeVars
    <2>2. job[w] \in CronModel /\ job[w].trigger = EveryMinute
      BY <2>1 DEF TypeInv, Shape, MainInv, OfMain
    <2>3. /\ pc'[w] = "getById"
          /\ job' = [job EXCEPT ![w] =
                        [job[w] EXCEPT !.next = NextRunTime(EveryMinute, now)]]
      BY <1>0, <1>7, <2>2, TriggerAssumption DEF WorkerSetNext
    <2>4. job'[w].next = Minute(now) /\ job'[w].id = job[w].id
      BY <1>0, <2>2, <2>3 DEF CronModel, Minute
    <2>5. Minute(now) \in Nat /\ Minute(now) > now
      BY <1>0, <1>a, MinuteNext
    <2>6. CASE Executed(i, d) = 0
      BY <1>0, <1>2, <1>3, <2>1, <2>6 DEF ThriceOf, Holds
    <2>7. CASE Executed(i, d) # 0 /\ Busy(i, d)
      <3>1. ExecutedFor(i, d) # {}
        BY <2>7, FS_EmptySet DEF Executed
      <3>2. d < now
        BY <1>a, <3>1 DEF ExecutedFor, NeverEarly
      <3>3. job[w].id = i
        BY <1>1, <2>1, <2>7 DEF Busy
      <3>4. Busy(i, d)'
        BY <1>0, <1>a, <1>1, <2>1, <2>3, <2>4, <2>5, <3>2, <3>3 DEF Busy
      <3>. QED
        BY <1>4, <2>1, <3>4
    <2>. QED
      BY <1>4, <2>1, <2>6, <2>7
  <1>8. CASE WorkerGetById(w)
    <2>1. UNCHANGED <<crons, queue, runs, t, job>> /\ pc[w] = "getById"
      BY <1>8 DEF WorkerGetById, storeVars
    <2>2. pc'[w] \in {"dead", "update", "getById"}
      BY <1>0, <1>8 DEF WorkerGetById
    <2>3. ~Busy(i, d) \/ Busy(i, d)'
      BY <1>1, <2>1, <2>2 DEF Busy
    <2>. QED
      BY <1>4, <2>1, <2>3
  <1>9. CASE WorkerUpdate(w)
    <2>1. /\ crons' = [n \in DOMAIN crons |->
                          IF crons[n].id = job[w].id THEN job[w] ELSE crons[n]]
          /\ UNCHANGED <<queue, runs>> /\ pc[w] = "update"
      BY <1>9 DEF WorkerUpdate, Updated
    <2>2. job[w] \in CronModel
      BY <2>1 DEF TypeInv, Shape
    <2>3. PICK m \in 0..now :
             /\ job[w].next = Minute(m)
             /\ \A n \in DOMAIN crons : crons[n].id = job[w].id =>
                   \E s \in 0..m : crons[n].next = Minute(s)
      BY <2>1 DEF TimeInv
    <2>4. ASSUME NEW n \in DOMAIN crons, crons[n].id = job[w].id
          PROVE  /\ crons[n].next \in Nat /\ Minute(m) \in Nat
                 /\ crons[n].next <= Minute(m)
      <3>1. PICK s \in 0..m : crons[n].next = Minute(s)
        BY <2>3, <2>4
      <3>2. m \in Times /\ s \in Times /\ s <= m /\ m \in Nat
        BY <1>0, <1>a, <2>3, BoundAssumption DEF Times
      <3>. QED
        BY <3>1, <3>2, MinuteNext
    <2>5. ASSUME NEW n \in DOMAIN crons', crons'[n].id = i
          PROVE  /\ crons'[n].next < d =>
                       Executed(i, d) = 0 /\ ~Holds(queue, i, d) /\ ~Holds(snapshot, i, d)
                 /\ crons'[n].next = d => Executed(i, d) = 0
      <3>0. n \in DOMAIN crons
        BY <2>1
      <3>1. CASE crons[n].id = job[w].id
        <4>1. crons'[n] = job[w] /\ job[w].id = i /\ crons[n].id = i
          BY <2>1, <2>5, <3>0, <3>1
        <4>2. crons'[n].next = Minute(m)
          BY <2>3, <4>1
        <4>3. crons[n].next \in Nat /\ Minute(m) \in Nat /\ crons[n].next <= Minute(m)
          BY <2>4, <3>0, <3>1
        <4>4. Busy(i, d) => Minute(m) > d
          BY <1>1, <2>1, <2>3 DEF Busy
        <4>5. crons[n].next < d =>
                 Executed(i, d) = 0 /\ ~Holds(queue, i, d) /\ ~Holds(snapshot, i, d)
          BY <3>0, <4>1 DEF ThriceOf
        <4>6. crons[n].next = d => Executed(i, d) = 0 \/ Busy(i, d)
          BY <3>0, <4>1 DEF ThriceOf
        <4>. QED
          BY <4>2, <4>3, <4>4, <4>5, <4>6
      <3>2. CASE crons[n].id # job[w].id
        <4>1. crons'[n] = crons[n] /\ crons[n].id = i
          BY <2>1, <2>5, <3>0, <3>2
        <4>2. ~Busy(i, d)
          BY <1>1, <2>1, <3>2, <4>1 DEF Busy
        <4>. QED
          BY <3>0, <4>1, <4>2 DEF ThriceOf
      <3>. QED
        BY <3>1, <3>2
    <2>. QED
      BY <1>2, <1>3, <2>1, <2>5 DEF ThriceOf, Holds
  <1>. QED
    BY <1>5, <1>6, <1>7, <1>8, <1>9 DEF Worker


\* The invariant of the executions is inductive.
LEMMA ThriceStep ==
    ASSUME ClientOps = {}, TypeInv, ExecutorInv, QueueInv, NeverEarly, MainInv,
           TimeInv, CloneInv, ThriceInv, [Next]_vars
    PROVE  ThriceInv'
  <1>. SUFFICES ASSUME NEW i \in Ids, NEW d \in Nat PROVE ThriceOf(i, d)'
    BY DEF ThriceInv
  <1>1. ThriceOf(i, d)
    BY DEF ThriceInv
  <1>2. CASE Picker
    BY <1>1, <1>2, ThricePicker
  <1>3. ASSUME NEW w \in Workers, Worker(w)
        PROVE  ThriceOf(i, d)'
    BY <1>1, <1>3, ThriceWorker
  <1>4. CASE UNCHANGED <<crons, queue, snapshot, runs, t, pc, job>>
    BY <1>1, <1>4 DEF ThriceOf, Executed, ExecutedFor, Holds, Busy
  <1>5. ASSUME NEW c \in Clients, Client(c)
        PROVE  FALSE
    BY <1>5 DEF Client, ClientCreate, ClientEdit, ClientUpdate, ClientDelete,
             ClientApply, Call, MainInv
  <1>6. Tick => UNCHANGED <<crons, queue, snapshot, runs, t, pc, job>>
    BY DEF Tick, storeVars, pickVars, workVars
  <1>. QED
    BY <1>2, <1>3, <1>4, <1>5, <1>6
       DEF Next, vars, storeVars, pickVars, workVars

\* Nothing is executed, queued or cloned at the start.
LEMMA ThriceInit == Init => CloneInv /\ ThriceInv
  <1>. SUFFICES ASSUME Init PROVE CloneInv /\ ThriceInv
    OBVIOUS
  <1>1. CloneInv
    BY DEF Init, CloneInv
  <1>2. ASSUME NEW i \in Ids, NEW d \in Nat
        PROVE  ThriceOf(i, d)
    <2>1. ExecutedFor(i, d) = {}
      BY DEF Init, ExecutedFor
    <2>2. Executed(i, d) = 0
      BY <2>1, FS_EmptySet DEF Executed
    <2>3. ~Holds(queue, i, d) /\ ~Holds(snapshot, i, d)
      BY DEF Init, Holds
    <2>. QED
      BY <2>2, <2>3 DEF ThriceOf
  <1>. QED
    BY <1>1, <1>2 DEF ThriceInv

\* While nobody edits the store, no due time of a cron is executed more than
\* three times, whatever the number of crons, the size of the queue and the
\* speed of the threads (CronPicker 46-53, CronExecutor 67-73).
THEOREM NeverMoreThanThrice == Spec => []AtMostThrice
  <1>1. CASE ClientOps = {}
    <2>1. TypeInv /\ ExecutorInv /\ QueueInv /\ NeverEarly /\ MainInv /\ TimeInv
             /\ CloneInv /\ ThriceInv /\ [Next]_vars => CloneInv' /\ ThriceInv'
      BY <1>1, CloneStep, ThriceStep
    <2>2. Spec => [](MainInv /\ TimeInv)
      BY <1>1, MainInvariance
    <2>3. Spec => [](CloneInv /\ ThriceInv)
      BY <2>1, <2>2, ThriceInit, TypeInvariance, ExecutorInvariance,
         QueueInvariance, NoEarlyExecution, PTL DEF Spec
    <2>4. ThriceInv => AtMostThrice
      BY BoundAssumption DEF ThriceInv, ThriceOf, Executed, ExecutedFor,
         AtMostThrice, Times
    <2>. QED
      BY <2>3, <2>4, PTL
  <1>2. CASE ClientOps # {}
    <2>1. AtMostThrice
      BY <1>2 DEF AtMostThrice
    <2>. QED
      BY <2>1, PTL
  <1>. QED
    BY <1>1, <1>2

=============================================================================

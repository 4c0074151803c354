------------------------------ MODULE LinkList -------------------------------
(* src/c/link_list.c and src/c/doubly_link_list.c, which differ by the      *)
(* links backwards and by what main prints: a loop over a menu of           *)
(* operations on one list.  A step is one turn of the loop, chosen option,  *)
(* operation and printing included.                                         *)
(*                                                                          *)
(* Memory is a set of cells that malloc takes from and free gives back to,  *)
(* in any order.  A pointer is Null, a cell, or Wild, as the variable       *)
(* p_head of main is never initialised.  Reading through Null, through Wild *)
(* or through a cell that is not allocated ends the program with a fault;   *)
(* through a cell that was freed and taken again, it does not.              *)
EXTENDS Integers, SequencesExt

CONSTANTS
    Cells,      \* where a node can be
    Null, Wild, \* pointers to none of them
    Numbers,    \* the numbers entered
    MaxLength,  \* bound on the length of a list entered
    Undefined   \* a list nothing is known of

ASSUME CellAssumption ==
    /\ IsFiniteSet(Cells)
    /\ Null \notin Cells /\ Wild \notin Cells /\ Null # Wild
ASSUME InputAssumption == Numbers \subseteq Int /\ MaxLength \in Nat

VARIABLES
    doubly,  \* which of the two programs this is
    mem,     \* head, count and the allocated nodes
    fault,   \* how the program came to grief, "none" if it did not
    shown,   \* the numbers last printed
    op,      \* the last operation
    deleted  \* a node was deleted since the list was created

vars == <<doubly, mem, fault, shown, op, deleted>>

Pointer == Cells \cup {Null, Wild}
Memory == [head : Pointer, count : Int, live : SUBSET Cells,
           next : [Cells -> Pointer], pre : [Cells -> Pointer], num : [Cells -> Int]]
Faults == {"none", "null pointer", "undefined", "endless"}

TypeOK ==
    /\ doubly \in BOOLEAN
    /\ mem \in Memory
    /\ fault \in Faults
    /\ shown \in Seq(Int)
    /\ deleted \in BOOLEAN

Init ==
    /\ doubly \in BOOLEAN
    /\ \E p \in {Null, Wild} :
          mem = [head |-> p, count |-> 0, live |-> {}, next |-> [c \in Cells |-> Null],
                 pre |-> [c \in Cells |-> Null], num |-> [c \in Cells |-> 0]]
    /\ fault = "none"
    /\ shown = <<>>
    /\ op = "none"
    /\ deleted = FALSE

--------------------------------------------------------------------------
(* Walks.                                                                 *)

\* The pointers from p on, by a link, up to one that cannot be followed.
Walk(m, link, p) ==
    LET at[n \in 0..Cardinality(Cells)] ==
            IF n = 0 THEN p
            ELSE IF at[n - 1] \in m.live THEN link[at[n - 1]] ELSE at[n - 1]
    IN  at

\* while (p != NULL): how the loop ends.
EndOf(m, link, p) ==
    LET last == Walk(m, link, p)[Cardinality(Cells)]
    IN  IF last = Null THEN "none" ELSE IF last \in m.live THEN "endless" ELSE "undefined"

\* The nodes of a loop that ends: as many pointers as lead to one.
Nodes(m, link, p) ==
    LET at == Walk(m, link, p)
        passed == {n \in DOMAIN at : at[n] \in m.live}
    IN  [n \in 1..Cardinality(passed) |-> at[n - 1]]
NumbersOf(m, nodes) == [n \in 1..Len(nodes) |-> m.num[nodes[n]]]

\* A pointer that is read through.
Reading(m, p) == IF p \in m.live THEN "none" ELSE IF p = Null THEN "null pointer" ELSE "undefined"

Release(m, cells) ==
    [m EXCEPT !.live = @ \ cells,
              !.next = [c \in Cells |-> IF c \in cells THEN Null ELSE @[c]],
              !.pre = [c \in Cells |-> IF c \in cells THEN Null ELSE @[c]],
              !.num = [c \in Cells |-> IF c \in cells THEN 0 ELSE @[c]]]

--------------------------------------------------------------------------
(* One turn of main.                                                      *)

Running == fault = "none" /\ op # "exit"

Fail(f) == fault' = f /\ UNCHANGED <<mem, shown>>

\* print, asc_show: nothing is shown of a list that counts no members.
Listing(m, link, p) ==
    /\ fault' = IF m.count > 0 THEN EndOf(m, link, p) ELSE "none"
    /\ shown' = IF m.count > 0
                THEN IF EndOf(m, link, p) = "none" THEN NumbersOf(m, Nodes(m, link, p)) ELSE shown
                ELSE <<>>

\* The singly linked list is printed at the end of the turn.
Done(m) ==
    /\ mem' = m
    /\ IF doubly THEN UNCHANGED <<fault, shown>> ELSE Listing(m, m.next, m.head)

\* free_link_list: nothing is freed of a list that counts no members; the loop
\* reads each node before it frees it, and comes to grief on a circle.
Keeps(m) == m.count = 0 \/ m.head = Null
FreeFault(m) == IF Keeps(m) \/ EndOf(m, m.next, m.head) = "none" THEN "none" ELSE "undefined"
\* Only the first node given back.
FreeLinkListHead(m) ==
    IF Keeps(m) THEN m ELSE [Release(m, {m.head}) EXCEPT !.count = 0]
FreeLinkList(m) ==
    IF Keeps(m) THEN m
    ELSE [Release(m, Range(Nodes(m, m.next, m.head)))
             EXCEPT !.count = @ - Len(Nodes(m, m.next, m.head))]

\* The loops of create and bulk_create over the cells malloc gives.
Built(m, cells, nums) ==
    LET len == Len(nums)
        place == [c \in ToSet(cells) |-> CHOOSE i \in 1..len : cells[i] = c]
        Made(c, old, made) == IF c \in ToSet(cells) THEN made ELSE old
    IN  [head |-> IF len = 0 THEN Null ELSE cells[1],
         count |-> len,
         live |-> m.live \cup ToSet(cells),
         next |-> [c \in Cells |-> IF c \notin ToSet(cells) THEN m.next[c]
                                   ELSE IF place[c] = len THEN Null ELSE cells[place[c] + 1]],
         pre |-> [c \in Cells |-> IF c \notin ToSet(cells) \/ ~doubly THEN m.pre[c]
                                  ELSE IF place[c] = 1 THEN Null ELSE cells[place[c] - 1]],
         num |-> [c \in Cells |-> IF c \notin ToSet(cells) THEN m.num[c] ELSE nums[place[c]]]]

\* n different cells that are free.
Taken(m, n) == {s \in [1..n -> Cells \ m.live] : \A i, j \in 1..n : s[i] = s[j] => i = j}

Replace(nums) ==
    /\ IF FreeFault(mem) # "none" THEN Fail(FreeFault(mem))
       ELSE \E m \in {FreeLinkList(mem)} : \E cells \in Taken(m, Len(nums)) :
                Done(Built(m, cells, nums))
    /\ deleted' = FALSE
    /\ UNCHANGED doubly

\* create: numbers up to a zero.
Create == /\ Running
          /\ op' = "create"
          /\ \E len \in 0..MaxLength : \E nums \in [1..len -> Numbers] : Replace(nums)

\* bulk_create: 1, 2 and so on; none for a length of zero or less.
BulkCreate == /\ Running
              /\ op' = "bulk create"
              /\ \E len \in 0..MaxLength : Replace([i \in 1..len |-> i])

\* The old head not linked back to the new node.
HeadInsertedOneWay(c, n) ==
    [mem EXCEPT !.head = c, !.count = @ + 1, !.live = @ \cup {c}, !.num[c] = n,
                !.next[c] = mem.head, !.pre[c] = IF doubly THEN Null ELSE @]

\* The new node before the head.
HeadInserted(c, n) ==
    [mem EXCEPT !.head = c, !.count = @ + 1, !.live = @ \cup {c}, !.num[c] = n,
                !.next[c] = mem.head,
                !.pre = IF doubly THEN [@ EXCEPT ![c] = Null, ![mem.head] = c] ELSE @]

HeadInsertNode ==
    /\ Running
    /\ op' = "head insert"
    /\ \E c \in Cells \ mem.live, n \in Numbers :
          IF doubly /\ mem.head \notin mem.live \cup {c}
          THEN Fail(Reading(mem, mem.head))
          ELSE Done(HeadInserted(c, n))
    /\ UNCHANGED <<doubly, deleted>>

\* get_tail, or the same loop.
TailFault == IF mem.head \notin mem.live THEN Reading(mem, mem.head)
             ELSE EndOf(mem, mem.next, mem.head)
GetTail == Last(Nodes(mem, mem.next, mem.head))

\* The new node after the last; count stays.
TailInserted(c, n) ==
    [mem EXCEPT !.live = @ \cup {c}, !.num[c] = n,
                !.next = [@ EXCEPT ![GetTail] = c, ![c] = Null],
                !.pre[c] = IF doubly THEN GetTail ELSE @]

TailInsertNode ==
    /\ Running
    /\ op' = "tail insert"
    /\ \E c \in Cells \ mem.live, n \in Numbers :
          IF TailFault # "none" THEN Fail(TailFault) ELSE Done(TailInserted(c, n))
    /\ UNCHANGED <<doubly, deleted>>

\* p_temp and p_pre after the loop of delete_node; the node before the first is
\* the first itself, and the links backwards stay as they are.
Target(index) == Walk(mem, mem.next, mem.head)[index - 1]
\* The count left behind.
DeletedUncounted(index) ==
    LET c == Target(index)
        p == IF index = 1 THEN c ELSE Target(index - 1)
    IN  Release([mem EXCEPT !.next[p] = mem.next[c]], {c})
Deleted(index) ==
    LET c == Target(index)
        p == IF index = 1 THEN c ELSE Target(index - 1)
    IN  [Release([mem EXCEPT !.next[p] = mem.next[c]], {c}) EXCEPT !.count = @ - 1]

\* An index below one is taken for one.
DeleteNode ==
    /\ Running
    /\ \E index \in 1..(Cardinality(Cells) + 1) :
          IF index > mem.count /\ index # 1
          THEN /\ op' = "refuse"
               /\ Done(mem)
               /\ UNCHANGED deleted
          ELSE /\ op' = IF index = 1 THEN "delete first" ELSE "delete"
               /\ deleted' = TRUE
               /\ IF Target(index) \notin mem.live THEN Fail(Reading(mem, Target(index)))
                  ELSE Done(Deleted(index))
    /\ UNCHANGED doubly

AscShow ==
    /\ Running /\ doubly
    /\ op' = "asc show"
    /\ Listing(mem, mem.next, mem.head)
    /\ UNCHANGED <<doubly, mem, deleted>>

DescShow ==
    /\ Running /\ doubly
    /\ op' = "desc show"
    /\ IF TailFault # "none" THEN Fail(TailFault) ELSE Listing(mem, mem.pre, GetTail)
    /\ UNCHANGED <<doubly, mem, deleted>>

Exit ==
    /\ Running
    /\ op' = "exit"
    /\ IF FreeFault(mem) # "none" THEN Fail(FreeFault(mem))
       ELSE mem' = FreeLinkList(mem) /\ UNCHANGED <<fault, shown>>
    /\ UNCHANGED <<doubly, deleted>>

Next ==
    \/ Create
    \/ BulkCreate
    \/ HeadInsertNode
    \/ TailInsertNode
    \/ DeleteNode
    \/ AscShow
    \/ DescShow
    \/ Exit

Spec == Init /\ [][Next]_vars

--------------------------------------------------------------------------
(* What holds of the list.                                                *)

\* The list can be walked to its end.
Sound == fault = "none" /\ EndOf(mem, mem.next, mem.head) = "none"
List == Nodes(mem, mem.next, mem.head)

\* Within its limits the list is a sequence of numbers, forwards and backwards,
\* and nothing but the misuses that NumberList names makes the program fail or
\* the list stray, in whatever order the operations come.
Refined == INSTANCE NumberList
               WITH items <- IF Sound THEN NumbersOf(mem, List) ELSE Undefined,
                    number <- mem.count
IsNumberList == Refined!Spec

\* The count that an index is compared with (main, "index is too large") never
\* exceeds the list, though an insertion at the end leaves it behind: the loop
\* of delete_node stays inside a list that is sound.
CountWithinList == Sound => mem.count \in 0..Len(List)

\* Pointers and count are usable by the operation that comes next.
ListInv == TypeOK /\ CountWithinList

\* A node gets lost only where the first is deleted, and where a list that
\* counts no members, but has some, is to be freed: free_link_list goes by the
\* count.
Lost == mem.live \ Range(List)
LosesOnlyThen ==
    \/ Lost' \subseteq Lost
    \/ ~Sound
    \/ op' = "delete first"
    \/ op' \in {"create", "bulk create", "exit"} /\ mem.count = 0
KeepsTrack == [][LosesOnlyThen]_vars
=============================================================================

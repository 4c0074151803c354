----------------------------- MODULE NumberList ------------------------------
(* What the two list exercises of src/c promise as long as they are used    *)
(* within what they can do: a sequence of numbers.  number is what they say *)
(* its length is and what an index is compared with; an insertion at the    *)
(* end does not count.  After a misuse the list is Undefined, and nothing   *)
(* more is promised.                                                        *)
EXTENDS Integers, SequencesExt

CONSTANT Undefined

VARIABLES
    doubly,  \* the list of doubly_link_list.c
    items,   \* the numbers, or Undefined
    number,  \* the length it claims
    deleted, \* something was deleted since the list was created
    op,      \* the last operation
    shown    \* what was last printed

vars == <<doubly, items, number, deleted, op, shown>>

Init == /\ items \in {<<>>, Undefined}
        /\ number = 0
        /\ shown = <<>>
        /\ deleted = FALSE
        /\ op = "none"

\* A list that claims no members shows none.
Listing(list, n) == IF n > 0 THEN list ELSE <<>>

\* The singly linked list is printed after every operation.
Display == shown' = IF doubly THEN shown ELSE Listing(items', number')

New == /\ op' \in {"create", "bulk create"}
       /\ items' \in Seq(Int) /\ number' = Len(items')
       /\ deleted' = FALSE
       /\ Display

InsertFirst == /\ op' = "head insert"
               /\ doubly => items # <<>>
               /\ items' # <<>> /\ Tail(items') = items
               /\ number' = number + 1
               /\ UNCHANGED deleted
               /\ Display

InsertLast == /\ op' = "tail insert"
              /\ items # <<>>
              /\ items' # <<>> /\ Front(items') = items
              /\ UNCHANGED <<number, deleted>>
              /\ Display

\* Any but the first.
TakeOut == /\ op' = "delete"
          /\ \E i \in 2..number : items' = RemoveAt(items, i)
          /\ number' = number - 1
          /\ deleted' = TRUE
          /\ Display

\* What is shown backwards is promised as long as nothing was deleted.
Show == /\ \/ /\ op' = "refuse"
              /\ Display
           \/ /\ op' = "asc show" /\ doubly
              /\ shown' = Listing(items, number)
           \/ /\ op' = "desc show" /\ doubly /\ items # <<>>
              /\ ~deleted => shown' = Listing(Reverse(items), number)
        /\ UNCHANGED <<items, number, deleted>>

Leave == op' = "exit" /\ UNCHANGED shown

\* The first member is deleted, an empty list is inserted into at its end (or
\* at its front, if it is doubly linked) or shown backwards, or one from which
\* something was deleted is shown backwards.
Misuse == /\ \/ op' = "delete first"
             \/ items = <<>> /\ op' \in {"tail insert", "desc show"}
             \/ items = <<>> /\ op' = "head insert" /\ doubly
             \/ deleted /\ op' = "desc show"
          /\ items' = Undefined

Next == /\ doubly' = doubly
        /\ \/ items = Undefined
           \/ /\ items # Undefined
              /\ (New \/ InsertFirst \/ InsertLast \/ TakeOut \/ Show \/ Leave \/ Misuse)

Spec == Init /\ [][Next]_vars
=============================================================================

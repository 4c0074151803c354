------------------------------ MODULE DohLogList ------------------------------
(***************************************************************************)
(* The linked list the alert and audit tables of                           *)
(* c/https/do_doh_https_request.c are kept in. The two populate functions  *)
(* hold the same code for it; DohAuditList and DohAlertList extend this    *)
(* module with what each does around it.                                   *)
(*                                                                         *)
(* A pass of the loops that free the list and look for an entry's place is *)
(* a step. Keys are compared by strcmp: 0 is the empty string.             *)
(***************************************************************************)
EXTENDS Integers, Sequences, FiniteSets, Functions

CONSTANTS
    MaxCells,   \* bound on the entries allocated at once
    Tags,       \* the fields of an entry
    KeyTag,     \* the field the list is sorted by
    MaxValue    \* bound on the values of a field

NULL == 0
Cells == 1..MaxCells

ASSUME CellAssumption == MaxCells \in Nat /\ MaxValue \in Nat /\ KeyTag \in Tags

VARIABLES
    pc,      \* "idle", "free", "read", "link" or "crashed"
    table,   \* alertTableList, auditTableList
    next,    \* next_ptr of each cell
    rec,     \* the fields of each cell
    used,    \* the cells that are allocated
    entry,   \* alert_entry, audit_entry
    loop,    \* alert_loop_ptr, audit_loop_ptr
    prev     \* previous_loop_ptr

heapVars == <<next, rec, used>>
linkVars == <<loop, prev>>
listVars == <<pc, table, heapVars, entry, linkVars>>

Entries == [Tags -> 0..MaxValue]
Zeroed == [g \in Tags |-> NULL]
Key(r) == r[KeyTag]

ListInit ==
    /\ pc = "idle"
    /\ table = NULL
    /\ next = [c \in Cells |-> NULL]
    /\ rec = [c \in Cells |-> Zeroed]
    /\ used = {}
    /\ entry = NULL
    /\ loop = NULL
    /\ prev = NULL

\* One pass of the loop that frees the old list.
FreeHead ==
    /\ pc = "free"
    /\ table # NULL
    /\ used' = used \ {table}
    /\ entry' = table
    /\ table' = next[table]
    /\ UNCHANGED <<pc, next, rec, linkVars>>

\* calloc: any cell that is free.
NewEntry(r) ==
    \E c \in Cells \ used :
        /\ \A d \in Cells \ used : c <= d
        /\ entry' = c
        /\ used' = used \cup {c}
        /\ next' = [next EXCEPT ![c] = NULL]
        /\ rec' = [rec EXCEPT ![c] = r]

FreeEntry ==
    /\ used' = used \ {entry}
    /\ entry' = NULL

\* The entry is complete: look for its place.
StartLink ==
    /\ pc' = "link"
    /\ loop' = table
    /\ prev' = NULL

\* (BeforeOrEqual and WalkInPlace are variants with a bug; each breaks a property
\* of a run.)

\* Does the entry go before the one at hand? Equal keys keep their order.
BeforeOrEqual == Key(rec[loop]) >= Key(rec[entry])
Before == Key(rec[loop]) > Key(rec[entry])

LinkFirst ==
    /\ pc = "link"
    /\ table = NULL
    /\ table' = entry
    /\ pc' = "read"
    /\ UNCHANGED <<heapVars, entry, linkVars>>

WalkInPlace ==
    /\ pc = "link"
    /\ loop # NULL
    /\ ~Before
    /\ UNCHANGED listVars
Walk ==
    /\ pc = "link"
    /\ loop # NULL
    /\ ~Before
    /\ prev' = loop
    /\ loop' = next[loop]
    /\ UNCHANGED <<pc, table, heapVars, entry>>

LinkBefore ==
    /\ pc = "link"
    /\ loop # NULL
    /\ Before
    /\ IF prev = NULL
       THEN /\ table' = entry
            /\ next' = [next EXCEPT ![entry] = loop]
       ELSE /\ next' = [next EXCEPT ![entry] = loop, ![prev] = entry]
            /\ UNCHANGED table
    /\ pc' = "read"
    /\ UNCHANGED <<rec, used, entry, linkVars>>

LinkLast ==
    /\ pc = "link"
    /\ table # NULL
    /\ loop = NULL
    /\ next' = [next EXCEPT ![prev] = entry]
    /\ pc' = "read"
    /\ UNCHANGED <<table, rec, used, entry, linkVars>>

Link == LinkFirst \/ LinkBefore \/ LinkLast

-----------------------------------------------------------------------------
(* The list as its reader sees it.                                         *)

\* The cells from each one on, n at most.
Chain[n \in 0..MaxCells] ==
    [c \in Cells \cup {NULL} |->
        IF n = 0 \/ c = NULL THEN <<>> ELSE <<c>> \o Chain[n - 1][next[c]]]

Listing == Chain[MaxCells][table]
ListedCells == LET cells == Listing IN {cells[k] : k \in DOMAIN cells}
Listed == LET cells == Listing IN [k \in DOMAIN cells |-> rec[cells[k]]]

\* The entries listed are those reported, in the order of their keys, and of equal
\* keys in the order they were reported.
Sorts(listed, reported) ==
    \E place \in Bijection(DOMAIN reported, DOMAIN listed) :
        \A m, n \in DOMAIN reported :
            /\ listed[place[m]] = reported[m]
            /\ m < n => (place[m] < place[n] <=> Key(reported[m]) <= Key(reported[n]))

ListTypeOK ==
    /\ pc \in {"idle", "free", "read", "link", "crashed"}
    /\ table \in Cells \cup {NULL}
    /\ next \in [Cells -> Cells \cup {NULL}]
    /\ rec \in [Cells -> Entries]
    /\ used \subseteq Cells
    /\ entry \in Cells \cup {NULL}
    /\ loop \in Cells \cup {NULL}
    /\ prev \in Cells \cup {NULL}

\* The list is one chain of allocated entries: none freed, none on it twice,
\* none linked before it is complete.
ListIsSound ==
    /\ ListedCells \subseteq used
    /\ Cardinality(ListedCells) = Len(Listing)
    /\ Listing # <<>> => next[Listing[Len(Listing)]] = NULL
    /\ pc = "link" => entry \in used \ ListedCells

=============================================================================

------------------------------- MODULE SortedLog -------------------------------
(***************************************************************************)
(* What the alert and audit tables of c/https/do_doh_https_request.c are   *)
(* to their reader: a log sorted by key, filled one record at a time in    *)
(* the order the records arrive, and emptied from the front.               *)
(***************************************************************************)
EXTENDS Integers, Sequences

CONSTANTS
    Records,  \* the records that can be in the log
    Key(_)    \* a record's place in the order

VARIABLE log

Init == log = <<>>

\* A record goes before the first that is greater, so after its equals.
InsertAt(n, r) ==
    /\ \A m \in 1..n : Key(log[m]) <= Key(r)
    /\ n < Len(log) => Key(log[n + 1]) > Key(r)
    /\ log' = SubSeq(log, 1, n) \o <<r>> \o SubSeq(log, n + 1, Len(log))

Insert == \E r \in Records : \E n \in 0..Len(log) : InsertAt(n, r)

Drop == log # <<>> /\ log' = Tail(log)

Next == Insert \/ Drop

Spec == Init /\ [][Next]_log

=============================================================================

----------------------------- MODULE DohAuditList -----------------------------
(***************************************************************************)
(* populate_audit_list of c/https/do_doh_https_request.c (lines            *)
(* 1715-2080): the audit table is freed, then filled from the message,     *)
(* one node a step.                                                        *)
(*                                                                         *)
(* Of the fields, day is read under the wrong name (line 1969) and         *)
(* remotehost by way of a local variable, temp_value, that nothing sets    *)
(* before (lines 1726 and 1997-2033). time is read under its own name into *)
(* the entry, and stands for remoteuser and description, read likewise.    *)
(***************************************************************************)
EXTENDS DohLogList, DohXml, SequencesExt

CONSTANTS
    Records,       \* the audit records a message can hold, as field sequences
    MaxRecords,    \* bound on the records of all messages together
    MaxMessages    \* bound on the messages parsed

AuditTags == {"auditIndex", "day", "time", "remotehost"}

LoginRequired == 1
OtherError == 2

\* The texts of a remotehost: an address, or "null" and what inet_aton cannot read,
\* for which the address 127.0.0.1 is taken.
Localhost == 1
NoAddress == MaxValue
Host(text) == IF text = NoAddress THEN Localhost ELSE text

ASSUME TagAssumption == Tags = AuditTags /\ KeyTag = "auditIndex"

\* A field has a text, which is a value, or none; so has an error.
ASSUME RecordAssumption ==
    /\ Records \subseteq Seq([tag : AuditTags, value : {SelfClosed, Hollow} \cup 1..MaxValue])
    /\ MaxRecords \in Nat
    /\ {LoginRequired, OtherError} \subseteq 1..MaxValue

VARIABLES
    in_audit,   \* in_audit
    records,    \* what the server reports
    message,    \* /tmp/snmp/tempxml: as much of it as arrived
    at,         \* the reader's node
    unset,      \* temp_value still holds what it came with
    status,     \* what the function returned
    stamped,    \* history: did the last call set lastaudittime?
    messages,   \* history: calls so far
    total,      \* history: records reported so far
    leaked      \* history: entries no pointer leads to any more

callVars == <<unset, records, message, status, stamped, messages, total>>
vars == <<listVars, in_audit, at, leaked, callVars>>

\* The nodes of a message: records in an answer, or an error.
Fields(record) == [n \in DOMAIN record |-> Field(record[n].tag, record[n].value)]
Answer(rs) ==
    Element("response", 0, [n \in DOMAIN rs |-> Element("audit", 0, Fields(rs[n]))])

Refusal(text) == Element("response", 0, <<Field("error", text)>>)

Init ==
    /\ ListInit
    /\ in_audit = FALSE
    /\ records = <<>>
    /\ message = <<>>
    /\ at = 0
    /\ unset = TRUE
    /\ status = 0
    /\ stamped = FALSE
    /\ messages = 0
    /\ total = 0
    /\ leaked = {}

-----------------------------------------------------------------------------
\* The function is called: the message may break off anywhere.
Populate ==
    /\ pc = "idle"
    /\ messages < MaxMessages
    /\ messages' = messages + 1
    /\ \/ /\ records' \in BoundedSeq(Records, MaxRecords - total)
          /\ message' \in Prefixes(Answer(records'))
       \/ /\ records' = <<>>
          /\ \E text \in {LoginRequired, OtherError} : message' \in Prefixes(Refusal(text))
    /\ total' = total + Len(records')
    /\ pc' = "free"
    /\ at' = 0
    /\ unset' = TRUE
    /\ stamped' = FALSE
    /\ entry' = NULL
    /\ UNCHANGED <<table, heapVars, linkVars, in_audit, status, leaked>>

Free == FreeHead /\ UNCHANGED <<in_audit, at, leaked, callVars>>

\* A variant with a bug: in_audit is as the last call left it.
InAuditLeft == in_audit

\* in_audit is reset when the message is opened.
ResetsInAudit == FALSE

StartReading ==
    /\ pc = "free"
    /\ table = NULL
    /\ entry' = NULL
    /\ in_audit' = ResetsInAudit
    /\ pc' = "read"
    /\ UNCHANGED <<table, heapVars, linkVars, at, leaked, callVars>>

\* The entry the parse is working on, which the list does not have yet.
Unfinished == IF in_audit /\ entry # NULL THEN {entry} ELSE {}

\* A return while an entry is unfinished loses it: the pointer is a local.
Return(s, stamps) ==
    /\ pc' = "idle"
    /\ leaked' = leaked \cup Unfinished
    /\ status' = s
    /\ stamped' = stamps

EndOfMessage ==
    /\ pc = "read"
    /\ at = Len(message)
    /\ Return(1, TRUE)
    /\ UNCHANGED <<table, heapVars, entry, linkVars, in_audit, at,
                   unset, records, message, messages, total>>

\* The node the loop reads next.
More == pc = "read" /\ at < Len(message)
node == message[at + 1]
Is(tag) == node.tag = tag

\* check_need_login: login required ends the parse, and so does an error that
\* breaks off; any other error is passed over.
ErrorText == GetTagValue(message, at + 1, "error", 0)

ReadError ==
    /\ More
    /\ Is("error")
    /\ IF ~ErrorText.ok
       THEN Return(-1, FALSE) /\ UNCHANGED at
       ELSE IF ErrorText.value = LoginRequired
       THEN Return(-2, FALSE) /\ UNCHANGED at
       ELSE /\ at' = ErrorText.at
            /\ UNCHANGED <<pc, status, stamped, leaked>>
    /\ UNCHANGED <<table, heapVars, entry, linkVars, in_audit,
                   unset, records, message, messages, total>>

AuditTag == Is("audit") /\ node.part # "empty"

EnterAudit ==
    /\ More
    /\ AuditTag
    /\ ~in_audit
    /\ NewEntry(Zeroed)
    /\ in_audit' = TRUE
    /\ at' = at + 1
    /\ UNCHANGED <<pc, table, linkVars, leaked, callVars>>

\* An entry without an index is not used; in_audit is left as it is.
LeaveUnusable ==
    /\ More
    /\ AuditTag
    /\ in_audit
    /\ entry # NULL
    /\ Key(rec[entry]) = NULL
    /\ FreeEntry
    /\ at' = at + 1
    /\ UNCHANGED <<pc, table, next, rec, linkVars, in_audit, leaked, callVars>>

LeaveAudit ==
    /\ More
    /\ AuditTag
    /\ in_audit
    /\ entry # NULL
    /\ Key(rec[entry]) # NULL
    /\ StartLink
    /\ at' = at + 1
    /\ UNCHANGED <<table, heapVars, entry, in_audit, leaked, callVars>>

WalkOn == Walk /\ UNCHANGED <<in_audit, at, leaked, callVars>>

\* A variant with a bug: in_audit stays set.
LinkEntryOnly == Link /\ UNCHANGED <<in_audit, at, leaked, callVars>>
LinkEntry ==
    /\ Link
    /\ in_audit' = FALSE
    /\ UNCHANGED <<at, leaked, callVars>>

\* Inside an audit a known tag gives the entry its value. day is asked for as
\* "time", so <day></day> is not seen to be without one.
FieldTag == in_audit /\ node.tag \in AuditTags
Plain == FieldTag /\ node.part # "empty" /\ ~Is("remotehost")
AskedFor(tag) == IF tag = "day" THEN "time" ELSE tag
FieldValue ==
    GetTagValue(message, at + 1, AskedFor(node.tag),
                IF entry = NULL THEN 0 ELSE rec[entry][node.tag])
Writes == at + 2 <= Len(message) /\ message[at + 2].tag # AskedFor(node.tag)

ReadField ==
    /\ More
    /\ Plain
    /\ entry # NULL
    /\ rec' = [rec EXCEPT ![entry][node.tag] = FieldValue.value]
    /\ at' = FieldValue.at
    /\ UNCHANGED <<pc, table, next, used, entry, linkVars, in_audit, leaked,
                   callVars>>

ReadFieldOfNone ==
    /\ More
    /\ Plain
    /\ entry = NULL
    /\ ~Writes
    /\ at' = FieldValue.at
    /\ UNCHANGED <<listVars, in_audit, leaked, callVars>>

\* The text of a remotehost goes through temp_value, which is NULL again after it.
\* <remotehost></remotehost> does not set it: what it came with may be NULL, which
\* is passed over, or a pointer (Crash).
OpensHost == FieldTag /\ node.part # "empty" /\ Is("remotehost")
HostText == GetTagValue(message, at + 1, "remotehost", NULL)
HasText == HostText.ok /\ HostText.value # NULL

ReadHost ==
    /\ More
    /\ OpensHost
    /\ HasText => entry # NULL
    /\ rec' = IF HasText THEN [rec EXCEPT ![entry]["remotehost"] = Host(HostText.value)]
                         ELSE rec
    /\ at' = HostText.at
    /\ unset' = FALSE
    /\ UNCHANGED <<pc, table, next, used, entry, linkVars, in_audit, leaked,
                   records, message, status, stamped, messages, total>>

\* audit_entry is NULL where a field of it is looked at or set, or what temp_value
\* came with is read and freed. Nothing is said of what the program does then.
Crash ==
    /\ More
    /\ in_audit
    /\ \/ AuditTag /\ entry = NULL
       \/ Plain /\ Writes /\ entry = NULL
       \/ OpensHost /\ HasText /\ entry = NULL
       \/ OpensHost /\ HostText.ok /\ ~Writes /\ unset
    /\ pc' = "crashed"
    /\ UNCHANGED <<table, heapVars, entry, linkVars, in_audit, at, leaked,
                   callVars>>

\* Any other node, and a field with nothing in it.
Skip ==
    /\ More
    /\ ~AuditTag
    /\ ~Is("error")
    /\ FieldTag => node.part = "empty"
    /\ at' = at + 1
    /\ UNCHANGED <<listVars, in_audit, leaked, callVars>>

Step ==
    \/ Free \/ StartReading \/ EndOfMessage \/ ReadError
    \/ EnterAudit \/ LeaveUnusable \/ LeaveAudit \/ WalkOn \/ LinkEntry
    \/ ReadField \/ ReadFieldOfNone \/ ReadHost \/ Crash \/ Skip

Next == Populate \/ Step

Spec == Init /\ [][Next]_vars

\* One thread, which runs on.
FairSpec == Spec /\ WF_vars(Step)

-----------------------------------------------------------------------------
(* Properties.                                                             *)

\* Every variable stays in its range, and while the list is searched the two
\* loop pointers are neighbours on it.
TypeOK ==
    /\ ListTypeOK
    /\ in_audit \in BOOLEAN /\ unset \in BOOLEAN
    /\ at \in 0..Len(message)
    /\ status \in {-2, -1, 0, 1}
    /\ leaked \subseteq Cells
    /\ pc = "link" =>
          /\ (prev = NULL) <=> (loop = table)
          /\ prev # NULL => next[prev] = loop

\* An entry is on the list, being made, or was lost when a message broke off
\* inside its record; everything else was freed.
NothingElseLeaks ==
    /\ pc \in {"read", "link"} => used = ListedCells \cup Unfinished \cup leaked
    /\ pc \in {"idle", "free"} => used = ListedCells \cup leaked

\* Populating a table neither links, loses nor reads a cell it should not,
\* whatever the messages are and wherever they break off.
MemoryIsSound == TypeOK /\ ListIsSound /\ NothingElseLeaks

\* The list is a sorted log: every entry goes to its place and stays as it is
\* until the next message empties the list.
Log == INSTANCE SortedLog WITH Records <- Entries, log <- Listed
KeepsLog == Log!Spec

\* The entry a record describes, and the records whose index gets through: those
\* that have one, and no day without a text, which swallows the tags after it.
Taken(tag, text) == IF tag = "remotehost" THEN Host(text) ELSE text
ValueOf(record, tag) ==
    LET given == {n \in DOMAIN record : record[n].tag = tag
                                         /\ record[n].value \in 1..MaxValue}
    IN  IF given = {} THEN NULL ELSE Taken(tag, record[Max(given)].value)
EntryOf(record) == [g \in Tags |-> ValueOf(record, g)]
Indexed(record) == ValueOf(record, "auditIndex") # NULL
HollowDay(record) == \E n \in DOMAIN record : record[n] = [tag |-> "day", value |-> Hollow]

ListsRecords == Sorts(Listed, [n \in DOMAIN records |-> EntryOf(records[n])])

Complete == pc = "idle" /\ stamped /\ message = Answer(records)

\* An answer that is complete is listed completely, by index, with equal indexes in
\* the order of the message, whatever became of the messages before it.
AllRecordsListed ==
    Complete /\ (\A n \in DOMAIN records : Indexed(records[n]) /\ ~HollowDay(records[n]))
        => ListsRecords

\* A call returns.
PopulateReturns == pc = "free" ~> pc \in {"idle", "crashed"}

\* The message opens a remotehost, and the first it opens holds no text.
Opened(field) == field.tag = "remotehost" /\ field.value # SelfClosed
FirstHostIsHollow ==
    \E n \in DOMAIN records : \E i \in DOMAIN records[n] :
        /\ Opened(records[n][i]) /\ records[n][i].value = Hollow
        /\ \A m \in DOMAIN records : \A j \in DOMAIN records[m] :
              m < n \/ (m = n /\ j < i) => ~Opened(records[m][j])

\* The comment of lines 1821-1823, "we're not going to use this audit entry", holds
\* for the last record only: the parse comes to grief without an entry, but never
\* without a record before another whose index is missing, or is swallowed by a
\* hollow day. It comes to grief over temp_value only if the message's first
\* remotehost is hollow, or its start is swallowed by a hollow day.
CrashesForAReason ==
    pc = "crashed" =>
        \/ \E n \in 1..(Len(records) - 1) : ~Indexed(records[n]) \/ HollowDay(records[n])
        \/ FirstHostIsHollow
        \/ \E n \in DOMAIN records :
              /\ HollowDay(records[n])
              /\ \E i \in DOMAIN records[n] : records[n][i].tag = "remotehost"

=============================================================================

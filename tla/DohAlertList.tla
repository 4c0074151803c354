----------------------------- MODULE DohAlertList -----------------------------
(***************************************************************************)
(* populate_alert_list of c/https/do_doh_https_request.c (lines            *)
(* 1059-1707): the alert table is freed, then filled from the message, one *)
(* node a step. An alert holds logs, a log holds fields and the sections   *)
(* callhome, ealert and snmp; each log becomes an entry.                   *)
(*                                                                         *)
(* component stands for the texts of a log: time, type and explain-text    *)
(* are read like it. The flags in_log, in_callhome, in_ealert and in_snmp  *)
(* are globals and outlive the call.                                       *)
(***************************************************************************)
EXTENDS DohLogList, DohXml, SequencesExt

CONSTANTS
    Alerts,        \* the alerts a message can hold
    MaxAlerts,     \* bound on the alerts of all messages together
    MaxMessages    \* bound on the messages parsed

Sections == {"callhome", "ealert", "snmp"}
AlertTags == {"logID", "alertID", "source", "SNMPtrap_OID", "severity"} \cup Sections
Blank == MaxValue    \* the text " "

\* What a text gives: atoi of a severity, and whether a posted begins with "true".
TrueText == 1
Number(text) == IF text = Blank THEN 0 ELSE text
Sent(text) == IF text = TrueText THEN 3 ELSE 2

ASSUME TagAssumption == Tags = AlertTags /\ KeyTag = "logID" /\ Blank > 2

\* What an element holds: a value, nothing, or it is left out, which 0 stands for.
Content == {SelfClosed, Hollow} \cup 0..MaxValue
Logs == [id : 0..MaxValue, component : Content, severity : Content, section : Sections,
         posted : Content]

ASSUME AlertAssumption ==
    /\ Alerts \subseteq [id : 0..MaxValue, trapOID : Content, logs : Seq(Logs)]
    /\ MaxAlerts \in Nat

VARIABLES
    in_alert,    \* in_alert
    in_log,      \* in_log
    inside,      \* the sections whose flag in_callhome, in_ealert, in_snmp is set
    found,       \* found_alertID, found_source and found_SNMPtrapOID
    alerts,      \* what the server reports
    message,     \* /tmp/snmp/tempxml: as much of it as arrived
    at,          \* the reader's node
    unset,       \* temp_value is as the call found it
    status,      \* what the function returned
    stamped,     \* history: did the last call set lastalerttime?
    messages,    \* history: calls so far
    total,       \* history: alerts reported so far
    clean,       \* history: did the call find in_log and the others not set?
    leaked       \* history: entries no pointer leads to any more

flagVars == <<in_alert, in_log, inside>>
callVars == <<alerts, message, unset, status, stamped, messages, total, clean>>
vars == <<listVars, flagVars, found, at, leaked, callVars>>

\* The nodes of a message.
Given(tag, value) == IF value = 0 THEN <<>> ELSE Field(tag, value)
LogNodes(l) ==
    Element("log", l.id, <<Given("component", l.component), Given("severity", l.severity),
                           Element(l.section, 0, <<Given("posted", l.posted)>>)>>)
AlertNodes(a) ==
    Element("alert", a.id, <<Given("trapOID", a.trapOID)>>
                               \o [n \in DOMAIN a.logs |-> LogNodes(a.logs[n])])
Answer(as) == Element("response", 0, [n \in DOMAIN as |-> AlertNodes(as[n])])

LoginRequired == 1
OtherError == 2
Refusal(text) == Element("response", 0, <<Field("error", text)>>)

NothingFound == [alertID |-> NULL, source |-> NULL, SNMPtrapOID |-> NULL]

Init ==
    /\ ListInit
    /\ in_alert = FALSE
    /\ in_log = FALSE
    /\ inside = {}
    /\ found = NothingFound
    /\ alerts = <<>>
    /\ message = <<>>
    /\ at = 0
    /\ unset = TRUE
    /\ status = 0
    /\ stamped = FALSE
    /\ messages = 0
    /\ total = 0
    /\ clean = TRUE
    /\ leaked = {}

-----------------------------------------------------------------------------
\* The function is called: the message may break off anywhere.
Populate ==
    /\ pc = "idle"
    /\ messages < MaxMessages
    /\ messages' = messages + 1
    /\ \/ /\ alerts' \in BoundedSeq(Alerts, MaxAlerts - total)
          /\ message' \in Prefixes(Answer(alerts'))
       \/ /\ alerts' = <<>>
          /\ \E text \in {LoginRequired, OtherError} : message' \in Prefixes(Refusal(text))
    /\ total' = total + Len(alerts')
    /\ pc' = "free"
    /\ at' = 0
    /\ unset' = TRUE
    /\ stamped' = FALSE
    /\ clean' = (~in_log /\ inside = {})
    /\ entry' = NULL
    /\ found' = NothingFound
    /\ UNCHANGED <<table, heapVars, linkVars, flagVars, status, leaked>>

Free == FreeHead /\ UNCHANGED <<flagVars, found, at, leaked, callVars>>

\* A variant with a bug: the list of the last call is not freed.
StartUnfreed ==
    /\ pc = "free"
    /\ entry' = NULL
    /\ in_alert' = FALSE
    /\ pc' = "read"
    /\ UNCHANGED <<table, heapVars, linkVars, in_log, inside, found, at, leaked,
                   callVars>>

StartReading ==
    /\ pc = "free"
    /\ table = NULL
    /\ entry' = NULL
    /\ in_alert' = FALSE
    /\ pc' = "read"
    /\ UNCHANGED <<table, heapVars, linkVars, in_log, inside, found, at, leaked,
                   callVars>>

\* The entry the parse is working on, which the list does not have yet.
Unfinished == IF in_log /\ entry # NULL THEN {entry} ELSE {}

Return(s, stamps) ==
    /\ pc' = "idle"
    /\ status' = s
    /\ stamped' = stamps
    /\ leaked' = leaked \cup Unfinished

EndOfMessage ==
    /\ pc = "read"
    /\ at = Len(message)
    /\ Return(1, TRUE)
    /\ UNCHANGED <<table, heapVars, entry, linkVars, flagVars, found, at,
                   unset, alerts, message, messages, total, clean>>

\* The node the loop reads next.
More == pc = "read" /\ at < Len(message)
node == message[at + 1]
Is(tag) == node.tag = tag
Opens(tag) == Is(tag) /\ node.part # "empty"

\* check_need_login, as in DohAuditList.
ErrorText == GetTagValue(message, at + 1, "error", 0)

ReadError ==
    /\ More
    /\ Is("error")
    /\ IF ~ErrorText.ok
       THEN Return(-1, FALSE) /\ UNCHANGED at
       ELSE IF ErrorText.value = LoginRequired
       THEN Return(-2, FALSE) /\ UNCHANGED at
       ELSE /\ at' = ErrorText.at
            /\ UNCHANGED <<pc, status, stamped, leaked>>
    /\ UNCHANGED <<table, heapVars, entry, linkVars, flagVars, found,
                   unset, alerts, message, messages, total, clean>>

EnterAlert ==
    /\ More
    /\ Opens("alert")
    /\ ~in_alert
    /\ found' = [found EXCEPT !.alertID = node.value]
    /\ in_alert' = TRUE
    /\ at' = at + 1
    /\ UNCHANGED <<listVars, in_log, inside, leaked, callVars>>

SourceOfAny(r) == r.source = NULL
SourceOfAlert(r) == r.alertID = found.alertID /\ r.source = NULL

\* The alert's entries that have no source get the one found in it.
LeaveAlert ==
    /\ More
    /\ Opens("alert")
    /\ in_alert
    /\ rec' = [c \in Cells |->
                  IF found.alertID # NULL /\ c \in ListedCells /\ SourceOfAlert(rec[c])
                  THEN [rec[c] EXCEPT !["source"] =
                           IF found.source # NULL THEN found.source ELSE Blank]
                  ELSE rec[c]]
    /\ found' = NothingFound
    /\ in_alert' = FALSE
    /\ at' = at + 1
    /\ UNCHANGED <<pc, table, next, used, entry, linkVars, in_log, inside,
                   leaked, callVars>>

NewLog == [Zeroed EXCEPT !["logID"] = node.value, !["alertID"] = found.alertID,
                         !["SNMPtrap_OID"] = found.SNMPtrapOID]

EnterLog ==
    /\ More
    /\ Opens("log")
    /\ ~in_log
    /\ NewEntry(NewLog)
    /\ in_log' = TRUE
    /\ at' = at + 1
    /\ UNCHANGED <<pc, table, linkVars, in_alert, inside, found, leaked, callVars>>

LeaveLog ==
    /\ More
    /\ Opens("log")
    /\ in_log
    /\ entry # NULL
    /\ StartLink
    /\ at' = at + 1
    /\ UNCHANGED <<table, heapVars, entry, flagVars, found, leaked, callVars>>

\* The flag says a log is open, but there is no entry: an earlier call set it.
LeaveNoLog ==
    /\ More
    /\ Opens("log")
    /\ in_log
    /\ entry = NULL
    /\ table = NULL
    /\ in_log' = FALSE
    /\ at' = at + 1
    /\ UNCHANGED <<listVars, in_alert, inside, found, leaked, callVars>>

WalkOn == Walk /\ UNCHANGED <<flagVars, found, at, leaked, callVars>>

LinkEntry ==
    /\ Link
    /\ in_log' = FALSE
    /\ UNCHANGED <<in_alert, inside, found, at, leaked, callVars>>

Toggle ==
    /\ More
    /\ \E s \in Sections :
          /\ Opens(s)
          /\ inside' = IF s \in inside THEN inside \ {s} ELSE inside \cup {s}
    /\ at' = at + 1
    /\ UNCHANGED <<listVars, in_alert, in_log, found, leaked, callVars>>

-----------------------------------------------------------------------------
(* The fields. Which branch takes a node depends on the flags alone.       *)

Named == Is("error") \/ \E tag \in {"alert", "log"} \cup Sections : Opens(tag)

InLog == in_alert /\ in_log

\* The first of the sections in the order of the branches.
Section == IF "callhome" \in inside THEN "callhome"
           ELSE IF "ealert" \in inside THEN "ealert" ELSE "snmp"

\* posted and severity are read through temp_value, which is NULL again after them.
\* A hollow one does not set it: what it came with may be NULL, which is passed
\* over, or a pointer (Crash).
OpensPosted == InLog /\ inside # {} /\ Opens("posted")
OpensSeverity == InLog /\ inside = {} /\ Opens("severity")
TempText == GetTagValue(message, at + 1, node.tag, NULL)
HasText == TempText.ok /\ TempText.value # NULL

\* A variant with a bug: temp_value is left as it is after it was freed.
ReadTempOnly(field, value) ==
    /\ entry # NULL
    /\ rec' = IF HasText THEN [rec EXCEPT ![entry][field] = value] ELSE rec
    /\ at' = TempText.at
    /\ UNCHANGED <<pc, table, next, used, entry, linkVars, flagVars, found, leaked,
                   callVars>>

ReadTemp(field, value) ==
    /\ entry # NULL
    /\ rec' = IF HasText THEN [rec EXCEPT ![entry][field] = value] ELSE rec
    /\ at' = TempText.at
    /\ unset' = FALSE
    /\ UNCHANGED <<pc, table, next, used, entry, linkVars, flagVars, found, leaked,
                   alerts, message, status, stamped, messages, total, clean>>

ReadPosted == More /\ ~Named /\ OpensPosted /\ ReadTemp(Section, Sent(TempText.value))
ReadSeverity == More /\ ~Named /\ OpensSeverity /\ ReadTemp("severity", Number(TempText.value))

\* What temp_value came with is compared or converted, and freed. Nothing is said of
\* what the program does then.
Crash ==
    /\ More /\ ~Named
    /\ OpensPosted \/ OpensSeverity
    /\ TempText.ok /\ TempText.value = NULL
    /\ unset
    /\ pc' = "crashed"
    /\ UNCHANGED <<table, heapVars, entry, linkVars, flagVars, found, at, leaked,
                   callVars>>

ReadComponent ==
    /\ More /\ ~Named
    /\ InLog /\ inside = {}
    /\ Is("component")
    /\ entry # NULL
    /\ IF node.part = "empty"
       THEN /\ rec' = [rec EXCEPT ![entry]["source"] = Blank]
            /\ at' = at + 1
            /\ UNCHANGED found
       ELSE LET got == GetTagValue(message, at + 1, "component", rec[entry].source)
            IN  /\ rec' = [rec EXCEPT ![entry]["source"] = got.value]
                /\ found' = [found EXCEPT !.source = got.value]
                /\ at' = got.at
    /\ UNCHANGED <<pc, table, next, used, entry, linkVars, flagVars, leaked,
                   callVars>>

ReadTrapOID ==
    /\ More /\ ~Named
    /\ in_alert /\ ~in_log
    /\ Is("trapOID")
    /\ LET got == IF node.part = "empty" THEN [value |-> Blank, at |-> at + 1]
                  ELSE GetTagValue(message, at + 1, "trapOID", found.SNMPtrapOID)
       IN  /\ found' = [found EXCEPT !.SNMPtrapOID = got.value]
           /\ at' = got.at
    /\ UNCHANGED <<listVars, flagVars, leaked, callVars>>

Reads == \/ OpensPosted \/ OpensSeverity
         \/ InLog /\ inside = {} /\ Is("component")
         \/ in_alert /\ ~in_log /\ Is("trapOID")

Skip ==
    /\ More /\ ~Named
    /\ ~Reads
    /\ at' = at + 1
    /\ UNCHANGED <<listVars, flagVars, found, leaked, callVars>>

Step ==
    \/ Free \/ StartReading \/ EndOfMessage \/ ReadError
    \/ EnterAlert \/ LeaveAlert \/ EnterLog \/ LeaveLog \/ LeaveNoLog
    \/ WalkOn \/ LinkEntry \/ Toggle
    \/ ReadPosted \/ ReadSeverity \/ Crash \/ ReadComponent \/ ReadTrapOID \/ Skip

Next == Populate \/ Step

Spec == Init /\ [][Next]_vars

\* One thread, which runs on.
FairSpec == Spec /\ WF_vars(Step)

-----------------------------------------------------------------------------
(* Properties.                                                             *)

\* Every variable stays in its range, and while the list is searched the two
\* loop pointers are neighbours on it.
TypeOK ==
    /\ ListTypeOK
    /\ in_alert \in BOOLEAN /\ in_log \in BOOLEAN
    /\ inside \subseteq Sections
    /\ unset \in BOOLEAN
    /\ found \in [alertID : 0..MaxValue, source : 0..MaxValue, SNMPtrapOID : 0..MaxValue]
    /\ at \in 0..Len(message)
    /\ status \in {-2, -1, 0, 1}
    /\ leaked \subseteq Cells
    /\ pc = "link" =>
          /\ (prev = NULL) <=> (loop = table)
          /\ prev # NULL => next[prev] = loop

\* Where the code looks at a field of alert_entry there is an entry, also when
\* a call before this one left in_log set and the parse meets the tags of a log
\* the wrong way round.
EntryIsThere ==
    /\ More /\ in_log
    /\ (Opens("log") /\ table # NULL) \/ (~Named /\ InLog /\ Reads)
    => entry # NULL

\* An entry is on the list, being made, or was lost when a message broke off
\* inside its log; everything else was freed.
NothingElseLeaks ==
    /\ pc \in {"read", "link"} => used = ListedCells \cup Unfinished \cup leaked
    /\ pc \in {"idle", "free"} => used = ListedCells \cup leaked

\* Populating the table neither links, loses nor reads a cell it should not,
\* whatever flags the messages before have left.
MemoryIsSound == TypeOK /\ ListIsSound /\ NothingElseLeaks /\ EntryIsThere

\* The logs of the table are a sorted log: each goes to its place and stays
\* there until the next message empties the table.
LogIds ==
    LET entries == Listed
    IN  [k \in DOMAIN entries |-> [g \in {"logID", "alertID"} |-> entries[k][g]]]
Log == INSTANCE SortedLog WITH Records <- [{"logID", "alertID"} -> 0..MaxValue],
                               log <- LogIds
KeepsLog == Log!Spec

\* What the entry of a log holds: of an alert with an id, a log that names no
\* component gets the one the last log to name one named, or a blank.
Text(value) == CASE value = SelfClosed -> Blank [] value = Hollow -> NULL [] OTHER -> value
SourceOf(a) ==
    LET naming == {n \in DOMAIN a.logs : a.logs[n].component \notin {0, SelfClosed}}
    IN  IF naming = {} THEN NULL ELSE Text(a.logs[Max(naming)].component)
Severity(l) == IF l.severity \in 1..MaxValue THEN Number(l.severity) ELSE NULL
Posted(l) == IF l.posted \in 1..MaxValue THEN Sent(l.posted) ELSE NULL
EntryOf(a, l) ==
    LET own == Text(l.component)
        source == IF own # NULL \/ a.id = 0 THEN own
                  ELSE IF SourceOf(a) # NULL THEN SourceOf(a) ELSE Blank
    IN  [Zeroed EXCEPT !["logID"] = l.id, !["alertID"] = a.id, !["source"] = source,
                       !["SNMPtrap_OID"] = Text(a.trapOID), !["severity"] = Severity(l),
                       ![l.section] = Posted(l)]

LogsAreListed ==
    LET EntriesOf(a) == [n \in DOMAIN a.logs |-> EntryOf(a, a.logs[n])]
        reported == FlattenSeq([n \in DOMAIN alerts |-> EntriesOf(alerts[n])])
    IN  Sorts(Listed, reported)

Complete == pc = "idle" /\ stamped /\ message = Answer(alerts)

\* An answer that is complete is listed completely, each log with its alert's
\* id, trap and source, its severity and what was posted, if no message before it
\* broke off inside a log or a section.
AllLogsListed == Complete /\ clean => LogsAreListed

\* The message opens a severity or a posted, the first one it opens is hollow.
Opened(value) == value \notin {0, SelfClosed}
FirstOf(l) == IF Opened(l.severity) THEN l.severity ELSE l.posted
FirstIsHollow ==
    \E n \in DOMAIN alerts : \E i \in DOMAIN alerts[n].logs :
        /\ FirstOf(alerts[n].logs[i]) = Hollow
        /\ \A m \in DOMAIN alerts : \A j \in DOMAIN alerts[m].logs :
              m < n \/ (m = n /\ j < i) => ~Opened(FirstOf(alerts[m].logs[j]))

\* The comment of lines 1577-1583 knows that a new DOH sends hollow tags, and mends
\* explain-text alone. The parse comes to grief over one only if the message's first
\* severity or posted is hollow, or if a message before it broke off inside a log or
\* a section, whose flags may let it pass over the first.
CrashesForAReason == pc = "crashed" /\ clean => FirstIsHollow

\* A call returns, and was a sorted log up to there.
PopulateReturns == pc = "free" ~> pc \in {"idle", "crashed"}
FillsLog == KeepsLog /\ PopulateReturns

=============================================================================

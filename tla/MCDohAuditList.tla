--------------------------- MODULE MCDohAuditList ---------------------------
(* Constants for checking DohAuditList.                                    *)
EXTENDS DohAuditList

F(tag, value) == [tag |-> tag, value |-> value]

\* Keys that are equal and not, a record that gives none, a hollow day by itself and
\* before two remotehosts, and remotehosts with a text, without, and hollow.
AllRecords == {<<F("auditIndex", 1), F("remotehost", 2), F("time", 2)>>,
               <<F("auditIndex", 2), F("remotehost", SelfClosed), F("time", Hollow)>>,
               <<F("remotehost", Hollow), F("day", 1), F("auditIndex", 1)>>,
               <<F("day", Hollow)>>, <<F("auditIndex", Hollow)>>,
               <<F("day", Hollow), F("remotehost", 1), F("remotehost", Hollow)>>}
=============================================================================

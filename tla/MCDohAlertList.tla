--------------------------- MODULE MCDohAlertList ---------------------------
(* Constants for checking DohAlertList.                                    *)
EXTENDS DohAlertList

L(id, component, severity, section, posted) ==
    [id |-> id, component |-> component, severity |-> severity, section |-> section,
     posted |-> posted]
A(id, trapOID, logs) == [id |-> id, trapOID |-> trapOID, logs |-> logs]

\* Logs with and without a component, of equal and of different ids, with the first
\* severity or posted hollow, closed by itself, or with a text.
SomeAlerts ==
    {A(1, 2, <<L(2, 1, 2, "callhome", 2), L(1, 0, SelfClosed, "ealert", 1)>>),
     A(2, SelfClosed, <<L(2, SelfClosed, 0, "snmp", 1), L(2, Hollow, Hollow, "callhome", 0)>>),
     A(0, Hollow, <<L(1, 0, 0, "snmp", Hollow)>>),
     A(1, 0, <<>>)}
=============================================================================

---------------------------- MODULE MCDohClient ----------------------------
(* Constants for checking DohClient.                                       *)
EXTENDS DohClient

\* One of each kind: an answer whose errors count, one that fills nothing, one
\* that is blanked, a list.
FourGroups == <<"SUPERNOVA", "SYSTEM_STATUS", "SERIAL_NUMBER", "AUDIT_TABLE">>
TwoGroups == <<"SUPERNOVA", "SERIAL_NUMBER">>
AllGroups == <<"SUPERNOVA", "SYSTEM_STATUS", "SERIAL_NUMBER", "STORAGE_USED",
               "ALERT_TABLE", "AUDIT_TABLE">>
=============================================================================

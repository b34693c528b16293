---------------------------- MODULE MCLogsFollow ----------------------------
(* Instances of LogsFollow for TLC. *)
EXTENDS LogsFollow

\* The first file grows over an entry into the next one; of the second a beginning is enough.
LongThenShort == <<5, 1>>

\* Both grow while they are switched.
ShortFiles == <<2, 3>>
=============================================================================

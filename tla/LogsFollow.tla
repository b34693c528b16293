----------------------------- MODULE LogsFollow -----------------------------
(***************************************************************************)
(* "bitsocial logs --follow" (src/cli/commands/logs.ts): two timers, one   *)
(* that prints what was appended to the log file and one that looks for    *)
(* the file of a newer daemon.  They share the file followed, the offset   *)
(* in it and the partial line at its end.                                  *)
(*                                                                         *)
(* A file is a sequence of pieces, numbered from 1; a position counts      *)
(* pieces.  An entry takes three: the beginning of its first line, with    *)
(* the timestamp, the rest of that line, and a second line.                *)
(***************************************************************************)
EXTENDS Naturals, Sequences

CONSTANTS
    MaxFiles,   \* bound on log files, one per daemon start
    MaxSize,    \* bound on pieces in each file
    MaxTrims,   \* bound on trims of the file by its daemon
    TrimTo,     \* pieces that a trim leaves
    ReadBuf     \* pieces that fit into READ_BUF_SIZE

ASSUME ParametersOK ==
    /\ MaxFiles \in Nat \ {0} /\ MaxSize \in [1..MaxFiles -> Nat] /\ MaxTrims \in Nat /\ TrimTo \in Nat
    /\ ReadBuf \in Nat \ {0}

VARIABLES
    files,         \* the log files that exist
    size, trimmed, \* pieces appended to each file, and how many of them were trimmed away
    trims,
    currentLogFile, position, pendingBuffer,
    poll,          \* readNewData: the file it has open, the offset of its read, and chunk
    check,         \* checkForNewLogFile: the call that it awaits
    filtered,      \* --stdout, --stderr or --since is given; every entry passes the filter
    switches,      \* switches to a newer file so far
    out            \* what was printed

logVars    == <<files, size, trimmed, trims>>
followVars == <<currentLogFile, position, pendingBuffer, filtered, switches>>
vars == <<logVars, followVars, poll, check, out>>

Files == 1..MaxFiles
Piece == UNION {{f} \X (1..MaxSize[f]) : f \in Files}
Idle  == [on |-> FALSE]

TypeOK ==
    /\ files \in Files /\ size \in [Files -> Nat] /\ trimmed \in [Files -> Nat]
    /\ trims \in 0..MaxTrims
    /\ currentLogFile \in 0..MaxFiles
    /\ position \in Nat
    /\ pendingBuffer \in Seq(Piece) /\ out \in Seq(Piece)
    /\ poll \in {Idle} \cup [on : {TRUE}, file : Files, from : Nat, chunk : Seq(Piece)]
    /\ check \in {"idle", "listing", "reading", "stat"}
    /\ filtered \in BOOLEAN /\ switches \in 0..MaxFiles

Init ==
    /\ files = 1 /\ size = [f \in Files |-> 0] /\ trimmed = [f \in Files |-> 0] /\ trims = 0
    /\ currentLogFile = 0 /\ position = 0 /\ pendingBuffer = <<>>
    /\ poll = Idle /\ check = "idle"
    /\ filtered \in BOOLEAN /\ switches = 0
    /\ out = <<>>

-----------------------------------------------------------------------------
(* The daemons and their log files *)

DaemonWrites ==
    /\ size[files] < MaxSize[files]
    /\ size' = [size EXCEPT ![files] = @ + 1]
    /\ UNCHANGED <<files, trimmed, trims, followVars, poll, check, out>>

NewDaemon ==
    /\ files < MaxFiles
    /\ files' = files + 1
    /\ UNCHANGED <<size, trimmed, trims, followVars, poll, check, out>>

TrimFile ==
    /\ trims < MaxTrims /\ size[files] - trimmed[files] > TrimTo
    /\ trims' = trims + 1
    /\ trimmed' = [trimmed EXCEPT ![files] = size[files] - TrimTo]
    /\ UNCHANGED <<files, size, followVars, poll, check, out>>

\* stat().size.
Length(f) == size[f] - trimmed[f]

\* n pieces of a file from an offset.
Contents(f, from, n) == [i \in 1..n |-> <<f, trimmed[f] + from + i>>]

EndsLine(piece) == piece[2] % 3 # 1
HasTimestamp(piece) == piece[2] % 3 = 1

-----------------------------------------------------------------------------
(* Output *)

\* _parseLogEntries and the filters: lines before the first timestamp of a text belong to no
\* entry and do not pass.
Shown(text) ==
    IF ~filtered THEN text
    ELSE LET starts == {i \in DOMAIN text : HasTimestamp(text[i])}
         IN  IF starts = {} THEN <<>>
             ELSE SubSeq(text, CHOOSE i \in starts : \A j \in starts : i <= j, Len(text))

\* The number of pieces up to the last newline.
CompleteLength(text) ==
    LET ends == {i \in DOMAIN text : EndsLine(text[i])}
    IN  IF ends = {} THEN 0 ELSE CHOOSE i \in ends : \A j \in ends : j <= i

\* Mutant: the partial line at the end is printed and kept.
EmitAll(chunk) ==
    LET combined == pendingBuffer \o chunk
        n == CompleteLength(combined)
    IN  /\ pendingBuffer' = SubSeq(combined, n + 1, Len(combined))
        /\ out' = out \o Shown(combined)

\* Complete lines are printed, a partial one is kept.
Emit(chunk) ==
    LET combined == pendingBuffer \o chunk
        n == CompleteLength(combined)
    IN  /\ pendingBuffer' = SubSeq(combined, n + 1, Len(combined))
        /\ out' = out \o Shown(SubSeq(combined, 1, n))

-----------------------------------------------------------------------------
(* The start *)

\* The name holds the time of the start: the last one in order is the newest.
FindLatestLogFile == files

\* Mutant: the offset is taken from a stat after the dump.
StatAfterDump(n) == position' \in n..(IF size[files] < MaxSize[files] THEN n + 1 ELSE n)

StartAt(n) == position' = n

\* The dump of the latest file (--tail all); the offset is that of the bytes just read.
Start ==
    /\ currentLogFile = 0
    /\ currentLogFile' = FindLatestLogFile
    /\ out' = Shown(Contents(FindLatestLogFile, 0, Length(FindLatestLogFile)))
    /\ StartAt(Length(FindLatestLogFile))
    /\ UNCHANGED <<logVars, pendingBuffer, filtered, switches, poll, check>>

-----------------------------------------------------------------------------
(* readNewData *)

PollOpens ==
    /\ currentLogFile # 0 /\ ~poll.on
    /\ poll' = [on |-> TRUE, file |-> currentLogFile, from |-> position, chunk |-> <<>>]
    /\ UNCHANGED <<logVars, followVars, check, out>>

\* What a read returns.
BytesRead ==
    LET rest == IF poll.from < Length(poll.file) THEN Length(poll.file) - poll.from ELSE 0
    IN  IF rest < ReadBuf THEN rest ELSE ReadBuf

\* The offset moves from where it is now, which a check may have changed.
PollReads ==
    /\ poll.on
    /\ position' = position + BytesRead
    /\ LET chunk == poll.chunk \o Contents(poll.file, poll.from, BytesRead) IN
         IF BytesRead = ReadBuf
         THEN /\ poll' = [poll EXCEPT !.from = position', !.chunk = chunk]
              /\ UNCHANGED <<pendingBuffer, out>>
         ELSE /\ poll' = Idle
              /\ IF chunk = <<>> THEN UNCHANGED <<pendingBuffer, out>> ELSE Emit(chunk)
    /\ UNCHANGED <<logVars, currentLogFile, filtered, switches, check>>

-----------------------------------------------------------------------------
(* checkForNewLogFile *)

CheckBegins ==
    /\ currentLogFile # 0 /\ check = "idle"
    /\ check' = "listing"
    /\ UNCHANGED <<logVars, followVars, poll, out>>

CheckLists ==
    /\ check = "listing"
    /\ IF FindLatestLogFile = currentLogFile
       THEN check' = "idle" /\ UNCHANGED <<currentLogFile, pendingBuffer, switches, out>>
       ELSE /\ check' = "reading"
            /\ out' = out \o Shown(pendingBuffer)
            /\ currentLogFile' = FindLatestLogFile
            /\ pendingBuffer' = <<>>
            /\ switches' = switches + 1
    /\ UNCHANGED <<logVars, position, filtered, poll>>

CheckReads ==
    /\ check = "reading" /\ check' = "stat"
    /\ out' = out \o Shown(Contents(currentLogFile, 0, Length(currentLogFile)))
    /\ UNCHANGED <<logVars, followVars, poll>>

CheckStats ==
    /\ check = "stat" /\ check' = "idle"
    /\ position' = Length(currentLogFile)
    /\ UNCHANGED <<logVars, currentLogFile, pendingBuffer, filtered, switches, poll, out>>

Daemons == DaemonWrites \/ NewDaemon \/ TrimFile
Poll    == PollOpens \/ PollReads
Check   == CheckBegins \/ CheckLists \/ CheckReads \/ CheckStats

Next == Daemons \/ Start \/ Poll \/ Check

\* Both timers fire again and again, and what they await arrives.
Spec     == Init /\ [][Next]_vars
FairSpec == Spec /\ WF_vars(Start) /\ WF_vars(Poll) /\ WF_vars(Check)

-----------------------------------------------------------------------------
(* Properties *)

Printed == {out[i] : i \in DOMAIN out}

\* As long as one file is followed, everything is printed once and in order, wherever reads end in
\* a line, also when the daemon trims the file or a filter is given.
OnceInOrder ==
    switches = 0 => \A i, j \in DOMAIN out : i < j => out[i][1] = out[j][1] /\ out[i][2] < out[j][2]

\* Between two calls of the timers, nothing is missing between two pieces of a file that were printed.
Gapless ==
    check = "idle" /\ ~poll.on =>
        \A p, q \in Printed : p[1] = q[1] => \A i \in p[2]..q[2] : <<p[1], i>> \in Printed

\* logs.ts:190, "Anchor the follow offset to exactly the bytes we just read": no append is skipped
\* (issue #77), neither at the start nor after a switch, unless the file is trimmed or filtered.
SwitchSkipsNothing == trims = 0 /\ ~filtered => Gapless

\* As long as one file is followed, is not trimmed and no filter is given, a line that is complete
\* is printed some time (issue #77); and a newer daemon's file is followed in the end.
LinesAppear ==
    \A f \in Files :
        /\ \A i \in 1..MaxSize[f] : LET p == <<f, i>> IN
              (p[1] = files /\ p[2] <= size[p[1]] /\ EndsLine(p)) ~>
                  (p \in Printed \/ files > p[1] \/ switches > 0 \/ trims > 0 \/ filtered)
        /\ (files >= f) ~> (currentLogFile >= f)
=============================================================================

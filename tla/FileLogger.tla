----------------------------- MODULE FileLogger -----------------------------
(***************************************************************************)
(* createDaemonFileLogger (src/common-utils/daemon-file-logger.ts) and its *)
(* use by the daemon (_pipeDebugLogsToLogFile in daemon.ts).               *)
(*                                                                         *)
(* Lines are numbered as the daemon writes them, and sizes are counted in  *)
(* lines.  A step is what runs between two awaits, or what Node's write    *)
(* stream or a file-system call does in the background.                    *)
(***************************************************************************)
EXTENDS Naturals, Sequences

CONSTANTS
    maxBytes, trimToBytes, pendingByteCap, \* the options, in lines
    MaxLines,                              \* bound on lines written
    MaxFaults                              \* bound on failing file-system calls

ASSUME OptionsOK ==
    /\ maxBytes \in Nat /\ trimToBytes \in Nat \ {0} /\ pendingByteCap \in Nat
    /\ trimToBytes < maxBytes
    /\ MaxLines \in Nat /\ MaxFaults \in Nat

VARIABLES
    file,         \* the lines in the log file
    stream,       \* the current write stream
    queue,        \* lines handed to it and not yet in the file
    bytesWritten, \* lines it has put into the file
    trimming,     \* the step of trim() that is due, or "none"
    tail,         \* what trim() has read
    pending,      \* lines written during the trim
    closed,
    process,      \* whether the daemon runs
    lines,        \* lines written so far
    accepted,     \* those for which writeTimestampedLine returned true
    broken,       \* a call of the file system failed
    faults

streamVars == <<stream, queue, bytesWritten>>
lineVars   == <<lines, accepted>>
faultVars  == <<broken, faults>>
vars == <<file, streamVars, trimming, tail, pending, closed, process, lineVars, faultVars>>

Lines == 1..MaxLines

TypeOK ==
    /\ file \in Seq(Lines) /\ queue \in Seq(Lines) /\ tail \in Seq(Lines) /\ pending \in Seq(Lines)
    /\ stream \in {"open", "ending", "ended", "destroyed"}
    /\ bytesWritten \in 0..MaxLines
    /\ trimming \in {"none", "ending", "stat", "open", "read", "truncate", "write", "close"}
    /\ closed \in BOOLEAN
    /\ process \in {"running", "exited"}
    /\ lines \in 0..MaxLines /\ accepted \in SUBSET Lines
    /\ broken \in BOOLEAN /\ faults \in 0..MaxFaults

Init ==
    /\ file = <<>> /\ queue = <<>> /\ tail = <<>> /\ pending = <<>>
    /\ stream = "open" /\ bytesWritten = 0
    /\ trimming = "none" /\ closed = FALSE /\ process = "running"
    /\ lines = 0 /\ accepted = {}
    /\ broken = FALSE /\ faults = 0

Fault ==
    /\ faults < MaxFaults /\ faults' = faults + 1
    /\ broken' = TRUE

-----------------------------------------------------------------------------
(* writeTimestampedLine *)

Accept(line) == accepted' = accepted \cup {line}

\* After close.
Refuse == closed /\ UNCHANGED <<streamVars, trimming, pending, accepted>>

Buffer(line) ==
    /\ ~closed /\ trimming # "none"
    /\ IF Len(pending) + 1 > pendingByteCap
       THEN UNCHANGED <<pending, accepted>>
       ELSE pending' = Append(pending, line) /\ Accept(line)
    /\ UNCHANGED <<streamVars, trimming>>

\* stream.end().
Ending == IF stream = "open" THEN "ending" ELSE stream

\* What is written to a stream that has ended or failed is gone.
Write(line) ==
    /\ ~closed /\ trimming = "none"
    /\ Accept(line)
    /\ queue' = IF stream = "open" THEN Append(queue, line) ELSE queue
    /\ IF bytesWritten > maxBytes
       THEN trimming' = "ending" /\ stream' = Ending
       ELSE UNCHANGED <<trimming, stream>>
    /\ UNCHANGED <<bytesWritten, pending>>

WriteTimestampedLine ==
    /\ lines < MaxLines
    /\ lines' = lines + 1
    /\ LET line == lines + 1 IN Refuse \/ Buffer(line) \/ Write(line)
    /\ UNCHANGED <<file, tail, closed, faultVars>>

-----------------------------------------------------------------------------
(* The write stream *)

Flush ==
    /\ stream \in {"open", "ending"} /\ queue # <<>>
    /\ file' = Append(file, Head(queue))
    /\ queue' = Tail(queue)
    /\ bytesWritten' = bytesWritten + 1
    /\ UNCHANGED <<stream, trimming, tail, pending, closed, lineVars, faultVars>>

\* The error is swallowed; Node destroys the stream.
FlushFails ==
    /\ stream \in {"open", "ending"} /\ queue # <<>>
    /\ Fault
    /\ stream' = "destroyed"
    /\ queue' = <<>>
    /\ UNCHANGED <<file, bytesWritten, trimming, tail, pending, closed, lineVars>>

StreamEnds ==
    /\ stream = "ending" /\ queue = <<>>
    /\ stream' = "ended"
    /\ UNCHANGED <<file, queue, bytesWritten, trimming, tail, pending, closed, lineVars, faultVars>>

-----------------------------------------------------------------------------
(* trim *)

Goto(this, next) == trimming = this /\ trimming' = next

\* The callback of stream.end() runs when the stream has ended or cannot.
Flushed ==
    /\ stream \in {"ended", "destroyed"}
    /\ Goto("ending", "stat")
    /\ UNCHANGED <<file, streamVars, tail, pending, closed, lineVars, faultVars>>

Stat ==
    /\ Len(file) > trimToBytes
    /\ Goto("stat", "open")
    /\ UNCHANGED <<file, streamVars, tail, pending, closed, lineVars, faultVars>>

Open ==
    /\ Goto("open", "read")
    /\ UNCHANGED <<file, streamVars, tail, pending, closed, lineVars, faultVars>>

\* All that follows the first newline of the last trimToBytes: one line less.
Recent(s) == SubSeq(s, Len(s) - trimToBytes + 2, Len(s))

Read ==
    /\ Goto("read", "truncate")
    /\ tail' = Recent(file)
    /\ UNCHANGED <<file, streamVars, pending, closed, lineVars, faultVars>>

\* writeFile empties the file first.
Truncate ==
    /\ Goto("truncate", "write")
    /\ file' = <<>>
    /\ UNCHANGED <<streamVars, tail, pending, closed, lineVars, faultVars>>

WriteTail ==
    /\ Goto("write", "close")
    /\ file' = tail
    /\ UNCHANGED <<streamVars, tail, pending, closed, lineVars, faultVars>>

\* Mutant: the buffered lines are not handed over.
NotDrained == <<>>

Drained == pending

\* Mutant: the buffered lines wait for the next trim.
ReopenOnly ==
    /\ stream' = "open" /\ bytesWritten' = 0 /\ queue' = <<>>
    /\ tail' = <<>> /\ trimming' = "none"
    /\ UNCHANGED <<file, pending, closed, lineVars>>

\* reopenStream, then the finally handler with drainPending.
Reopen ==
    /\ stream' = "open" /\ bytesWritten' = 0
    /\ queue' = Drained
    /\ pending' = <<>> /\ tail' = <<>>
    /\ trimming' = "none"
    /\ UNCHANGED <<file, closed, lineVars>>

TrimCompletes ==
    /\ \/ trimming = "stat" /\ Len(file) <= trimToBytes
       \/ trimming = "close"
    /\ Reopen
    /\ UNCHANGED faultVars

\* A stat that fails is no error.
StatFails == trimming = "stat" /\ Fault /\ Reopen

\* Mutant: a failed trim starts counting afresh.
FreshCount == 0

CountAfterFailure == bytesWritten

\* The catch handler.
TrimFails ==
    /\ trimming \in {"open", "read", "truncate", "write", "close"}
    /\ Fault
    /\ pending' = <<>> /\ tail' = <<>>
    /\ trimming' = "none"
    /\ bytesWritten' = CountAfterFailure
    /\ UNCHANGED <<file, stream, queue, closed, lineVars>>

-----------------------------------------------------------------------------
(* close, and the daemon's exit *)

Close ==
    /\ ~closed /\ closed' = TRUE
    /\ UNCHANGED <<file, streamVars, trimming, tail, pending, lineVars, faultVars>>

\* close() goes on once no trim is in flight.
CloseEnds ==
    /\ closed /\ trimming = "none" /\ stream = "open"
    /\ stream' = "ending"
    /\ UNCHANGED <<file, queue, bytesWritten, trimming, tail, pending, closed, lineVars, faultVars>>

\* The exit handler calls close(), and nothing that it awaits happens any more.
Exit ==
    /\ process' = "exited" /\ closed' = TRUE
    /\ UNCHANGED <<file, streamVars, trimming, tail, pending, lineVars, faultVars>>

Trim == Flushed \/ Stat \/ Open \/ Read \/ Truncate \/ WriteTail \/ TrimCompletes

Loop ==
    \/ WriteTimestampedLine
    \/ Flush \/ FlushFails \/ StreamEnds
    \/ Trim \/ StatFails \/ TrimFails
    \/ Close \/ CloseEnds

Next == process = "running" /\ (Exit \/ (Loop /\ UNCHANGED process))

Spec == Init /\ [][Next]_vars

\* What Node has begun, it finishes.
InBackground == process = "running" /\ (Flush \/ StreamEnds \/ Trim \/ CloseEnds) /\ UNCHANGED process

FairSpec == Spec /\ WF_vars(InBackground)

-----------------------------------------------------------------------------
(* Properties *)

Elements(s) == {s[i] : i \in DOMAIN s}

\* The lines that are in the file or will be.
Kept == Elements(file) \cup Elements(tail) \cup Elements(queue) \cup Elements(pending)

Ascending(s) == \A i, j \in DOMAIN s : i < j => s[i] < s[j]

\* Whatever is buffered, trimmed or lost, the lines reach the file once, in the order in which
\* the daemon wrote them.
InOrder == Ascending(file \o queue \o pending)

\* test/common-utils/daemon-file-logger.test.ts:57, "preserves the most recent writes after trim, drops the
\* oldest": as long as the file system works, an accepted line only goes when trimToBytes of newer
\* ones are kept.
RecentAreKept ==
    ~broken => \A l \in accepted \ Kept :
                  /\ \A k \in Kept : l < k
                  /\ Len(file) + Len(tail) + Len(queue) + Len(pending) >= trimToBytes - 1

\* daemon-file-logger.ts:90, "The next write will hit the same condition and retry": a trim that
\* failed after it had ended the stream is tried again, or the file would be frozen.
FailedTrimIsRetried ==
    stream = "ended" /\ trimming = "none" /\ ~closed => bytesWritten > maxBytes

\* After close(), every line that was accepted last gets into the file, those of a trim in flight too.
CloseFlushes ==
    closed ~> \/ process = "exited" \/ broken
              \/ stream = "ended" /\ RecentAreKept /\ Kept = Elements(file)
=============================================================================

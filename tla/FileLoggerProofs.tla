-------------------------- MODULE FileLoggerProofs --------------------------
(***************************************************************************)
(* The daemon's log file for any options, any number of lines and any      *)
(* number of failures: TypeOK, InOrder, FailedTrimIsRetried and            *)
(* RecentAreKept.                                                          *)
(*                                                                         *)
(* IInv adds what a trim relies on: from stat() on nothing is in the       *)
(* stream that could reach the file (Stopped), what was read is what the   *)
(* file will hold (Tails), and lines are only lost off the front (Losses). *)
(***************************************************************************)
EXTENDS FileLogger, SequenceTheorems, TLAPS

\* The steps at which trim() works on the file, and those after it has read it.
OnFile  == {"stat", "open", "read", "truncate", "write", "close"}
HasTail == {"truncate", "write"}

\* Every line of s comes before every line of t.
Below(s, t) == \A i \in DOMAIN s, j \in DOMAIN t : s[i] < t[j]

\* s holds no line written after the n-th.
AtMost(s, n) == \A i \in DOMAIN s : s[i] <= n

\* No more lines wait or were counted than were written.
Counted ==
    /\ bytesWritten + Len(queue) + Len(pending) <= lines
    /\ accepted \subseteq 1..lines
    /\ AtMost(file, lines) /\ AtMost(queue, lines) /\ AtMost(pending, lines) /\ AtMost(tail, lines)

\* The lines are in order, in each place and from one to the next.
Sorted ==
    /\ Ascending(file) /\ Ascending(queue) /\ Ascending(pending)
    /\ Below(file, queue) /\ Below(file, pending) /\ Below(queue, pending)
    /\ Ascending(tail) /\ Below(tail, queue) /\ Below(tail, pending)

\* Nothing is left in a stream that is over, and a trim works on the file when it is.
Stopped ==
    /\ stream \in {"ended", "destroyed"} => queue = <<>>
    /\ trimming \in OnFile => stream \in {"ended", "destroyed"}
    /\ trimming \in {"open", "read", "truncate"} => Len(file) > trimToBytes
    /\ trimming = "none" => pending = <<>>

\* What trim() has read, and what it does with it.
Tails ==
    /\ trimming \notin HasTail \cup {"close"} => tail = <<>>
    /\ trimming \in HasTail \cup {"close"} => Len(tail) = trimToBytes - 1
    /\ trimming = "truncate" => tail = Recent(file)
    /\ trimming = "write" => file = <<>>
    /\ trimming = "close" => file = tail

\* A trim is due for as long as the stream is over, and it got there only by counting.
Due ==
    /\ trimming # "none" => bytesWritten > maxBytes
    /\ stream \in {"ending", "ended"} /\ ~closed => bytesWritten > maxBytes
    /\ ~broken => stream # "destroyed"
    /\ ~broken /\ ~closed /\ trimming = "none" => stream = "open"

\* Lost are only lines older than all that are kept, and only by a trim that kept enough.
Losses ==
    ~broken => \A l \in accepted \ Kept :
                  /\ \A k \in Kept : l < k
                  /\ Len(IF trimming = "write" THEN tail ELSE file) >= trimToBytes - 1

IInv == Counted /\ Sorted /\ Stopped /\ Tails /\ Due /\ Losses

-----------------------------------------------------------------------------
(* Sequences of lines *)

\* What Append does to order and bounds.
LEMMA AppendLine ==
    ASSUME NEW s \in Seq(Nat), NEW e \in Nat, AtMost(s, e - 1)
    PROVE  /\ Append(s, e) \in Seq(Nat) /\ Len(Append(s, e)) = Len(s) + 1
           /\ Ascending(s) => Ascending(Append(s, e))
           /\ AtMost(Append(s, e), e)
           /\ Elements(Append(s, e)) = Elements(s) \cup {e}
<1>. DEFINE a == Append(s, e)
<1>1. /\ a \in Seq(Nat) /\ Len(a) = Len(s) + 1
      /\ DOMAIN s = 1..Len(s) /\ DOMAIN a = 1..(Len(s) + 1)
      /\ \A i \in 1..Len(s) : a[i] = s[i]
      /\ a[Len(s) + 1] = e
      /\ \A i \in 1..Len(s) : s[i] \in Nat
      /\ Len(s) \in Nat
  OBVIOUS
<1>0. \A i \in 1..Len(s) : s[i] < e
  BY <1>1 DEF AtMost
<1>2. AtMost(a, e)
  BY <1>1, <1>0 DEF AtMost
<1>3. Ascending(s) => Ascending(a)
  BY <1>1, <1>0 DEF Ascending
<1>4. Elements(a) = Elements(s) \cup {e}
  <2>1. Elements(a) \subseteq Elements(s) \cup {e}
    BY <1>1 DEF Elements
  <2>2. Elements(s) \cup {e} \subseteq Elements(a)
    BY <1>1 DEF Elements
  <2>. QED
    BY <2>1, <2>2
<1>. QED
  BY <1>1, <1>2, <1>3, <1>4

\* A later line goes to the end of t.
LEMMA BelowAppend ==
    ASSUME NEW s \in Seq(Nat), NEW t \in Seq(Nat), NEW e \in Nat, Below(s, t), AtMost(s, e - 1)
    PROVE  Below(s, Append(t, e))
<1>1. /\ DOMAIN Append(t, e) = 1..(Len(t) + 1) /\ DOMAIN t = 1..Len(t) /\ Len(t) \in Nat
      /\ Append(t, e)[Len(t) + 1] = e
      /\ \A j \in 1..Len(t) : Append(t, e)[j] = t[j]
  OBVIOUS
<1>2. \A i \in DOMAIN s : s[i] < e
  BY DEF AtMost
<1>3. ASSUME NEW i \in DOMAIN s, NEW j \in DOMAIN Append(t, e)
      PROVE  s[i] < Append(t, e)[j]
  <2>1. CASE j = Len(t) + 1
    BY <1>1, <1>2, <2>1
  <2>2. CASE j # Len(t) + 1
    BY <1>1, <2>2 DEF Below
  <2>. QED
    BY <2>1, <2>2
<1>. QED
  BY <1>3 DEF Below

LEMMA AtMostMore == ASSUME NEW s \in Seq(Nat), NEW n \in Nat, AtMost(s, n)
                    PROVE  AtMost(s, n + 1)
BY DEF AtMost

\* The first line of t moves to the end of s.
LEMMA MoveHead ==
    ASSUME NEW s \in Seq(Nat), NEW t \in Seq(Nat), t # <<>>, Ascending(s), Ascending(t), Below(s, t)
    PROVE  /\ Head(t) \in Nat /\ Tail(t) \in Seq(Nat) /\ Len(Tail(t)) = Len(t) - 1
           /\ Ascending(Append(s, Head(t))) /\ Ascending(Tail(t)) /\ Below(Append(s, Head(t)), Tail(t))
           /\ Elements(Append(s, Head(t))) \cup Elements(Tail(t)) = Elements(s) \cup Elements(t)
<1>. DEFINE a == Append(s, Head(t))
            b == Tail(t)
<1>1. /\ Head(t) = t[1] /\ t[1] \in Nat /\ Len(t) \in Nat /\ Len(t) >= 1
      /\ b \in Seq(Nat) /\ Len(b) = Len(t) - 1 /\ DOMAIN b = 1..(Len(t) - 1)
      /\ DOMAIN t = 1..Len(t) /\ DOMAIN s = 1..Len(s) /\ Len(s) \in Nat
      /\ \A i \in 1..(Len(t) - 1) : b[i] = t[i + 1]
      /\ \A i \in 1..Len(t) : t[i] \in Nat
  OBVIOUS
<1>2. AtMost(s, Head(t) - 1)
  <2>1. ASSUME NEW i \in DOMAIN s
        PROVE  s[i] < Head(t) /\ s[i] \in Nat /\ Head(t) \in Nat
    <3>1. 1 \in DOMAIN t /\ Head(t) = t[1] /\ t[1] \in Nat
      BY <1>1
    <3>2. s[i] < t[1]
      BY <3>1 DEF Below
    <3>. QED
      BY <3>1, <3>2
  <2>2. \A i \in DOMAIN s : s[i] <= Head(t) - 1
    BY <2>1
  <2>. QED
    BY <2>2 DEF AtMost
<1>3. Ascending(a) /\ Elements(a) = Elements(s) \cup {Head(t)}
  BY <1>1, <1>2, AppendLine
<1>4. Ascending(b)
  <2>1. ASSUME NEW i \in DOMAIN b, NEW j \in DOMAIN b, i < j
        PROVE  b[i] < b[j]
    <3>1. /\ i + 1 \in DOMAIN t /\ j + 1 \in DOMAIN t /\ i + 1 < j + 1
          /\ b[i] = t[i + 1] /\ b[j] = t[j + 1]
      BY <1>1, <2>1
    <3>. QED
      BY <3>1 DEF Ascending
  <2>. HIDE DEF b
  <2>. QED
    BY <2>1 DEF Ascending
<1>5. /\ DOMAIN a = 1..(Len(s) + 1) /\ a[Len(s) + 1] = t[1]
      /\ \A i \in 1..Len(s) : a[i] = s[i]
  BY <1>1
<1>6. Below(a, b)
  <2>1. ASSUME NEW i \in DOMAIN a, NEW j \in DOMAIN b
        PROVE  a[i] < b[j]
    <3>1. j + 1 \in DOMAIN t /\ b[j] = t[j + 1]
      BY <1>1
    <3>2. CASE i = Len(s) + 1
      <4>1. 1 \in DOMAIN t /\ 1 < j + 1
        BY <1>1
      <4>2. t[1] < t[j + 1]
        BY <3>1, <4>1 DEF Ascending
      <4>. QED
        BY <1>5, <3>1, <3>2, <4>2
    <3>3. CASE i # Len(s) + 1
      <4>1. i \in DOMAIN s /\ a[i] = s[i]
        BY <1>1, <1>5, <3>3
      <4>. QED
        BY <3>1, <4>1 DEF Below
    <3>. QED
      BY <3>2, <3>3
  <2>. QED
    BY <2>1 DEF Below
<1>7. Elements(t) = {Head(t)} \cup Elements(b)
  <2>1. Elements(t) \subseteq {Head(t)} \cup Elements(b)
    <3> SUFFICES ASSUME NEW i \in DOMAIN t
                 PROVE  t[i] \in {Head(t)} \cup Elements(b)
      BY DEF Elements
    <3>1. CASE i = 1
      BY <1>1, <3>1
    <3>2. CASE i # 1
      <4>1. i - 1 \in 1..(Len(t) - 1) /\ b[i - 1] = t[i]
        BY <1>1, <3>2
      <4>. QED
        BY <1>1, <4>1 DEF Elements
    <3>. QED
      BY <3>1, <3>2
  <2>2. {Head(t)} \cup Elements(b) \subseteq Elements(t)
    BY <1>1 DEF Elements
  <2>. QED
    BY <2>1, <2>2
<1>. QED
  BY <1>1, <1>3, <1>4, <1>6, <1>7

\* What a trim keeps is the end of the file.
LEMMA RecentLines ==
    ASSUME NEW s \in Seq(Nat), Len(s) > trimToBytes
    PROVE  /\ Recent(s) \in Seq(Nat) /\ Len(Recent(s)) = trimToBytes - 1
           /\ \A i \in DOMAIN Recent(s) : i + (Len(s) - trimToBytes + 1) \in DOMAIN s
                                            /\ Recent(s)[i] = s[i + (Len(s) - trimToBytes + 1)]
           /\ \A l \in Elements(s) \ Elements(Recent(s)) :
                  \E i \in DOMAIN s : l = s[i] /\ i <= Len(s) - trimToBytes + 1
<1>. DEFINE n == Len(s)
            k == n - trimToBytes + 1
            r == Recent(s)
<1>1. DOMAIN s = 1..n /\ (\A i \in 1..n : s[i] \in Nat) /\ n \in Nat
  OBVIOUS
<1>2. r = SubSeq(s, k + 1, n)
  <2>1. n - trimToBytes + 2 = k + 1
    BY <1>1, OptionsOK
  <2>. QED
    BY <2>1 DEF Recent
<1>. HIDE DEF n
<1>3. k \in Nat /\ k <= n /\ n - k = trimToBytes - 1
  BY <1>1, OptionsOK DEF n
<1>. HIDE DEF k
<1>4. /\ r \in Seq(Nat) /\ Len(r) = (IF k + 1 <= n THEN n - (k + 1) + 1 ELSE 0)
      /\ \A i \in 1..(n - (k + 1) + 1) : r[i] = s[(k + 1) + i - 1]
  <2>1. k + 1 \in Int /\ n \in Int /\ \A i \in (k + 1)..n : s[i] \in Nat
    BY <1>1, <1>3
  <2>. QED
    BY <1>2, <2>1, SubSeqProperties
<1>. HIDE DEF r
<1>5. n - (k + 1) + 1 = n - k /\ (~(k + 1 <= n) => n - k = 0)
  BY <1>1, <1>3
<1>6. Len(r) = n - k /\ DOMAIN r = 1..(n - k)
  <2>1. Len(r) = n - k
    BY <1>4, <1>5
  <2>. QED
    BY <1>4, <2>1, LenProperties
<1>7. \A i \in DOMAIN r : i + k \in DOMAIN s /\ r[i] = s[i + k]
  <2> SUFFICES ASSUME NEW i \in DOMAIN r
               PROVE  i + k \in DOMAIN s /\ r[i] = s[i + k]
    OBVIOUS
  <2>1. i \in 1..(n - k) /\ (k + 1) + i - 1 = i + k /\ i + k \in 1..n
    BY <1>1, <1>3, <1>6
  <2>2. r[i] = s[(k + 1) + i - 1]
    BY <1>4, <1>5, <2>1
  <2>. QED
    BY <1>1, <2>1, <2>2
<1>8. \A l \in Elements(s) \ Elements(r) : \E i \in DOMAIN s : l = s[i] /\ i <= k
  <2> SUFFICES ASSUME NEW i \in DOMAIN s, ~(i <= k)
               PROVE  s[i] \in Elements(r)
    BY DEF Elements
  <2>1. i - k \in 1..(n - k) /\ (i - k) + k = i
    BY <1>1, <1>3
  <2>2. i - k \in DOMAIN r /\ r[i - k] = s[i]
    BY <1>6, <1>7, <2>1
  <2>. QED
    BY <2>2 DEF Elements
<1>. QED
  BY <1>3, <1>4, <1>6, <1>7, <1>8 DEF k, n, r

-----------------------------------------------------------------------------
(* The steps that move no line *)

Places == <<file, queue, pending, tail>>

\* What TypeOK says of them, in natural numbers.
LEMMA Types ==
    TypeOK => /\ file \in Seq(Nat) /\ queue \in Seq(Nat) /\ pending \in Seq(Nat) /\ tail \in Seq(Nat)
              /\ bytesWritten \in Nat /\ lines \in Nat /\ accepted \subseteq Nat
              /\ Len(file) \in Nat /\ Len(queue) \in Nat /\ Len(pending) \in Nat
BY OptionsOK DEF TypeOK, Lines

\* They keep the order, and only have to do with the stream and the trim.
LEMMA NothingMoves ==
    ASSUME TypeOK, IInv, UNCHANGED <<Places, bytesWritten, lines, accepted>>
    PROVE  Counted' /\ Sorted'
<1>1. file' = file /\ queue' = queue /\ pending' = pending /\ tail' = tail
  BY DEF Places
<1>2. Counted'
  BY <1>1 DEF IInv, Counted
<1>3. Sorted'
  BY <1>1 DEF IInv, Sorted
<1>. QED
  BY <1>2, <1>3

\* Nothing is lost by them either, as long as the trim stays on the same side of its write.
LEMMA NothingIsLost ==
    ASSUME IInv, UNCHANGED <<Places, accepted>>, broken => broken',
           (trimming' = "write") <=> (trimming = "write")
    PROVE  Losses'
<1>1. Kept' = Kept
  BY DEF Places, Kept
<1>2. Losses /\ (~broken' => ~broken)
  BY DEF IInv
<1>. QED
  BY <1>1, <1>2 DEF Losses, Places

\* The stream ends, a call of trim() before it reads answers, the daemon closes the logger or ends.
Quiet ==
    \/ (StreamEnds \/ Flushed \/ Stat \/ Open \/ Close \/ CloseEnds) /\ UNCHANGED process
    \/ Exit \/ UNCHANGED vars

LEMMA QuietStep == TypeOK /\ IInv /\ Quiet => TypeOK' /\ IInv'
<1> SUFFICES ASSUME TypeOK, IInv, Quiet
             PROVE  TypeOK' /\ IInv'
  OBVIOUS
<1>1. UNCHANGED <<Places, bytesWritten, lines, accepted, broken, faults>>
  BY DEF Quiet, StreamEnds, Flushed, Stat, Open, Close, CloseEnds, Exit, vars, Places, streamVars, lineVars, faultVars
<1>2. file' = file /\ queue' = queue /\ pending' = pending /\ tail' = tail
  BY <1>1 DEF Places
<1>3. /\ stream' \in {"open", "ending", "ended", "destroyed"}
      /\ trimming' \in {"none", "ending", "stat", "open", "read", "truncate", "write", "close"}
      /\ closed' \in BOOLEAN /\ process' \in {"running", "exited"}
      /\ (trimming' = "write") <=> (trimming = "write")
  BY DEF TypeOK, Quiet, StreamEnds, Flushed, Stat, Open, Close, CloseEnds, Exit, vars, Goto, streamVars
<1>4. TypeOK'
  BY <1>1, <1>2, <1>3 DEF TypeOK
<1>5. Counted' /\ Sorted' /\ Losses'
  BY <1>1, <1>3, NothingMoves, NothingIsLost
<1>6. ASSUME TypeOK, Stopped, Tails, Due
      PROVE  Stopped' /\ Tails' /\ Due'
  <2>1. CASE StreamEnds
    BY <1>1, <1>2, <1>6, <2>1 DEF Stopped, Tails, Due, StreamEnds, OnFile, HasTail, Recent, TypeOK
  <2>2. CASE Flushed \/ Stat \/ Open
    BY <1>1, <1>2, <1>6, <2>2 DEF Stopped, Tails, Due, Flushed, Stat, Open, Goto, OnFile, HasTail, Recent, streamVars, TypeOK
  <2>3. CASE Close \/ CloseEnds \/ Exit \/ UNCHANGED vars
    BY <1>1, <1>2, <1>6, <2>3 DEF Stopped, Tails, Due, Close, CloseEnds, Exit, vars, OnFile, HasTail, Recent, streamVars, TypeOK
  <2>. QED
    BY <2>1, <2>2, <2>3 DEF Quiet
<1>. QED
  BY <1>4, <1>5, <1>6 DEF IInv

-----------------------------------------------------------------------------
(* Writing a line *)

\* A line that is refused or not accepted is as if it had not been written.
LEMMA RefusedStep ==
    ASSUME TypeOK, IInv, lines < MaxLines, lines' = lines + 1,
           UNCHANGED <<file, streamVars, trimming, tail, pending, closed, process, accepted, faultVars>>
    PROVE  TypeOK' /\ IInv'
<1>1. TypeOK'
  BY OptionsOK DEF TypeOK, streamVars, faultVars
<1>2. Counted'
  <2>1. /\ UNCHANGED <<file, queue, pending, tail, bytesWritten, accepted>> /\ lines \in Nat
        /\ Len(queue) \in Nat /\ Len(pending) \in Nat /\ bytesWritten \in Nat
    BY Types DEF streamVars
  <2>2. /\ AtMost(file, lines + 1) /\ AtMost(queue, lines + 1)
        /\ AtMost(pending, lines + 1) /\ AtMost(tail, lines + 1)
    BY Types, AtMostMore DEF IInv, Counted
  <2>3. bytesWritten + Len(queue) + Len(pending) <= lines + 1 /\ accepted \subseteq 1..(lines + 1)
    BY <2>1 DEF IInv, Counted
  <2>. QED
    BY <2>1, <2>2, <2>3 DEF Counted
<1>3. Sorted' /\ Stopped' /\ Tails' /\ Due'
  BY DEF IInv, Sorted, Stopped, Tails, Due, streamVars, faultVars, Recent
<1>4. Losses'
  BY NothingIsLost DEF Places, streamVars, faultVars
<1>. QED
  BY <1>1, <1>2, <1>3, <1>4 DEF IInv

\* A line that is accepted is the newest of all.
LEMMA NewestIsKept ==
    ASSUME TypeOK, IInv, Accept(lines + 1), Kept' = Kept \cup {lines + 1}, UNCHANGED <<file, tail>>, broken' = broken,
           (trimming' = "write") <=> (trimming = "write")
    PROVE  Losses'
<1> SUFFICES ASSUME ~broken, NEW l \in accepted' \ Kept'
             PROVE  /\ \A k \in Kept' : l < k
                    /\ Len(IF trimming = "write" THEN tail ELSE file) >= trimToBytes - 1
  BY DEF Losses
<1>1. l \in accepted \ Kept
  BY DEF Accept
<1>2. l < lines + 1
  BY <1>1, Types DEF IInv, Counted
<1>. QED
  BY <1>1, <1>2 DEF IInv, Losses

\* A line that is buffered during a trim.
LEMMA BufferedStep ==
    ASSUME TypeOK, IInv, lines < MaxLines, lines' = lines + 1,
           pending' = Append(pending, lines + 1), Accept(lines + 1), trimming # "none",
           UNCHANGED <<file, streamVars, trimming, tail, closed, process, faultVars>>
    PROVE  TypeOK' /\ IInv'
<1>. DEFINE line == lines + 1
<1>1. /\ line \in Lines /\ line \in Nat /\ line - 1 = lines /\ line <= MaxLines
  BY Types, OptionsOK DEF TypeOK, Lines
<1>2. /\ Len(pending') = Len(pending) + 1 /\ Ascending(pending')
      /\ AtMost(pending', line)
      /\ Elements(pending') = Elements(pending) \cup {line}
      /\ pending' \in Seq(Nat)
  BY <1>1, Types, AppendLine DEF IInv, Sorted, Counted
<1>3. TypeOK'
  <2>1. pending' \in Seq(Lines)
    BY <1>1 DEF TypeOK
  <2>2. lines' \in 0..MaxLines /\ accepted' \in SUBSET Lines
    BY <1>1 DEF TypeOK, Accept
  <2>. QED
    BY <2>1, <2>2 DEF TypeOK, streamVars, faultVars
<1>4. Counted'
  <2>1. accepted' \subseteq 1..line
    <3>1. accepted \subseteq 1..lines /\ lines \in Nat
      BY Types DEF IInv, Counted
    <3>2. 1..lines \subseteq 1..line /\ line \in 1..line
      BY <3>1
    <3>. QED
      BY <3>1, <3>2 DEF Accept
  <2>2. AtMost(file, line) /\ AtMost(queue, line) /\ AtMost(tail, line)
    BY Types, AtMostMore DEF IInv, Counted
  <2>3. bytesWritten + Len(queue) + Len(pending') <= line
    BY <1>2, Types DEF IInv, Counted
  <2>. QED
    BY <1>2, <2>1, <2>2, <2>3 DEF Counted, streamVars
<1>5. Sorted'
  <2>1. Below(file, pending') /\ Below(queue, pending') /\ Below(tail, pending')
    BY <1>1, Types, BelowAppend DEF IInv, Sorted, Counted
  <2>. QED
    BY <1>2, <2>1 DEF IInv, Sorted, streamVars
<1>6. Stopped' /\ Tails' /\ Due'
  BY DEF IInv, Stopped, Tails, Due, streamVars, faultVars, Recent
<1>7. Losses'
  <2>1. Kept' = Kept \cup {line}
    BY <1>2 DEF Kept, streamVars
  <2>. QED
    BY <2>1, NewestIsKept DEF streamVars, faultVars
<1>. QED
  BY <1>3, <1>4, <1>5, <1>6, <1>7 DEF IInv

\* A line that goes into the stream, and one whose stream is over.
LEMMA WrittenStep ==
    ASSUME TypeOK, IInv, lines < MaxLines, lines' = lines + 1, Write(lines + 1),
           UNCHANGED <<file, tail, closed, process, faultVars>>
    PROVE  TypeOK' /\ IInv'
<1>. DEFINE line == lines + 1
<1>1. /\ line \in Lines /\ line \in Nat /\ line - 1 = lines /\ line <= MaxLines
  BY Types, OptionsOK DEF TypeOK, Lines
<1>2. /\ pending = <<>> /\ pending' = <<>> /\ tail = <<>> /\ bytesWritten' = bytesWritten
      /\ trimming = "none" /\ trimming' \in {"none", "ending"} /\ ~closed
      /\ stream' \in {"open", "ending", "ended", "destroyed"}
      /\ accepted' = accepted \cup {line}
      /\ stream' # stream => stream = "open" /\ stream' = "ending"
  BY DEF Write, IInv, Stopped, Tails, HasTail, Ending, Accept, TypeOK
<1>3. accepted' \subseteq 1..line
  <2>1. accepted \subseteq 1..lines /\ lines \in Nat
    BY Types DEF IInv, Counted
  <2>2. 1..lines \subseteq 1..line /\ line \in 1..line
    BY <2>1
  <2>. QED
    BY <1>2, <2>1, <2>2
<1>4. /\ queue' \in Seq(Lines) /\ queue' \in Seq(Nat)
      /\ Len(queue') <= Len(queue) + 1 /\ AtMost(queue', line)
      /\ Ascending(queue') /\ Below(file, queue') /\ Below(tail, queue')
  <2>1. CASE stream = "open"
    <3>1. queue' = Append(queue, line)
      BY <2>1 DEF Write
    <3>2. queue' \in Seq(Lines)
      BY <1>1, <3>1 DEF TypeOK
    <3>. QED
      BY <1>1, <3>1, <3>2, Types, AppendLine, BelowAppend DEF IInv, Sorted, Counted
  <2>2. CASE stream # "open"
    <3>1. queue' = queue
      BY <2>2 DEF Write
    <3>. QED
      BY <3>1, Types, AtMostMore DEF TypeOK, IInv, Sorted, Counted
  <2>. QED
    BY <2>1, <2>2
<1>5. TypeOK'
  <2>1. lines' \in 0..MaxLines /\ accepted' \in SUBSET Lines
    BY <1>1, <1>2 DEF TypeOK
  <2>. QED
    BY <1>2, <1>4, <2>1 DEF TypeOK, faultVars
<1>6. Counted'
  <2>1. AtMost(file, line) /\ AtMost(pending, line) /\ AtMost(tail, line)
    BY Types, AtMostMore DEF IInv, Counted
  <2>2. bytesWritten + Len(queue') + Len(pending) <= line
    BY <1>2, <1>4, Types DEF IInv, Counted
  <2>. QED
    BY <1>2, <1>3, <1>4, <2>1, <2>2 DEF Counted
<1>7. Sorted'
  BY <1>2, <1>4 DEF IInv, Sorted, Below
<1>8. Stopped' /\ Tails'
  BY <1>2 DEF IInv, Stopped, Tails, Write, OnFile, HasTail, Ending
<1>9. Due'
  BY <1>2 DEF IInv, Due, Write, Ending, faultVars
<1>10. Losses'
  <2>1. CASE stream = "open"
    <3>1. Elements(queue') = Elements(queue) \cup {line}
      BY <1>1, <2>1, Types, AppendLine DEF Write, IInv, Counted
    <3>2. Kept' = Kept \cup {line}
      BY <1>2, <3>1 DEF Kept
    <3>. QED
      BY <1>2, <3>2, NewestIsKept DEF faultVars, Accept
  <2>2. CASE stream # "open"
    BY <1>2, <2>2 DEF IInv, Due, Losses, faultVars
  <2>. QED
    BY <2>1, <2>2
<1>. QED
  BY <1>5, <1>6, <1>7, <1>8, <1>9, <1>10 DEF IInv

LEMMA WriteStep == TypeOK /\ IInv /\ WriteTimestampedLine /\ UNCHANGED process => TypeOK' /\ IInv'
<1> SUFFICES ASSUME TypeOK, IInv, WriteTimestampedLine, UNCHANGED process
             PROVE  TypeOK' /\ IInv'
  OBVIOUS
<1>. USE DEF WriteTimestampedLine
<1>1. CASE Refuse
  BY <1>1, RefusedStep DEF Refuse
<1>2. CASE Buffer(lines + 1)
  <2>1. CASE accepted' = accepted /\ pending' = pending
    BY <1>2, <2>1, RefusedStep DEF Buffer
  <2>2. CASE pending' = Append(pending, lines + 1) /\ Accept(lines + 1)
    BY <1>2, <2>2, BufferedStep DEF Buffer
  <2>. QED
    BY <1>2, <2>1, <2>2 DEF Buffer
<1>3. CASE Write(lines + 1)
  BY <1>3, WrittenStep
<1>. QED
  BY <1>1, <1>2, <1>3
-----------------------------------------------------------------------------
(* The stream *)

LEMMA FlushStep == TypeOK /\ IInv /\ Flush /\ UNCHANGED process => TypeOK' /\ IInv'
<1> SUFFICES ASSUME TypeOK, IInv, Flush, UNCHANGED process
             PROVE  TypeOK' /\ IInv'
  OBVIOUS
<1>1. /\ queue # <<>> /\ file' = Append(file, Head(queue)) /\ queue' = Tail(queue)
      /\ bytesWritten' = bytesWritten + 1 /\ stream \in {"open", "ending"}
      /\ UNCHANGED <<stream, trimming, tail, pending, closed, lines, accepted, broken, faults>>
  BY DEF Flush, lineVars, faultVars
<1>2. trimming \notin OnFile /\ tail = <<>>
  BY <1>1 DEF IInv, Stopped, Tails, OnFile, HasTail, TypeOK
<1>3. /\ Head(queue) \in Nat /\ Len(queue') = Len(queue) - 1
      /\ Ascending(file') /\ Ascending(queue') /\ Below(file', queue')
      /\ Elements(file') \cup Elements(queue') = Elements(file) \cup Elements(queue)
  BY <1>1, Types, MoveHead DEF IInv, Sorted
<1>4. \A i \in DOMAIN queue' : queue'[i] = queue[i + 1] /\ i + 1 \in DOMAIN queue
  BY <1>1, Types
<1>5. /\ DOMAIN file' = 1..(Len(file) + 1) /\ file'[Len(file) + 1] = queue[1] /\ 1 \in DOMAIN queue
      /\ DOMAIN file = 1..Len(file) /\ \A i \in 1..Len(file) : file'[i] = file[i]
  BY <1>1, Types
<1>6. /\ AtMost(file', lines) /\ AtMost(queue', lines)
      /\ Below(file', pending) /\ Below(queue', pending)
  <2>1. AtMost(queue', lines) /\ Below(queue', pending)
    BY <1>4 DEF IInv, Counted, Sorted, AtMost, Below
  <2>2. AtMost(file', lines)
    BY <1>5 DEF IInv, Counted, AtMost
  <2>3. Below(file', pending)
    BY <1>5 DEF IInv, Sorted, Below
  <2>. QED
    BY <2>1, <2>2, <2>3
<1>7. Counted'
  BY <1>1, <1>3, <1>6, Types DEF IInv, Counted
<1>8. TypeOK'
  <2>1. file' \in Seq(Lines) /\ queue' \in Seq(Lines)
    BY <1>1 DEF TypeOK
  <2>2. bytesWritten' \in 0..MaxLines
    BY <1>1, <1>3, <1>7, Types, OptionsOK DEF TypeOK, Counted
  <2>. QED
    BY <1>1, <2>1, <2>2 DEF TypeOK
<1>9. Sorted'
  BY <1>1, <1>2, <1>3, <1>6 DEF IInv, Sorted, Below
<1>10. Stopped' /\ Tails'
  BY <1>1, <1>2 DEF IInv, Stopped, Tails, OnFile, HasTail
<1>11. Due'
  BY <1>1, Types, OptionsOK DEF IInv, Due
<1>12. Losses'
  <2>1. Kept' = Kept
    BY <1>1, <1>3 DEF Kept
  <2>2. Len(file') = Len(file) + 1 /\ Len(file) \in Nat
    BY <1>1, Types
  <2>3. trimming # "write"
    BY <1>2 DEF OnFile
  <2>. QED
    BY <1>1, <2>1, <2>2, <2>3, OptionsOK DEF IInv, Losses
<1>. QED
  BY <1>7, <1>8, <1>9, <1>10, <1>11, <1>12 DEF IInv

\* What is in the file, the queue, the buffer and the tail only becomes less.
LEMMA NothingLeft ==
    /\ Ascending(<<>>) /\ Elements(<<>>) = {} /\ Len(<<>>) = 0
    /\ \A n : AtMost(<<>>, n)
    /\ \A s : Below(<<>>, s) /\ Below(s, <<>>)
    /\ \A S : <<>> \in Seq(S)
BY DEF Ascending, Elements, AtMost, Below

LEMMA FlushFailsStep == TypeOK /\ IInv /\ FlushFails /\ UNCHANGED process => TypeOK' /\ IInv'
<1> SUFFICES ASSUME TypeOK, IInv, FlushFails, UNCHANGED process
             PROVE  TypeOK' /\ IInv'
  OBVIOUS
<1>1. /\ queue' = <<>> /\ stream' = "destroyed" /\ broken' = TRUE /\ faults' \in 0..MaxFaults
      /\ stream \in {"open", "ending"}
      /\ UNCHANGED <<file, bytesWritten, trimming, tail, pending, closed, lines, accepted>>
  BY OptionsOK DEF FlushFails, Fault, lineVars, TypeOK
<1>2. TypeOK'
  BY <1>1, NothingLeft DEF TypeOK
<1>3. Counted'
  BY <1>1, NothingLeft, Types DEF IInv, Counted
<1>4. Sorted'
  BY <1>1, NothingLeft DEF IInv, Sorted
<1>5. Stopped' /\ Tails' /\ Due' /\ Losses'
  BY <1>1 DEF IInv, Stopped, Tails, Due, Losses, Recent
<1>. QED
  BY <1>2, <1>3, <1>4, <1>5 DEF IInv

-----------------------------------------------------------------------------
(* trim() *)

LEMMA ReadStep == TypeOK /\ IInv /\ Read /\ UNCHANGED process => TypeOK' /\ IInv'
<1> SUFFICES ASSUME TypeOK, IInv, Read, UNCHANGED process
             PROVE  TypeOK' /\ IInv'
  OBVIOUS
<1>1. /\ trimming = "read" /\ trimming' = "truncate" /\ tail' = Recent(file)
      /\ UNCHANGED <<file, stream, queue, bytesWritten, pending, closed, lines, accepted, broken, faults>>
  BY DEF Read, Goto, streamVars, lineVars, faultVars
<1>2. /\ Len(file) > trimToBytes /\ queue = <<>> /\ tail = <<>>
  BY <1>1 DEF IInv, Stopped, Tails, OnFile, HasTail
<1>. DEFINE k == Len(file) - trimToBytes + 1
<1>3. /\ tail' \in Seq(Nat) /\ Len(tail') = trimToBytes - 1 /\ k \in Nat
      /\ \A i \in DOMAIN tail' : i + k \in DOMAIN file /\ tail'[i] = file[i + k]
  BY <1>1, <1>2, Types, RecentLines, OptionsOK
<1>. HIDE DEF k
<1>4. DOMAIN tail' = 1..Len(tail') /\ Len(tail') \in Nat /\ DOMAIN file = 1..Len(file)
  BY <1>3, Types
<1>5. Ascending(tail')
  <2> SUFFICES ASSUME NEW i \in DOMAIN tail', NEW j \in DOMAIN tail', i < j
               PROVE  tail'[i] < tail'[j]
    BY DEF Ascending
  <2>1. i + k < j + k
    BY <1>3, <1>4
  <2>. QED
    BY <1>3, <2>1 DEF IInv, Sorted, Ascending
<1>6. AtMost(tail', lines) /\ Below(tail', queue) /\ Below(tail', pending)
  BY <1>3 DEF IInv, Counted, Sorted, AtMost, Below
<1>7. tail' \in Seq(Lines)
  <2>1. \A i \in 1..Len(tail') : tail'[i] \in Lines
    <3> SUFFICES ASSUME NEW i \in 1..Len(tail')
                 PROVE  tail'[i] \in Lines
      OBVIOUS
    <3>1. i + k \in DOMAIN file /\ tail'[i] = file[i + k]
      BY <1>3, <1>4
    <3>. QED
      BY <1>4, <3>1 DEF TypeOK
  <2>. QED
    BY <1>3, <1>4, <2>1
<1>8. TypeOK'
  BY <1>1, <1>7 DEF TypeOK
<1>9. Counted' /\ Sorted'
  BY <1>1, <1>5, <1>6 DEF IInv, Counted, Sorted
<1>10. Stopped' /\ Tails' /\ Due'
  BY <1>1, <1>2, <1>3 DEF IInv, Stopped, Tails, Due, OnFile, HasTail, Recent
<1>11. Losses'
  <2>1. Elements(tail') \subseteq Elements(file)
    BY <1>3 DEF Elements
  <2>2. Kept' = Kept
    BY <1>1, <1>2, <2>1, NothingLeft DEF Kept
  <2>. QED
    BY <1>1, <2>2 DEF IInv, Losses
<1>. QED
  BY <1>8, <1>9, <1>10, <1>11 DEF IInv
LEMMA TruncateStep == TypeOK /\ IInv /\ Truncate /\ UNCHANGED process => TypeOK' /\ IInv'
<1> SUFFICES ASSUME TypeOK, IInv, Truncate, UNCHANGED process
             PROVE  TypeOK' /\ IInv'
  OBVIOUS
<1>1. /\ trimming = "truncate" /\ trimming' = "write" /\ file' = <<>>
      /\ UNCHANGED <<stream, queue, bytesWritten, tail, pending, closed, lines, accepted, broken, faults>>
  BY DEF Truncate, Goto, streamVars, lineVars, faultVars
<1>2. /\ Len(file) > trimToBytes /\ queue = <<>> /\ tail = Recent(file) /\ Len(tail) = trimToBytes - 1
  BY <1>1 DEF IInv, Stopped, Tails, OnFile, HasTail
<1>3. TypeOK'
  BY <1>1, NothingLeft DEF TypeOK
<1>4. Counted' /\ Sorted'
  BY <1>1, NothingLeft DEF IInv, Counted, Sorted
<1>5. Stopped' /\ Tails' /\ Due'
  BY <1>1, <1>2 DEF IInv, Stopped, Tails, Due, OnFile, HasTail
<1>6. Losses'
  <2> SUFFICES ASSUME ~broken, NEW l \in accepted, l \notin Kept'
               PROVE  /\ \A k \in Kept' : l < k
                      /\ Len(tail) >= trimToBytes - 1
    BY <1>1 DEF Losses
  <2>1. /\ \A i \in DOMAIN tail : i + (Len(file) - trimToBytes + 1) \in DOMAIN file
                                /\ tail[i] = file[i + (Len(file) - trimToBytes + 1)]
        /\ \A m \in Elements(file) \ Elements(tail) :
               \E i \in DOMAIN file : m = file[i] /\ i <= Len(file) - trimToBytes + 1
    BY <1>2, Types, RecentLines
  <2>2. Kept' = Elements(tail) \cup Elements(pending) /\ Kept = Elements(file) \cup Elements(tail) \cup Elements(pending)
    BY <1>1, <1>2, NothingLeft DEF Kept
  <2>3. CASE l \notin Kept
    BY <1>2, <2>2, <2>3 DEF IInv, Losses
  <2>4. CASE l \in Kept
    <3>1. l \in Elements(file) \ Elements(tail)
      BY <2>2, <2>4
    <3>2. PICK i \in DOMAIN file : l = file[i] /\ i <= Len(file) - trimToBytes + 1
      BY <2>1, <3>1
    <3>3. \A k \in Elements(tail) : l < k
      <4> SUFFICES ASSUME NEW j \in DOMAIN tail
                   PROVE  l < tail[j]
        BY DEF Elements
      <4>1. i < j + (Len(file) - trimToBytes + 1)
        BY <3>2, Types, OptionsOK
      <4>. QED
        BY <2>1, <3>2, <4>1 DEF IInv, Sorted, Ascending
    <3>4. \A k \in Elements(pending) : l < k
      BY <3>2 DEF IInv, Sorted, Below, Elements
    <3>. QED
      BY <1>2, <2>2, <3>3, <3>4, OptionsOK
  <2>. QED
    BY <2>3, <2>4
<1>. QED
  BY <1>3, <1>4, <1>5, <1>6 DEF IInv

LEMMA WriteTailStep == TypeOK /\ IInv /\ WriteTail /\ UNCHANGED process => TypeOK' /\ IInv'
<1> SUFFICES ASSUME TypeOK, IInv, WriteTail, UNCHANGED process
             PROVE  TypeOK' /\ IInv'
  OBVIOUS
<1>1. /\ trimming = "write" /\ trimming' = "close" /\ file' = tail
      /\ UNCHANGED <<stream, queue, bytesWritten, tail, pending, closed, lines, accepted, broken, faults>>
  BY DEF WriteTail, Goto, streamVars, lineVars, faultVars
<1>2. file = <<>> /\ Len(tail) = trimToBytes - 1
  BY <1>1 DEF IInv, Tails, HasTail
<1>3. TypeOK'
  BY <1>1 DEF TypeOK
<1>4. Counted' /\ Sorted'
  BY <1>1 DEF IInv, Counted, Sorted
<1>5. Stopped' /\ Tails' /\ Due'
  BY <1>1, <1>2 DEF IInv, Stopped, Tails, Due, OnFile, HasTail
<1>6. Losses'
  <2>1. Kept' = Kept
    BY <1>1, <1>2, NothingLeft DEF Kept
  <2>. QED
    BY <1>1, <2>1 DEF IInv, Losses
<1>. QED
  BY <1>3, <1>4, <1>5, <1>6 DEF IInv

\* The stream is opened again, and takes what was buffered.
LEMMA ReopenStep ==
    ASSUME TypeOK, IInv, Reopen, trimming \in {"stat", "close"}, broken => broken', UNCHANGED process,
           broken' \in BOOLEAN, faults' \in 0..MaxFaults
    PROVE  TypeOK' /\ IInv'
<1>1. /\ stream' = "open" /\ bytesWritten' = 0 /\ queue' = pending /\ pending' = <<>> /\ tail' = <<>>
      /\ trimming' = "none" /\ UNCHANGED <<file, closed, lines, accepted>>
  BY DEF Reopen, Drained, lineVars
<1>2. queue = <<>> /\ (tail = <<>> \/ tail = file)
  BY DEF IInv, Stopped, Tails, OnFile, HasTail
<1>3. TypeOK'
  BY <1>1, OptionsOK, NothingLeft DEF TypeOK
<1>4. Counted'
  BY <1>1, <1>2, Types, NothingLeft DEF IInv, Counted
<1>5. Sorted'
  BY <1>1, NothingLeft DEF IInv, Sorted
<1>6. Stopped' /\ Tails' /\ Due'
  BY <1>1, NothingLeft DEF IInv, Stopped, Tails, Due, OnFile, HasTail
<1>7. Losses'
  <2>1. Kept' = Kept
    BY <1>1, <1>2, NothingLeft DEF Kept
  <2>. QED
    BY <1>1, <2>1 DEF IInv, Losses
<1>. QED
  BY <1>3, <1>4, <1>5, <1>6, <1>7 DEF IInv

LEMMA TrimFailsStep == TypeOK /\ IInv /\ TrimFails /\ UNCHANGED process => TypeOK' /\ IInv'
<1> SUFFICES ASSUME TypeOK, IInv, TrimFails, UNCHANGED process
             PROVE  TypeOK' /\ IInv'
  OBVIOUS
<1>1. /\ trimming # "none" /\ pending' = <<>> /\ tail' = <<>> /\ trimming' = "none" /\ bytesWritten' = bytesWritten
      /\ broken' = TRUE /\ faults' \in 0..MaxFaults
      /\ UNCHANGED <<file, stream, queue, closed, lines, accepted>>
  BY OptionsOK DEF TrimFails, Fault, CountAfterFailure, lineVars, TypeOK
<1>2. TypeOK'
  BY <1>1, NothingLeft DEF TypeOK
<1>3. Counted'
  BY <1>1, NothingLeft, Types DEF IInv, Counted
<1>4. Sorted'
  BY <1>1, NothingLeft DEF IInv, Sorted
<1>5. Stopped' /\ Tails' /\ Due' /\ Losses'
  BY <1>1 DEF IInv, Stopped, Tails, Due, Losses, OnFile, HasTail
<1>. QED
  BY <1>2, <1>3, <1>4, <1>5 DEF IInv

-----------------------------------------------------------------------------

LEMMA InitInvariant == Init => TypeOK /\ IInv
<1> SUFFICES ASSUME Init
             PROVE  TypeOK /\ IInv
  OBVIOUS
<1>1. TypeOK
  <2>1. /\ file \in Seq(Lines) /\ queue \in Seq(Lines) /\ tail \in Seq(Lines) /\ pending \in Seq(Lines)
    BY NothingLeft DEF Init
  <2>2. 0 \in 0..MaxLines /\ 0 \in 0..MaxFaults
    BY OptionsOK
  <2>3. bytesWritten \in 0..MaxLines /\ lines \in 0..MaxLines /\ faults \in 0..MaxFaults
    BY <2>2 DEF Init
  <2>4. /\ stream \in {"open", "ending", "ended", "destroyed"}
        /\ trimming \in {"none", "ending", "stat", "open", "read", "truncate", "write", "close"}
        /\ closed \in BOOLEAN /\ process \in {"running", "exited"}
        /\ accepted \in SUBSET Lines /\ broken \in BOOLEAN
    BY DEF Init
  <2>. QED
    BY <2>1, <2>3, <2>4 DEF TypeOK
<1>2. Counted /\ Sorted
  BY OptionsOK, NothingLeft DEF Init, Counted, Sorted
<1>3. Stopped /\ Tails /\ Due /\ Losses
  BY DEF Init, Stopped, Tails, Due, Losses, OnFile, HasTail
<1>. QED
  BY <1>1, <1>2, <1>3 DEF IInv

LEMMA InvariantStep == TypeOK /\ IInv /\ [Next]_vars => TypeOK' /\ IInv'
<1> SUFFICES ASSUME TypeOK, IInv, [Next]_vars
             PROVE  TypeOK' /\ IInv'
  OBVIOUS
<1>1. CASE Quiet
  BY <1>1, QuietStep
<1>2. CASE UNCHANGED process /\ (WriteTimestampedLine \/ Flush \/ FlushFails)
  BY <1>2, WriteStep, FlushStep, FlushFailsStep
<1>3. CASE UNCHANGED process /\ (Read \/ Truncate \/ WriteTail \/ TrimFails)
  BY <1>3, ReadStep, TruncateStep, WriteTailStep, TrimFailsStep
<1>4. CASE UNCHANGED process /\ (TrimCompletes \/ StatFails)
  <2>1. Reopen /\ trimming \in {"stat", "close"}
    BY <1>4 DEF TrimCompletes, StatFails
  <2>2. CASE TrimCompletes
    <3>1. broken' = broken /\ faults' = faults
      BY <2>2 DEF TrimCompletes, faultVars
    <3>. QED
      BY <1>4, <2>1, <3>1, ReopenStep DEF TypeOK
  <2>3. CASE StatFails
    <3>1. broken' = TRUE /\ faults < MaxFaults /\ faults' = faults + 1
      BY <2>3 DEF StatFails, Fault
    <3>2. faults' \in 0..MaxFaults
      BY <3>1, OptionsOK DEF TypeOK
    <3>. QED
      BY <1>4, <2>1, <3>1, <3>2, ReopenStep
  <2>. QED
    BY <1>4, <2>2, <2>3
<1>. QED
  BY <1>1, <1>2, <1>3, <1>4 DEF Next, Loop, Trim, Quiet

\* TypeOK: every value the logger's variables take, the counter of bytes included.
THEOREM TypeCorrect == Spec => []TypeOK
BY InitInvariant, InvariantStep, PTL DEF Spec

\* IInv holds in every reachable state.
THEOREM Invariant == Spec => [](TypeOK /\ IInv)
BY InitInvariant, InvariantStep, PTL DEF Spec

\* InOrder: whatever is buffered, trimmed or lost, the lines are in the file, the stream and the buffer
\* once and in the order in which the daemon wrote them.
THEOREM LinesAreInOrder == Spec => []InOrder
<1>1. TypeOK /\ IInv => InOrder
  <2> SUFFICES ASSUME TypeOK, IInv
               PROVE  InOrder
    OBVIOUS
  <2>1. \A s, t \in Seq(Nat) : Ascending(s) /\ Ascending(t) /\ Below(s, t) => Ascending(s \o t)
    <3> SUFFICES ASSUME NEW s \in Seq(Nat), NEW t \in Seq(Nat), Ascending(s), Ascending(t), Below(s, t),
                        NEW i \in DOMAIN (s \o t), NEW j \in DOMAIN (s \o t), i < j
                 PROVE  (s \o t)[i] < (s \o t)[j]
      BY DEF Ascending
    <3>1. /\ DOMAIN (s \o t) = 1..(Len(s) + Len(t)) /\ Len(s) \in Nat /\ Len(t) \in Nat
          /\ DOMAIN s = 1..Len(s) /\ DOMAIN t = 1..Len(t)
          /\ \A m \in 1..(Len(s) + Len(t)) : (s \o t)[m] = IF m <= Len(s) THEN s[m] ELSE t[m - Len(s)]
      OBVIOUS
    <3>2. CASE j <= Len(s)
      BY <3>1, <3>2 DEF Ascending
    <3>3. CASE i <= Len(s) /\ ~(j <= Len(s))
      BY <3>1, <3>3 DEF Below
    <3>4. CASE ~(i <= Len(s))
      <4>1. i - Len(s) \in DOMAIN t /\ j - Len(s) \in DOMAIN t /\ i - Len(s) < j - Len(s)
        BY <3>1, <3>4
      <4>. QED
        BY <3>1, <3>4, <4>1 DEF Ascending
    <3>. QED
      BY <3>1, <3>2, <3>3, <3>4
  <2>2. file \o queue \in Seq(Nat) /\ Ascending(file \o queue)
    BY <2>1, Types DEF IInv, Sorted
  <2>3. Below(file \o queue, pending)
    <3> SUFFICES ASSUME NEW i \in DOMAIN (file \o queue), NEW j \in DOMAIN pending
                 PROVE  (file \o queue)[i] < pending[j]
      BY DEF Below
    <3>1. /\ DOMAIN (file \o queue) = 1..(Len(file) + Len(queue))
          /\ DOMAIN file = 1..Len(file) /\ DOMAIN queue = 1..Len(queue)
          /\ (file \o queue)[i] = IF i <= Len(file) THEN file[i] ELSE queue[i - Len(file)]
      BY Types
    <3>2. CASE i <= Len(file)
      BY <3>1, <3>2 DEF IInv, Sorted, Below
    <3>3. CASE ~(i <= Len(file))
      <4>1. i - Len(file) \in DOMAIN queue
        BY <3>1, <3>3, Types
      <4>. QED
        BY <3>1, <3>3, <4>1 DEF IInv, Sorted, Below
    <3>. QED
      BY <3>2, <3>3
  <2>. QED
    BY <2>1, <2>2, <2>3, Types DEF IInv, Sorted, InOrder
<1>. QED
  BY Invariant, <1>1, PTL

\* FailedTrimIsRetried: while a stream that has ended is not opened again, the counter that starts the
\* next trim is over its limit, so the next line tries it again.
THEOREM TrimIsTriedAgain == Spec => []FailedTrimIsRetried
<1>1. IInv => FailedTrimIsRetried
  BY DEF IInv, Due, FailedTrimIsRetried
<1>. QED
  BY Invariant, <1>1, PTL

\* RecentAreKept: while no call fails, an accepted line is lost only if it is older than all that are
\* kept, and trimToBytes of newer ones are, whatever is written during the trim.
THEOREM NewestSurvive == Spec => []RecentAreKept
<1>1. TypeOK /\ IInv => RecentAreKept
  <2> SUFFICES ASSUME TypeOK, IInv, ~broken, NEW l \in accepted \ Kept
               PROVE  /\ \A k \in Kept : l < k
                      /\ Len(file) + Len(tail) + Len(queue) + Len(pending) >= trimToBytes - 1
    BY DEF RecentAreKept
  <2>1. Len(file) \in Nat /\ Len(tail) \in Nat /\ Len(queue) \in Nat /\ Len(pending) \in Nat
    BY Types
  <2>2. (\A k \in Kept : l < k) /\ (Len(file) >= trimToBytes - 1 \/ Len(tail) >= trimToBytes - 1)
    BY DEF IInv, Losses
  <2>. QED
    BY <2>1, <2>2, OptionsOK
<1>. QED
  BY Invariant, <1>1, PTL
=============================================================================

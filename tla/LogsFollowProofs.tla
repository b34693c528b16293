-------------------------- MODULE LogsFollowProofs --------------------------
(***************************************************************************)
(* logs --follow for any number of daemons, any sizes of files and reads,  *)
(* and any trims: TypeOK and OnceInOrder.                                  *)
(*                                                                         *)
(* IInv adds the position of a piece in what was ever appended to its      *)
(* file: a trim takes as much off the offset as it takes off the file, or  *)
(* less, so what is read next lies behind all that was read (Following).   *)
(***************************************************************************)
EXTENDS LogsFollow, FiniteSetTheorems, SequenceTheorems, TLAPS

\* p was appended before q to the same file.
Before(p, q) == p[1] = q[1] /\ p[2] < q[2]

InSequence(s) == \A i, j \in DOMAIN s : i < j => Before(s[i], s[j])
Below(s, t) == \A i \in DOMAIN s, j \in DOMAIN t : Before(s[i], t[j])

\* s holds only pieces of file f, up to the n-th.
UpTo(s, f, n) == \A i \in DOMAIN s : s[i][1] = f /\ s[i][2] <= n

\* A file holds what was appended and not trimmed.
Sizes == \A f \in Files : trimmed[f] <= size[f] /\ size[f] <= MaxSize[f]

\* What is followed exists, and every switch went to a newer file.
Switching ==
    /\ currentLogFile <= files
    /\ currentLogFile = 0 => switches = 0 /\ check = "idle" /\ poll = Idle /\ pendingBuffer = <<>> /\ out = <<>>
    /\ currentLogFile # 0 => switches < currentLogFile

\* The last piece that was read, counted from the beginning of the file.
ReadUpTo == trimmed[currentLogFile] + position

\* What was read of the only file followed lies in order, before what is read next.
Following ==
    switches = 0 /\ currentLogFile # 0 =>
        /\ check \in {"idle", "listing"}
        /\ InSequence(out) /\ InSequence(pendingBuffer) /\ Below(out, pendingBuffer)
        /\ UpTo(out, currentLogFile, ReadUpTo) /\ UpTo(pendingBuffer, currentLogFile, ReadUpTo)

\* So does what the read in progress has got.
Reading ==
    switches = 0 /\ poll.on =>
        /\ poll.file = currentLogFile /\ poll.from = position
        /\ InSequence(poll.chunk) /\ Below(out, poll.chunk) /\ Below(pendingBuffer, poll.chunk)
        /\ UpTo(poll.chunk, currentLogFile, ReadUpTo)

IInv == Sizes /\ Switching /\ Following /\ Reading

-----------------------------------------------------------------------------
(* Sequences of pieces *)

\* The first and the last of a set of positions exist.
LEMMA Smallest ==
    ASSUME NEW T, T \subseteq Nat, T # {}
    PROVE  \E x \in T : \A y \in T : x <= y
<1>. DEFINE Upto == {0..x : x \in T}
<1>1. Upto \subseteq FiniteSubsetsOf(Nat) /\ Upto # {}
  <2>1. \A x \in T : 0..x \in SUBSET Nat /\ IsFiniteSet(0..x)
    BY FS_Interval
  <2>. QED
    BY <2>1 DEF FiniteSubsetsOf
<1>2. \E U \in Upto : \A V \in Upto : <<V, U>> \notin StrictSubsetOrdering(Nat)
  <2>. HIDE DEF Upto
  <2>. QED
    BY <1>1, FS_StrictSubsetOrderingWellFounded, WFMin
<1>3. PICK x \in T : \A y \in T : <<0..y, 0..x>> \notin StrictSubsetOrdering(Nat)
  BY <1>2
<1>4. ASSUME NEW y \in T, ~(x <= y)
      PROVE  FALSE
  <2>1. 0..y \subseteq 0..x /\ x \in 0..x /\ x \notin 0..y
    BY <1>4
  <2>2. 0..y # 0..x /\ 0..y \in SUBSET Nat /\ 0..x \in SUBSET Nat
    BY <2>1
  <2>. QED
    BY <1>3, <2>1, <2>2 DEF StrictSubsetOrdering
<1>. QED
  BY <1>3, <1>4

LEMMA Greatest ==
    ASSUME NEW n \in Nat, NEW T, T \subseteq 1..n, T # {}
    PROVE  \E x \in T : \A y \in T : y <= x
<1>. DEFINE D == {n - x : x \in T}
<1>1. D \subseteq Nat /\ D # {}
  OBVIOUS
<1>2. \E d \in D : \A e \in D : d <= e
  <2>. HIDE DEF D
  <2>. QED
    BY <1>1, Smallest
<1>3. PICK x \in T : \A y \in T : n - x <= n - y
  BY <1>2
<1>. QED
  BY <1>3

LEMMA PieceIsPair == \A p \in Piece : p[2] \in Nat
<1>1. \A f \in Files : MaxSize[f] \in Nat
  BY ParametersOK DEF Files
<1>. QED
  BY <1>1 DEF Piece

\* Pieces from the m-th to the n-th.
LEMMA Part ==
    ASSUME NEW s \in Seq(Piece), NEW m \in Nat, NEW n \in Nat, 1 <= m, m <= n + 1, n <= Len(s)
    PROVE  /\ SubSeq(s, m, n) \in Seq(Piece) /\ DOMAIN SubSeq(s, m, n) = 1..(n - m + 1)
           /\ \A i \in DOMAIN SubSeq(s, m, n) : m + i - 1 \in m..n /\ m + i - 1 \in DOMAIN s
                                                /\ SubSeq(s, m, n)[i] = s[m + i - 1]
<1>. DEFINE r == SubSeq(s, m, n)
<1>1. DOMAIN s = 1..Len(s) /\ Len(s) \in Nat /\ \A i \in m..n : s[i] \in Piece
  BY LenProperties, ElementOfSeq
<1>2. /\ r \in Seq(Piece) /\ Len(r) = IF m <= n THEN n - m + 1 ELSE 0
      /\ \A i \in 1..(n - m + 1) : r[i] = s[m + i - 1]
  BY <1>1, SubSeqProperties
<1>. HIDE DEF r
<1>3. Len(r) = n - m + 1
  BY <1>2
<1>4. DOMAIN r = 1..(n - m + 1)
  BY <1>2, <1>3, LenProperties
<1>5. \A i \in 1..(n - m + 1) : m + i - 1 \in m..n /\ m + i - 1 \in 1..Len(s)
  BY <1>1
<1>. QED
  BY <1>1, <1>2, <1>4, <1>5 DEF r

\* What a concatenation consists of.
LEMMA Both ==
    ASSUME NEW s \in Seq(Piece), NEW t \in Seq(Piece)
    PROVE  /\ s \o t \in Seq(Piece)
           /\ \A i \in DOMAIN (s \o t) :
                 \/ i \in DOMAIN s /\ (s \o t)[i] = s[i]
                 \/ i \notin DOMAIN s /\ i - Len(s) \in DOMAIN t /\ (s \o t)[i] = t[i - Len(s)]
<1>. DEFINE u == s \o t
<1>1. /\ u \in Seq(Piece) /\ Len(u) = Len(s) + Len(t)
      /\ \A i \in 1..(Len(s) + Len(t)) : u[i] = IF i <= Len(s) THEN s[i] ELSE t[i - Len(s)]
  BY ConcatProperties
<1>. HIDE DEF u
<1>2. /\ DOMAIN u = 1..(Len(s) + Len(t)) /\ DOMAIN s = 1..Len(s) /\ DOMAIN t = 1..Len(t)
      /\ Len(s) \in Nat /\ Len(t) \in Nat
  BY <1>1, LenProperties
<1>3. ASSUME NEW i \in DOMAIN u
      PROVE  \/ i \in DOMAIN s /\ u[i] = s[i]
             \/ i \notin DOMAIN s /\ i - Len(s) \in DOMAIN t /\ u[i] = t[i - Len(s)]
  BY <1>1, <1>2
<1>. QED
  BY <1>1, <1>3 DEF u

\* Two sequences of pieces, one before the other.
LEMMA Joined ==
    ASSUME NEW s \in Seq(Piece), NEW t \in Seq(Piece), InSequence(s), InSequence(t), Below(s, t)
    PROVE  InSequence(s \o t)
<1>. DEFINE u == s \o t
<1>1. \A i \in DOMAIN u : \/ i \in DOMAIN s /\ u[i] = s[i]
                          \/ i \notin DOMAIN s /\ i - Len(s) \in DOMAIN t /\ u[i] = t[i - Len(s)]
  BY Both
<1>2. u \in Seq(Piece) /\ DOMAIN u = 1..Len(u) /\ DOMAIN s = 1..Len(s) /\ Len(s) \in Nat /\ Len(u) \in Nat
  BY Both, LenProperties
<1>. HIDE DEF u
<1>3. ASSUME NEW i \in DOMAIN u, NEW j \in DOMAIN u, i < j
      PROVE  Before(u[i], u[j])
  <2>1. CASE j \in DOMAIN s
    <3>1. i \in DOMAIN s /\ u[i] = s[i] /\ u[j] = s[j]
      BY <1>1, <1>2, <1>3, <2>1
    <3>. QED
      BY <1>3, <2>1, <3>1 DEF InSequence
  <2>2. CASE j \notin DOMAIN s /\ i \in DOMAIN s
    BY <1>1, <2>2 DEF Below
  <2>3. CASE j \notin DOMAIN s /\ i \notin DOMAIN s
    <3>1. /\ i - Len(s) \in DOMAIN t /\ u[i] = t[i - Len(s)]
          /\ j - Len(s) \in DOMAIN t /\ u[j] = t[j - Len(s)]
      BY <1>1, <2>3
    <3>2. i - Len(s) < j - Len(s)
      BY <1>2, <1>3
    <3>. QED
      BY <3>1, <3>2 DEF InSequence
  <2>. QED
    BY <2>1, <2>2, <2>3
<1>. QED
  BY <1>3 DEF InSequence, u

LEMMA JoinedBelow ==
    ASSUME NEW s \in Seq(Piece), NEW t \in Seq(Piece), NEW v
    PROVE  /\ Below(s, v) /\ Below(t, v) => Below(s \o t, v)
           /\ Below(v, s) /\ Below(v, t) => Below(v, s \o t)
           /\ \A f, n : UpTo(s, f, n) /\ UpTo(t, f, n) => UpTo(s \o t, f, n)
<1>. DEFINE u == s \o t
<1>1. \A i \in DOMAIN u : \/ i \in DOMAIN s /\ u[i] = s[i]
                          \/ i \notin DOMAIN s /\ i - Len(s) \in DOMAIN t /\ u[i] = t[i - Len(s)]
  BY Both
<1>. HIDE DEF u
<1>2. Below(s, v) /\ Below(t, v) => Below(u, v)
  BY <1>1 DEF Below
<1>3. Below(v, s) /\ Below(v, t) => Below(v, u)
  BY <1>1 DEF Below
<1>4. \A f, n : UpTo(s, f, n) /\ UpTo(t, f, n) => UpTo(u, f, n)
  BY <1>1 DEF UpTo
<1>. QED
  BY <1>2, <1>3, <1>4 DEF u

\* A part of what is in order is in order, and two parts are as the whole is.
LEMMA PartInSequence ==
    ASSUME NEW s \in Seq(Piece), NEW m \in Nat, NEW n \in Nat, 1 <= m, m <= n + 1, n <= Len(s), InSequence(s)
    PROVE  InSequence(SubSeq(s, m, n))
<1>. DEFINE r == SubSeq(s, m, n)
<1>1. /\ \A i \in DOMAIN r : m + i - 1 \in DOMAIN s /\ r[i] = s[m + i - 1]
      /\ DOMAIN r = 1..(n - m + 1)
  BY Part
<1>. HIDE DEF r
<1>2. ASSUME NEW i \in DOMAIN r, NEW j \in DOMAIN r, i < j
      PROVE  Before(r[i], r[j])
  <2>1. m + i - 1 < m + j - 1
    BY <1>1, <1>2
  <2>. QED
    BY <1>1, <2>1 DEF InSequence
<1>. QED
  BY <1>2 DEF InSequence, r

LEMMA PartBelow ==
    ASSUME NEW s \in Seq(Piece), NEW m \in Nat, NEW n \in Nat, 1 <= m, m <= n + 1, n <= Len(s), NEW v
    PROVE  /\ Below(v, s) => Below(v, SubSeq(s, m, n))
           /\ Below(s, v) => Below(SubSeq(s, m, n), v)
           /\ \A f, k : UpTo(s, f, k) => UpTo(SubSeq(s, m, n), f, k)
<1>. DEFINE r == SubSeq(s, m, n)
<1>1. \A i \in DOMAIN r : m + i - 1 \in DOMAIN s /\ r[i] = s[m + i - 1]
  BY Part
<1>. HIDE DEF r
<1>2. Below(v, s) => Below(v, r)
  BY <1>1 DEF Below
<1>3. Below(s, v) => Below(r, v)
  BY <1>1 DEF Below
<1>4. \A f, k : UpTo(s, f, k) => UpTo(r, f, k)
  BY <1>1 DEF UpTo
<1>. QED
  BY <1>2, <1>3, <1>4 DEF r

\* What comes first is before the rest.
LEMMA PartsBelow ==
    ASSUME NEW s \in Seq(Piece), NEW n \in 0..Len(s), InSequence(s)
    PROVE  Below(SubSeq(s, 1, n), SubSeq(s, n + 1, Len(s)))
<1>1. Len(s) \in Nat
  BY LenProperties
<1>. DEFINE a == SubSeq(s, 1, n)
            b == SubSeq(s, n + 1, Len(s))
<1>2. \A i \in DOMAIN a : 1 + i - 1 \in 1..n /\ 1 + i - 1 \in DOMAIN s /\ a[i] = s[1 + i - 1]
  BY <1>1, Part
<1>3. \A i \in DOMAIN b : (n + 1) + i - 1 \in (n + 1)..Len(s) /\ (n + 1) + i - 1 \in DOMAIN s
                          /\ b[i] = s[(n + 1) + i - 1]
  BY <1>1, Part
<1>. HIDE DEF a, b
<1>4. ASSUME NEW i \in DOMAIN a, NEW j \in DOMAIN b
      PROVE  Before(a[i], b[j])
  <2>1. 1 + i - 1 < (n + 1) + j - 1
    BY <1>1, <1>2, <1>3
  <2>. QED
    BY <1>2, <1>3, <2>1 DEF InSequence
<1>. QED
  BY <1>4 DEF Below, a, b

\* What is read next lies behind what was read.
LEMMA ReadIsBehind ==
    ASSUME NEW s \in Seq(Piece), NEW t, NEW f, NEW n \in Nat, UpTo(s, f, n),
           \A j \in DOMAIN t : t[j][1] = f /\ t[j][2] \in Nat /\ n < t[j][2]
    PROVE  Below(s, t)
<1>1. ASSUME NEW i \in DOMAIN s, NEW j \in DOMAIN t
      PROVE  Before(s[i], t[j])
  <2>1. s[i] \in Piece
    BY LenProperties, ElementOfSeq
  <2>2. s[i][2] \in Nat /\ s[i][1] = f /\ s[i][2] <= n
    BY <2>1, PieceIsPair DEF UpTo
  <2>. QED
    BY <2>2 DEF Before
<1>. QED
  BY <1>1 DEF Below

LEMMA UpToMore ==
    ASSUME NEW s \in Seq(Piece), NEW f, NEW n \in Nat, NEW m \in Nat, n <= m, UpTo(s, f, n)
    PROVE  UpTo(s, f, m)
<1>1. ASSUME NEW i \in DOMAIN s
      PROVE  s[i][1] = f /\ s[i][2] <= m
  <2>1. s[i] \in Piece
    BY LenProperties, ElementOfSeq
  <2>2. s[i][2] \in Nat /\ s[i][1] = f /\ s[i][2] <= n
    BY <2>1, PieceIsPair DEF UpTo
  <2>. QED
    BY <2>2
<1>. QED
  BY <1>1 DEF UpTo

-----------------------------------------------------------------------------
(* What the command computes *)

\* A filter drops the beginning of a text.
LEMMA ShownIsEnd ==
    ASSUME NEW text \in Seq(Piece)
    PROVE  \E m \in Nat : 1 <= m /\ m <= Len(text) + 1 /\ Shown(text) = SubSeq(text, m, Len(text))
<1>. DEFINE starts == {i \in DOMAIN text : HasTimestamp(text[i])}
<1>1. DOMAIN text = 1..Len(text) /\ Len(text) \in Nat
  BY LenProperties
<1>2. CASE ~filtered
  <2>1. text = SubSeq(text, 1, Len(text))
    BY SubSeqFull
  <2>. QED
    BY <1>1, <1>2, <2>1 DEF Shown
<1>3. CASE filtered /\ starts = {}
  <2>1. SubSeq(text, Len(text) + 1, Len(text)) = <<>>
    BY <1>1, SubSeqEmpty
  <2>2. Shown(text) = <<>>
    BY <1>3 DEF Shown
  <2>. QED
    BY <1>1, <2>1, <2>2
<1>4. CASE filtered /\ starts # {}
  <2>1. starts \subseteq Nat
    BY <1>1
  <2>. DEFINE first == CHOOSE i \in starts : \A j \in starts : i <= j
  <2>2. first \in starts
    <3>. HIDE DEF starts
    <3>. QED
      BY <1>4, <2>1, Smallest
  <2>3. Shown(text) = SubSeq(text, first, Len(text))
    BY <1>4 DEF Shown
  <2>4. first \in 1..Len(text)
    BY <1>1, <2>2
  <2>. HIDE DEF first
  <2>. QED
    BY <1>1, <2>3, <2>4
<1>. QED
  BY <1>2, <1>3, <1>4

LEMMA CompleteIsPart ==
    ASSUME NEW text \in Seq(Piece)
    PROVE  CompleteLength(text) \in 0..Len(text)
<1>. DEFINE ends == {i \in DOMAIN text : EndsLine(text[i])}
<1>1. DOMAIN text = 1..Len(text) /\ Len(text) \in Nat
  BY LenProperties
<1>2. CASE ends = {}
  BY <1>1, <1>2 DEF CompleteLength
<1>3. CASE ends # {}
  <2>. DEFINE last == CHOOSE i \in ends : \A j \in ends : j <= i
  <2>1. ends \subseteq 1..Len(text)
    BY <1>1
  <2>2. last \in ends
    <3>. HIDE DEF ends
    <3>. QED
      BY <1>1, <1>3, <2>1, Greatest
  <2>3. CompleteLength(text) = last
    BY <1>3 DEF CompleteLength
  <2>. QED
    BY <1>1, <2>1, <2>2, <2>3
<1>. QED
  BY <1>2, <1>3

\* What is shown of a text in order is in order, and behind all that the text is behind.
LEMMA ShownInSequence ==
    ASSUME NEW text \in Seq(Piece)
    PROVE  /\ Shown(text) \in Seq(Piece)
           /\ InSequence(text) => InSequence(Shown(text))
           /\ \A v : (Below(v, text) => Below(v, Shown(text))) /\ (Below(text, v) => Below(Shown(text), v))
           /\ \A f, k : UpTo(text, f, k) => UpTo(Shown(text), f, k)
<1>1. PICK m \in Nat : 1 <= m /\ m <= Len(text) + 1 /\ Shown(text) = SubSeq(text, m, Len(text))
  BY ShownIsEnd
<1>2. Len(text) \in Nat /\ Len(text) <= Len(text)
  BY LenProperties
<1>. DEFINE r == SubSeq(text, m, Len(text))
<1>3. r \in Seq(Piece)
  BY <1>1, <1>2, Part
<1>4. InSequence(text) => InSequence(r)
  BY <1>1, <1>2, PartInSequence
<1>5. \A v : (Below(v, text) => Below(v, r)) /\ (Below(text, v) => Below(r, v))
  BY <1>1, <1>2, PartBelow
<1>6. \A f, k : UpTo(text, f, k) => UpTo(r, f, k)
  BY <1>1, <1>2, PartBelow
<1>7. Shown(text) = r
  BY <1>1
<1>. HIDE DEF r
<1>. QED
  BY <1>3, <1>4, <1>5, <1>6, <1>7

\* Reading n pieces from an offset on.
LEMMA ContentsInSequence ==
    ASSUME TypeOK, NEW f \in Files, NEW from \in Nat, NEW n \in Nat, n = 0 \/ trimmed[f] + from + n <= MaxSize[f]
    PROVE  /\ Contents(f, from, n) \in Seq(Piece)
           /\ InSequence(Contents(f, from, n)) /\ UpTo(Contents(f, from, n), f, trimmed[f] + from + n)
           /\ \A j \in DOMAIN Contents(f, from, n) :
                 /\ Contents(f, from, n)[j][1] = f /\ Contents(f, from, n)[j][2] \in Nat
                 /\ trimmed[f] + from < Contents(f, from, n)[j][2]
<1>. DEFINE k == trimmed[f] + from
            c == [i \in 1..n |-> <<f, k + i>>]
<1>1. Contents(f, from, n) = c
  BY DEF Contents
<1>2. k \in Nat /\ MaxSize[f] \in Nat
  BY ParametersOK DEF TypeOK, Files
<1>. HIDE DEF k
<1>3. n = 0 \/ k + n <= MaxSize[f]
  BY DEF k
<1>4. c \in Seq(Piece)
  <2>1. \A i \in 1..n : <<f, k + i>> \in Piece
    <3>1. \A i \in 1..n : k + i \in 1..MaxSize[f]
      BY <1>2, <1>3
    <3>. QED
      BY <3>1 DEF Piece
  <2>2. c \in [1..n -> Piece]
    BY <2>1
  <2>. QED
    BY <2>2
<1>5. DOMAIN c = 1..n /\ \A i \in 1..n : c[i][1] = f /\ c[i][2] = k + i
  OBVIOUS
<1>. HIDE DEF c
<1>6. InSequence(c)
  <2>1. \A i, j \in 1..n : i < j => k + i < k + j
    BY <1>2
  <2>. QED
    BY <1>5, <2>1 DEF InSequence, Before
<1>7. UpTo(c, f, k + n)
  <2>1. \A i \in 1..n : k + i <= k + n
    BY <1>2
  <2>. QED
    BY <1>5, <2>1 DEF UpTo
<1>8. \A j \in DOMAIN c : c[j][1] = f /\ c[j][2] \in Nat /\ k < c[j][2]
  <2>1. \A j \in 1..n : k + j \in Nat /\ k < k + j
    BY <1>2
  <2>. QED
    BY <1>5, <2>1
<1>. QED
  BY <1>1, <1>4, <1>6, <1>7, <1>8 DEF k

\* Emit leaves what was read in order, whatever it prints of it.
LEMMA EmitInSequence ==
    ASSUME TypeOK, NEW chunk \in Seq(Piece), Emit(chunk)
    PROVE  /\ out' \in Seq(Piece) /\ pendingBuffer' \in Seq(Piece)
           /\ InSequence(out) /\ InSequence(pendingBuffer \o chunk) /\ Below(out, pendingBuffer \o chunk)
                => InSequence(out') /\ InSequence(pendingBuffer') /\ Below(out', pendingBuffer')
           /\ \A f, k : UpTo(out, f, k) /\ UpTo(pendingBuffer \o chunk, f, k)
                          => UpTo(out', f, k) /\ UpTo(pendingBuffer', f, k)
<1>. DEFINE c == pendingBuffer \o chunk
            n == CompleteLength(c)
            a == SubSeq(c, 1, n)
            b == SubSeq(c, n + 1, Len(c))
<1>1. out' = out \o Shown(a) /\ pendingBuffer' = b
  BY DEF Emit
<1>2. out \in Seq(Piece) /\ c \in Seq(Piece)
  BY Both DEF TypeOK
<1>. HIDE DEF c
<1>3. n \in 0..Len(c) /\ Len(c) \in Nat
  BY <1>2, CompleteIsPart, LenProperties
<1>. HIDE DEF n
<1>4. a \in Seq(Piece) /\ b \in Seq(Piece)
  BY <1>2, <1>3, Part
<1>5. /\ InSequence(c) => InSequence(a) /\ InSequence(b) /\ Below(a, b)
      /\ Below(out, c) => Below(out, a) /\ Below(out, b)
      /\ \A f, k : UpTo(c, f, k) => UpTo(a, f, k) /\ UpTo(b, f, k)
  <2>1. /\ 1 \in Nat /\ n \in Nat /\ 1 <= 1 /\ 1 <= n + 1 /\ n <= Len(c)
        /\ n + 1 \in Nat /\ 1 <= n + 1 /\ n + 1 <= Len(c) + 1 /\ Len(c) <= Len(c)
    BY <1>3
  <2>2. InSequence(c) => InSequence(a) /\ InSequence(b)
    BY <1>2, <1>3, <2>1, PartInSequence
  <2>3. InSequence(c) => Below(a, b)
    BY <1>2, <1>3, PartsBelow
  <2>4. /\ Below(out, c) => Below(out, a)
        /\ \A f, k : UpTo(c, f, k) => UpTo(a, f, k)
    BY <1>2, <1>3, <2>1, PartBelow
  <2>5. /\ Below(out, c) => Below(out, b)
        /\ \A f, k : UpTo(c, f, k) => UpTo(b, f, k)
    BY <1>2, <1>3, <2>1, PartBelow
  <2>. QED
    BY <2>2, <2>3, <2>4, <2>5
<1>. HIDE DEF a, b
<1>6. /\ Shown(a) \in Seq(Piece)
      /\ InSequence(a) => InSequence(Shown(a))
      /\ Below(out, a) => Below(out, Shown(a))
      /\ Below(a, b) => Below(Shown(a), b)
      /\ \A f, k : UpTo(a, f, k) => UpTo(Shown(a), f, k)
  BY <1>4, ShownInSequence
<1>7. out \o Shown(a) \in Seq(Piece)
  BY <1>2, <1>6, Both
<1>8. InSequence(out) /\ InSequence(c) /\ Below(out, c)
        => InSequence(out \o Shown(a)) /\ InSequence(b) /\ Below(out \o Shown(a), b)
  <2>1. InSequence(out) /\ InSequence(Shown(a)) /\ Below(out, Shown(a)) => InSequence(out \o Shown(a))
    BY <1>2, <1>6, Joined
  <2>2. Below(out, b) /\ Below(Shown(a), b) => Below(out \o Shown(a), b)
    BY <1>2, <1>6, JoinedBelow
  <2>. QED
    BY <1>5, <1>6, <2>1, <2>2
<1>9. \A f, k : UpTo(out, f, k) /\ UpTo(c, f, k) => UpTo(out \o Shown(a), f, k) /\ UpTo(b, f, k)
  <2>1. \A f, k : UpTo(out, f, k) /\ UpTo(Shown(a), f, k) => UpTo(out \o Shown(a), f, k)
    BY <1>2, <1>6, JoinedBelow
  <2>. QED
    BY <1>5, <1>6, <2>1
<1>. QED
  BY <1>1, <1>4, <1>7, <1>8, <1>9 DEF c

-----------------------------------------------------------------------------
(* The steps *)

\* What is there of a file, in natural numbers.
LEMMA SizesAreNat ==
    ASSUME TypeOK, Sizes, NEW f \in Files
    PROVE  /\ size[f] \in Nat /\ trimmed[f] \in Nat /\ MaxSize[f] \in Nat
           /\ Length(f) \in Nat /\ trimmed[f] + Length(f) = size[f] /\ size[f] <= MaxSize[f]
<1>1. size[f] \in Nat /\ trimmed[f] \in Nat /\ MaxSize[f] \in Nat
  BY ParametersOK DEF TypeOK, Files
<1>2. trimmed[f] <= size[f] /\ size[f] <= MaxSize[f]
  BY DEF Sizes
<1>. QED
  BY <1>1, <1>2 DEF Length

\* A read in progress.
LEMMA PollIsRead ==
    ASSUME TypeOK, IInv, poll.on
    PROVE  /\ poll \in [on : {TRUE}, file : Files, from : Nat, chunk : Seq(Piece)]
           /\ poll.file \in Files /\ poll.from \in Nat /\ poll.chunk \in Seq(Piece)
           /\ currentLogFile # 0
<1>1. poll # Idle
  BY DEF Idle
<1>2. poll \in [on : {TRUE}, file : Files, from : Nat, chunk : Seq(Piece)]
  BY <1>1 DEF TypeOK
<1>3. currentLogFile # 0
  BY <1>1 DEF IInv, Switching
<1>. QED
  BY <1>2, <1>3

\* Appends, new files and trims: the last piece read stays where it is or moves on.
LEMMA DaemonStep == TypeOK /\ IInv /\ Daemons => TypeOK' /\ IInv'
<1> SUFFICES ASSUME TypeOK, IInv, Daemons
             PROVE  TypeOK' /\ IInv'
  OBVIOUS
<1>1. /\ UNCHANGED <<followVars, poll, check, out>>
      /\ files \in Files /\ files \in Nat /\ trims \in Nat
  BY ParametersOK DEF Daemons, DaemonWrites, NewDaemon, TrimFile, TypeOK, Files
<1>2. /\ files' \in Files /\ size' \in [Files -> Nat] /\ trimmed' \in [Files -> Nat] /\ trims' \in 0..MaxTrims
      /\ files <= files'
      /\ \A f \in Files : trimmed[f] <= trimmed'[f] /\ trimmed'[f] <= size'[f] /\ size'[f] <= MaxSize[f]
  <2>1. /\ size[files] \in Nat /\ trimmed[files] \in Nat /\ MaxSize[files] \in Nat
        /\ \A f \in Files : size[f] \in Nat /\ trimmed[f] \in Nat /\ trimmed[f] <= size[f] /\ size[f] <= MaxSize[f]
        /\ size \in [Files -> Nat] /\ trimmed \in [Files -> Nat] /\ trims \in 0..MaxTrims
    BY <1>1, SizesAreNat DEF IInv, Sizes, TypeOK
  <2>2. CASE DaemonWrites
    <3>1. /\ size[files] < MaxSize[files] /\ size' = [size EXCEPT ![files] = size[files] + 1]
          /\ UNCHANGED <<files, trimmed, trims>>
      BY <2>2 DEF DaemonWrites
    <3>2. \A f \in Files : size'[f] = IF f = files THEN size[f] + 1 ELSE size[f]
      BY <2>1, <3>1
    <3>3. size' \in [Files -> Nat]
      BY <1>1, <2>1, <3>1
    <3>. QED
      BY <1>1, <2>1, <3>1, <3>2, <3>3
  <2>3. CASE NewDaemon
    <3>1. UNCHANGED <<size, trimmed, trims>> /\ files' \in Files /\ files <= files'
      BY <1>1, <2>3, ParametersOK DEF NewDaemon, Files
    <3>. QED
      BY <2>1, <3>1
  <2>4. CASE TrimFile
    <3>1. /\ size[files] - trimmed[files] > TrimTo /\ trimmed' = [trimmed EXCEPT ![files] = size[files] - TrimTo]
          /\ trims < MaxTrims /\ trims' = trims + 1 /\ UNCHANGED <<files, size>>
      BY <2>4 DEF TrimFile
    <3>2. size[files] - TrimTo \in Nat /\ trimmed[files] <= size[files] - TrimTo /\ size[files] - TrimTo <= size[files]
      BY <2>1, <3>1, ParametersOK
    <3>3. \A f \in Files : trimmed'[f] = IF f = files THEN size[f] - TrimTo ELSE trimmed[f]
      BY <2>1, <3>1
    <3>4. trimmed' \in [Files -> Nat] /\ trims' \in 0..MaxTrims
      BY <1>1, <2>1, <3>1, <3>2, ParametersOK
    <3>. QED
      BY <1>1, <2>1, <3>1, <3>2, <3>3, <3>4
  <2>. QED
    BY <2>2, <2>3, <2>4 DEF Daemons
<1>3. TypeOK'
  BY <1>1, <1>2 DEF TypeOK, followVars
<1>4. Sizes' /\ Switching'
  <2>1. currentLogFile \in Nat /\ files' \in Nat
    BY <1>2, ParametersOK DEF TypeOK, Files
  <2>. QED
    BY <1>1, <1>2, <2>1 DEF IInv, Sizes, Switching, followVars
<1>5. ASSUME currentLogFile # 0
      PROVE  ReadUpTo \in Nat /\ ReadUpTo' \in Nat /\ ReadUpTo <= ReadUpTo'
  <2>1. currentLogFile \in Files /\ position \in Nat
    BY <1>5, ParametersOK DEF TypeOK, Files
  <2>2. trimmed[currentLogFile] \in Nat /\ trimmed'[currentLogFile] \in Nat
        /\ trimmed[currentLogFile] <= trimmed'[currentLogFile]
    BY <1>2, <2>1 DEF TypeOK
  <2>. QED
    BY <1>1, <2>1, <2>2 DEF ReadUpTo, followVars
<1>6. Following'
  <2>1. SUFFICES ASSUME switches = 0, currentLogFile # 0
                 PROVE  UpTo(out, currentLogFile, ReadUpTo') /\ UpTo(pendingBuffer, currentLogFile, ReadUpTo')
    BY <1>1 DEF IInv, Following, followVars
  <2>2. out \in Seq(Piece) /\ pendingBuffer \in Seq(Piece)
    BY DEF TypeOK
  <2>. QED
    BY <1>5, <2>1, <2>2, UpToMore DEF IInv, Following
<1>7. Reading'
  <2>1. SUFFICES ASSUME switches = 0, poll.on
                 PROVE  UpTo(poll.chunk, currentLogFile, ReadUpTo')
    BY <1>1 DEF IInv, Reading, followVars
  <2>2. poll.chunk \in Seq(Piece) /\ currentLogFile # 0
    BY <2>1, PollIsRead
  <2>. QED
    BY <1>5, <2>1, <2>2, UpToMore DEF IInv, Reading
<1>. QED
  BY <1>3, <1>4, <1>6, <1>7 DEF IInv

LEMMA StartStep == TypeOK /\ IInv /\ Start => TypeOK' /\ IInv'
<1> SUFFICES ASSUME TypeOK, IInv, Start
             PROVE  TypeOK' /\ IInv'
  OBVIOUS
<1>. DEFINE n == Length(files)
            c == Contents(files, 0, n)
<1>1. /\ currentLogFile = 0 /\ currentLogFile' = files /\ position' = n /\ out' = Shown(c)
      /\ UNCHANGED <<logVars, pendingBuffer, filtered, switches, poll, check>>
  BY DEF Start, StartAt, FindLatestLogFile
<1>2. /\ switches = 0 /\ check = "idle" /\ poll = Idle /\ pendingBuffer = <<>>
      /\ files \in Files /\ files \in Nat /\ files # 0 /\ files \in 0..MaxFiles
  BY <1>1, ParametersOK DEF IInv, Switching, TypeOK, Files
<1>3. /\ trimmed[files] \in Nat /\ n \in Nat /\ trimmed[files] + 0 + n <= MaxSize[files]
      /\ trimmed[files] + 0 + n = trimmed[files] + n
  BY <1>2, SizesAreNat DEF IInv
<1>. HIDE DEF n
<1>4. c \in Seq(Piece) /\ InSequence(c) /\ UpTo(c, files, trimmed[files] + 0 + n)
  BY <1>2, <1>3, ContentsInSequence
<1>. HIDE DEF c
<1>5. Shown(c) \in Seq(Piece) /\ InSequence(Shown(c)) /\ UpTo(Shown(c), files, trimmed[files] + n)
  BY <1>3, <1>4, ShownInSequence
<1>6. TypeOK'
  BY <1>1, <1>2, <1>3, <1>5 DEF TypeOK, logVars
<1>7. Sizes' /\ Switching'
  BY <1>1, <1>2 DEF IInv, Sizes, Switching, logVars
<1>8. Following'
  <2>1. ReadUpTo' = trimmed[files] + n
    BY <1>1 DEF ReadUpTo, logVars
  <2>2. DOMAIN pendingBuffer = {}
    BY <1>2
  <2>. QED
    BY <1>1, <1>2, <1>5, <2>1, <2>2 DEF Following, InSequence, Below, UpTo
<1>9. Reading'
  BY <1>1, <1>2 DEF Reading, Idle
<1>. QED
  BY <1>6, <1>7, <1>8, <1>9 DEF IInv

LEMMA PollOpensStep == TypeOK /\ IInv /\ PollOpens => TypeOK' /\ IInv'
<1> SUFFICES ASSUME TypeOK, IInv, PollOpens
             PROVE  TypeOK' /\ IInv'
  OBVIOUS
<1>1. /\ currentLogFile # 0 /\ poll' = [on |-> TRUE, file |-> currentLogFile, from |-> position, chunk |-> <<>>]
      /\ UNCHANGED <<files, size, trimmed, trims, currentLogFile, position, pendingBuffer, filtered, switches, check, out>>
  BY DEF PollOpens, logVars, followVars
<1>2. /\ currentLogFile \in Files /\ position \in Nat /\ <<>> \in Seq(Piece) /\ DOMAIN <<>> = {}
  BY <1>1, EmptySeq, ParametersOK DEF TypeOK, Files
<1>3. TypeOK'
  <2>1. poll' \in [on : {TRUE}, file : Files, from : Nat, chunk : Seq(Piece)]
    BY <1>1, <1>2
  <2>. QED
    BY <1>1, <2>1 DEF TypeOK
<1>4. Sizes' /\ Switching' /\ Following'
  BY <1>1 DEF IInv, Sizes, Switching, Following, ReadUpTo
<1>5. Reading'
  <2>1. poll'.file = currentLogFile /\ poll'.from = position /\ DOMAIN (poll'.chunk) = {}
    BY <1>1, <1>2
  <2>. QED
    BY <1>1, <2>1 DEF Reading, InSequence, Below, UpTo
<1>. QED
  BY <1>3, <1>4, <1>5 DEF IInv

\* The offset and the read move on by the same number of pieces.
LEMMA PollReadsStep == TypeOK /\ IInv /\ PollReads => TypeOK' /\ IInv'
<1> SUFFICES ASSUME TypeOK, IInv, PollReads
             PROVE  TypeOK' /\ IInv'
  OBVIOUS
<1>. DEFINE f == poll.file
            n == BytesRead
            new == Contents(f, poll.from, n)
            chunk == poll.chunk \o new
<1>1. /\ poll.on /\ position' = position + n
      /\ UNCHANGED <<files, size, trimmed, trims, currentLogFile, filtered, switches, check>>
      /\ \/ /\ n = ReadBuf /\ poll' = [poll EXCEPT !.from = position', !.chunk = chunk]
            /\ UNCHANGED <<pendingBuffer, out>>
         \/ /\ n # ReadBuf /\ poll' = Idle
            /\ (chunk = <<>> /\ UNCHANGED <<pendingBuffer, out>>) \/ (chunk # <<>> /\ Emit(chunk))
  BY DEF PollReads, logVars
<1>2. /\ poll \in [on : {TRUE}, file : Files, from : Nat, chunk : Seq(Piece)]
      /\ f \in Files /\ poll.from \in Nat /\ poll.chunk \in Seq(Piece) /\ currentLogFile # 0
      /\ currentLogFile \in Files /\ position \in Nat
      /\ out \in Seq(Piece) /\ pendingBuffer \in Seq(Piece)
  <2>1. /\ poll \in [on : {TRUE}, file : Files, from : Nat, chunk : Seq(Piece)]
        /\ f \in Files /\ poll.from \in Nat /\ poll.chunk \in Seq(Piece) /\ currentLogFile # 0
    BY <1>1, PollIsRead
  <2>2. currentLogFile \in Files
    BY <2>1, ParametersOK DEF TypeOK, Files
  <2>3. position \in Nat /\ out \in Seq(Piece) /\ pendingBuffer \in Seq(Piece)
    BY DEF TypeOK
  <2>. QED
    BY <2>1, <2>2, <2>3
<1>3. /\ trimmed[f] \in Nat /\ n \in Nat /\ MaxSize[f] \in Nat
      /\ n = 0 \/ trimmed[f] + poll.from + n <= MaxSize[f]
  <2>1. /\ Length(f) \in Nat /\ trimmed[f] \in Nat /\ trimmed[f] + Length(f) <= MaxSize[f] /\ MaxSize[f] \in Nat
    BY <1>2, SizesAreNat DEF IInv
  <2>2. n \in Nat /\ (n = 0 \/ poll.from + n <= Length(f))
    BY <1>2, <2>1, ParametersOK DEF BytesRead
  <2>. HIDE DEF n
  <2>. QED
    BY <1>2, <2>1, <2>2
<1>. HIDE DEF n
<1>4. /\ new \in Seq(Piece) /\ InSequence(new) /\ UpTo(new, f, trimmed[f] + poll.from + n)
      /\ \A j \in DOMAIN new : new[j][1] = f /\ new[j][2] \in Nat /\ trimmed[f] + poll.from < new[j][2]
  BY <1>2, <1>3, ContentsInSequence
<1>. HIDE DEF new
<1>5. chunk \in Seq(Piece) /\ pendingBuffer \o chunk \in Seq(Piece)
  BY <1>2, <1>4, Both
\* In what follows nothing was switched.
<1>6. ASSUME switches = 0
      PROVE  /\ f = currentLogFile /\ poll.from = position
             /\ ReadUpTo \in Nat /\ ReadUpTo' \in Nat /\ ReadUpTo <= ReadUpTo'
             /\ trimmed[f] + poll.from = ReadUpTo /\ trimmed[f] + poll.from + n = ReadUpTo'
  <2>1. f = currentLogFile /\ poll.from = position
    BY <1>1, <1>6 DEF IInv, Reading
  <2>. QED
    BY <1>1, <1>2, <1>3, <2>1 DEF ReadUpTo
<1>7. ASSUME switches = 0
      PROVE  /\ InSequence(out) /\ InSequence(pendingBuffer) /\ InSequence(chunk)
             /\ Below(out, pendingBuffer) /\ Below(out, chunk) /\ Below(pendingBuffer, chunk)
             /\ UpTo(out, currentLogFile, ReadUpTo') /\ UpTo(pendingBuffer, currentLogFile, ReadUpTo')
             /\ UpTo(chunk, currentLogFile, ReadUpTo')
  <2>1. /\ InSequence(out) /\ InSequence(pendingBuffer) /\ Below(out, pendingBuffer)
        /\ UpTo(out, currentLogFile, ReadUpTo) /\ UpTo(pendingBuffer, currentLogFile, ReadUpTo)
        /\ InSequence(poll.chunk) /\ Below(out, poll.chunk) /\ Below(pendingBuffer, poll.chunk)
        /\ UpTo(poll.chunk, currentLogFile, ReadUpTo)
    BY <1>1, <1>2, <1>7 DEF IInv, Following, Reading
  <2>2. \A j \in DOMAIN new : new[j][1] = currentLogFile /\ new[j][2] \in Nat /\ ReadUpTo < new[j][2]
    <3>1. f = currentLogFile /\ trimmed[f] + poll.from = ReadUpTo
      BY <1>6, <1>7
    <3>. QED
      BY <1>4, <3>1
  <2>3. Below(out, new) /\ Below(pendingBuffer, new) /\ Below(poll.chunk, new)
    <3>1. ReadUpTo \in Nat
      BY <1>6, <1>7
    <3>2. \A s \in Seq(Piece) : UpTo(s, currentLogFile, ReadUpTo) => Below(s, new)
      BY <2>2, <3>1, ReadIsBehind
    <3>. QED
      BY <1>2, <2>1, <3>2
  <2>4. /\ UpTo(out, currentLogFile, ReadUpTo') /\ UpTo(pendingBuffer, currentLogFile, ReadUpTo')
        /\ UpTo(poll.chunk, currentLogFile, ReadUpTo') /\ UpTo(new, currentLogFile, ReadUpTo')
    <3>1. UpTo(new, currentLogFile, ReadUpTo')
      BY <1>4, <1>6, <1>7
    <3>2. ReadUpTo \in Nat /\ ReadUpTo' \in Nat /\ ReadUpTo <= ReadUpTo'
      BY <1>6, <1>7
    <3>3. UpTo(out, currentLogFile, ReadUpTo') /\ UpTo(pendingBuffer, currentLogFile, ReadUpTo')
      BY <1>2, <2>1, <3>2, UpToMore
    <3>4. UpTo(poll.chunk, currentLogFile, ReadUpTo')
      BY <1>2, <2>1, <3>2, UpToMore
    <3>. QED
      BY <3>1, <3>3, <3>4
  <2>5. InSequence(chunk)
    BY <1>2, <1>4, <2>1, <2>3, Joined
  <2>6. Below(out, chunk) /\ Below(pendingBuffer, chunk) /\ UpTo(chunk, currentLogFile, ReadUpTo')
    BY <1>2, <1>4, <2>1, <2>3, <2>4, JoinedBelow
  <2>. QED
    BY <2>1, <2>4, <2>5, <2>6
<1>. HIDE DEF chunk
<1>8. Sizes'
  BY <1>1 DEF IInv, Sizes
<1>9. CASE UNCHANGED <<pendingBuffer, out>>
  <2>1. /\ poll' = Idle \/ poll' = [poll EXCEPT !.from = position', !.chunk = chunk]
        /\ position' \in Nat
    BY <1>1, <1>2, <1>3
  <2>2. TypeOK'
    <3>1. poll' \in {Idle} \cup [on : {TRUE}, file : Files, from : Nat, chunk : Seq(Piece)]
      BY <1>2, <1>5, <2>1
    <3>. QED
      BY <1>1, <1>9, <2>1, <3>1 DEF TypeOK
  <2>3. Switching'
    BY <1>1, <1>2, <1>9 DEF IInv, Switching
  <2>4. Following'
    BY <1>1, <1>2, <1>7, <1>9 DEF IInv, Following
  <2>5. Reading'
    <3>1. SUFFICES ASSUME switches = 0, poll'.on
                   PROVE  Reading'
      BY <1>1 DEF Reading
    <3>2. poll' = [poll EXCEPT !.from = position', !.chunk = chunk]
      BY <2>1, <3>1 DEF Idle
    <3>3. poll'.file = f /\ poll'.from = position' /\ poll'.chunk = chunk
      BY <1>2, <3>2
    <3>. QED
      BY <1>1, <1>6, <1>7, <1>9, <3>1, <3>3 DEF Reading
  <2>. QED
    BY <1>8, <2>2, <2>3, <2>4, <2>5 DEF IInv
<1>10. CASE Emit(chunk) /\ poll' = Idle
  <2>1. out' \in Seq(Piece) /\ pendingBuffer' \in Seq(Piece)
    BY <1>5, <1>10, EmitInSequence
  <2>2. TypeOK'
    <3>1. position' \in Nat
      BY <1>1, <1>2, <1>3
    <3>. QED
      BY <1>1, <1>10, <2>1, <3>1 DEF TypeOK
  <2>3. Switching' /\ Reading'
    BY <1>1, <1>2, <1>10 DEF IInv, Switching, Reading, Idle
  <2>4. Following'
    <3>1. SUFFICES ASSUME switches = 0
                   PROVE  Following'
      BY <1>1 DEF Following
    <3>2. InSequence(pendingBuffer \o chunk)
      BY <1>2, <1>5, <1>7, <3>1, Joined
    <3>3. Below(out, pendingBuffer \o chunk) /\ UpTo(pendingBuffer \o chunk, currentLogFile, ReadUpTo')
      BY <1>2, <1>5, <1>7, <3>1, JoinedBelow
    <3>4. /\ InSequence(out') /\ InSequence(pendingBuffer') /\ Below(out', pendingBuffer')
          /\ UpTo(out', currentLogFile, ReadUpTo') /\ UpTo(pendingBuffer', currentLogFile, ReadUpTo')
      BY <1>5, <1>7, <1>10, <3>1, <3>2, <3>3, EmitInSequence
    <3>. QED
      BY <1>1, <1>2, <3>1, <3>4 DEF IInv, Following
  <2>. QED
    BY <1>8, <2>2, <2>3, <2>4 DEF IInv
<1>. QED
  BY <1>1, <1>9, <1>10

\* A check that finds the same file changes nothing; with another file it is a switch.
LEMMA CheckStep == TypeOK /\ IInv /\ Check => TypeOK' /\ IInv'
<1> SUFFICES ASSUME TypeOK, IInv, Check
             PROVE  TypeOK' /\ IInv'
  OBVIOUS
<1>1. CASE CheckBegins \/ (CheckLists /\ files = currentLogFile)
  <2>1. /\ check' \in {"idle", "listing"} /\ currentLogFile # 0
        /\ UNCHANGED <<files, size, trimmed, trims, currentLogFile, position, pendingBuffer, filtered, switches, poll, out>>
    BY <1>1 DEF CheckBegins, CheckLists, FindLatestLogFile, logVars, followVars, IInv, Switching
  <2>2. TypeOK'
    BY <2>1 DEF TypeOK
  <2>3. Sizes' /\ Switching' /\ Following' /\ Reading'
    BY <2>1 DEF IInv, Sizes, Switching, Following, Reading, ReadUpTo
  <2>. QED
    BY <2>2, <2>3 DEF IInv
<1>2. CASE CheckLists /\ files # currentLogFile
  <2>1. /\ check = "listing" /\ check' = "reading" /\ out' = out \o Shown(pendingBuffer)
        /\ currentLogFile' = files /\ pendingBuffer' = <<>> /\ switches' = switches + 1
        /\ UNCHANGED <<files, size, trimmed, trims, position, filtered, poll>>
    BY <1>2 DEF CheckLists, FindLatestLogFile, logVars
  <2>2. /\ files \in Nat /\ files # 0 /\ files \in 0..MaxFiles /\ currentLogFile \in Nat /\ switches \in Nat
        /\ currentLogFile <= files /\ currentLogFile # 0 /\ switches < currentLogFile
    BY <2>1, ParametersOK DEF TypeOK, Files, IInv, Switching
  <2>3. out' \in Seq(Piece) /\ pendingBuffer' \in Seq(Piece)
    <3>1. out \in Seq(Piece) /\ pendingBuffer \in Seq(Piece)
      BY DEF TypeOK
    <3>2. Shown(pendingBuffer) \in Seq(Piece)
      BY <3>1, ShownInSequence
    <3>. QED
      BY <2>1, <3>1, <3>2, Both, EmptySeq
  <2>4. switches' < files /\ switches' # 0 /\ switches' \in 0..MaxFiles
    BY <1>2, <2>1, <2>2, ParametersOK
  <2>5. TypeOK'
    BY <2>1, <2>2, <2>3, <2>4 DEF TypeOK
  <2>6. Sizes' /\ Switching' /\ Following' /\ Reading'
    BY <2>1, <2>2, <2>4 DEF IInv, Sizes, Switching, Following, Reading
  <2>. QED
    BY <2>5, <2>6 DEF IInv
<1>3. CASE CheckReads \/ CheckStats
  <2>1. /\ check \in {"reading", "stat"} /\ check' \in {"idle", "stat"}
        /\ UNCHANGED <<files, size, trimmed, trims, currentLogFile, pendingBuffer, filtered, switches, poll>>
    BY <1>3 DEF CheckReads, CheckStats, logVars, followVars
  <2>2. currentLogFile # 0 /\ switches # 0 /\ currentLogFile \in Files
    BY <2>1, ParametersOK DEF IInv, Switching, Following, TypeOK, Files
  <2>3. trimmed[currentLogFile] \in Nat /\ Length(currentLogFile) \in Nat
        /\ trimmed[currentLogFile] + 0 + Length(currentLogFile) <= MaxSize[currentLogFile]
    BY <2>2, SizesAreNat DEF IInv
  <2>4. out' \in Seq(Piece) /\ position' \in Nat
    <3>1. out \in Seq(Piece) /\ position \in Nat
      BY DEF TypeOK
    <3>2. CASE CheckReads
      <4>. DEFINE c == Contents(currentLogFile, 0, Length(currentLogFile))
      <4>1. c \in Seq(Piece)
        BY <2>2, <2>3, ContentsInSequence
      <4>2. out' = out \o Shown(c) /\ position' = position
        BY <3>2 DEF CheckReads, followVars
      <4>. HIDE DEF c
      <4>3. Shown(c) \in Seq(Piece)
        BY <4>1, ShownInSequence
      <4>. QED
        BY <3>1, <4>2, <4>3, Both
    <3>3. CASE CheckStats
      BY <2>3, <3>1, <3>3 DEF CheckStats
    <3>. QED
      BY <1>3, <3>2, <3>3
  <2>5. TypeOK'
    BY <2>1, <2>4 DEF TypeOK
  <2>6. Sizes' /\ Switching' /\ Following' /\ Reading'
    BY <2>1, <2>2 DEF IInv, Sizes, Switching, Following, Reading
  <2>. QED
    BY <2>5, <2>6 DEF IInv
<1>. QED
  BY <1>1, <1>2, <1>3 DEF Check

-----------------------------------------------------------------------------
(* The theorems *)

LEMMA InitInvariant == Init => TypeOK /\ IInv
<1> SUFFICES ASSUME Init
             PROVE  TypeOK /\ IInv
  OBVIOUS
<1>1. 1 \in Files /\ 0 \in 0..MaxFiles /\ 0 \in 0..MaxTrims /\ \A f \in Files : MaxSize[f] \in Nat
  BY ParametersOK DEF Files
<1>2. size = [f \in Files |-> 0] /\ trimmed = [f \in Files |-> 0]
  BY DEF Init
<1>3. size \in [Files -> Nat] /\ trimmed \in [Files -> Nat]
  BY <1>2
<1>4. <<>> \in Seq(Piece)
  BY EmptySeq
<1>5. TypeOK
  BY <1>1, <1>3, <1>4 DEF Init, TypeOK
<1>6. Sizes
  BY <1>1, <1>2 DEF Sizes
<1>7. Switching /\ Following /\ Reading
  BY DEF Init, Switching, Following, Reading, Idle
<1>. QED
  BY <1>5, <1>6, <1>7 DEF IInv

LEMMA InvariantStep == TypeOK /\ IInv /\ [Next]_vars => TypeOK' /\ IInv'
<1> SUFFICES ASSUME TypeOK, IInv, [Next]_vars
             PROVE  TypeOK' /\ IInv'
  OBVIOUS
<1>1. CASE Daemons \/ Start
  BY <1>1, DaemonStep, StartStep
<1>2. CASE Poll
  BY <1>2, PollOpensStep, PollReadsStep DEF Poll
<1>3. CASE Check
  BY <1>3, CheckStep
<1>4. CASE UNCHANGED vars
  <2>1. UNCHANGED <<files, size, trimmed, trims, currentLogFile, position, pendingBuffer, filtered, switches, poll, check, out>>
    BY <1>4 DEF vars, logVars, followVars
  <2>2. TypeOK'
    BY <2>1 DEF TypeOK
  <2>3. IInv'
    BY <2>1 DEF IInv, Sizes, Switching, Following, Reading, ReadUpTo
  <2>. QED
    BY <2>2, <2>3
<1>. QED
  BY <1>1, <1>2, <1>3, <1>4 DEF Next

\* TypeOK: whatever is read, trimmed and printed, only pieces of log files are, and no more switches
\* are made than there are files.
THEOREM TypeCorrect == Spec => []TypeOK
BY InitInvariant, InvariantStep, PTL DEF Spec

\* OnceInOrder: as long as one file is followed, everything is printed once and in order, whatever the
\* sizes of files and reads are, also when the daemon trims the file or a filter is given.
THEOREM PrintedOnceInOrder == Spec => []OnceInOrder
<1>1. IInv => OnceInOrder
  <2> SUFFICES ASSUME IInv, switches = 0
               PROVE  InSequence(out)
    BY DEF OnceInOrder, InSequence, Before
  <2>1. CASE currentLogFile = 0
    BY <2>1 DEF IInv, Switching, InSequence
  <2>2. CASE currentLogFile # 0
    BY <2>2 DEF IInv, Following
  <2>. QED
    BY <2>1, <2>2
<1>2. Spec => [](TypeOK /\ IInv)
  BY InitInvariant, InvariantStep, PTL DEF Spec
<1>. QED
  BY <1>1, <1>2, PTL
=============================================================================

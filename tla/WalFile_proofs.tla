--------------------------- MODULE WalFile_proofs ---------------------------
(***************************************************************************)
(* Proofs about WalFile, for every set of names and metadata, every        *)
(* compaction threshold and every length of log.                           *)
(***************************************************************************)
EXTENDS WalFile, FiniteSetTheorems, WellFoundedInduction, TLAPS

-----------------------------------------------------------------------------
(* What reading a log back yields *)

\* An empty log (a first start: the file does not exist) has no files.
LEMMA RecoverEmpty == Recover(<<>>) = [f \in Name |-> Absent]
BY DEF Recover, Touching, Parsed

\* A non-empty set of line numbers has a largest one: Latest is well defined.
LEMMA LatestExists ==
  ASSUME NEW n \in Nat, NEW S \in SUBSET (1..n), S # {}
  PROVE  /\ Latest(S) \in S
         /\ \A j \in S : j <= Latest(S)
<1> DEFINE T == {n - i : i \in S}
           R == OpToRel(<, Nat)
<1>1. IsWellFoundedOn(R, Nat)
  BY NatLessThanWellFounded
<1>2. T \subseteq Nat /\ T # {}
  <2>1. \A i \in S : n - i \in Nat
    OBVIOUS
  <2>2. PICK i \in S : TRUE
    OBVIOUS
  <2> QED BY <2>1, <2>2
<1>3. PICK x \in T : \A y \in T : ~ (<<y, x>> \in R)
  <2> HIDE DEF T, R
  <2> QED BY <1>1, <1>2, WFMin
<1>4. \A y \in T : ~ (y < x)
  BY <1>2, <1>3 DEF OpToRel
<1>5. \A j \in S : j <= n - x
  BY <1>4
<1>6. n - x \in S
  OBVIOUS
<1> QED BY <1>5, <1>6, Zenon DEF Latest

\* In a log without damaged lines every line is parsed.
LEMMA ParsedClean ==
  ASSUME NEW w \in Seq(Record)
  PROVE  Parsed(w) = 1..Len(w)
BY LineAssumption DEF Parsed

\* Lines before an overlong one.
Fits(w) == \A i \in 1..Len(w) : w[i] # Overlong

\* One more line that fits the scanner's buffer: nothing changes if it does not
\* parse, and a record changes the recovered map at its name and nowhere else.
\* The last record of a name decides.
LEMMA RecoverOneMore ==
  ASSUME NEW w \in Seq(Line), Fits(w), NEW l \in Line, l # Overlong
  PROVE  /\ l = Torn => /\ Recover(Append(w, l)) = Recover(w)
                        /\ Parsed(Append(w, l)) = Parsed(w)
         /\ l # Torn =>
              /\ Recover(Append(w, l)) = [Recover(w) EXCEPT ![l.name] = l.meta]
              /\ Parsed(Append(w, l)) = Parsed(w) \cup {Len(w) + 1}
<1> DEFINE a == Append(w, l)
           n == Len(w) + 1
<1>1. /\ Len(a) = n /\ n \in Nat /\ Len(w) \in Nat /\ a[n] = l
      /\ DOMAIN a = 1..n /\ DOMAIN w = 1..Len(w)
      /\ \A i \in 1..Len(w) : a[i] = w[i]
  OBVIOUS
<1> HIDE DEF a
<1>2. /\ Parsed(w) = {i \in 1..Len(w) : w[i] # Torn}
      /\ Parsed(a) = {i \in 1..n : a[i] # Torn}
  <2>1. \A i \in 1..n : a[i] # Overlong
    BY <1>1 DEF Fits
  <2>2. \A i \in 1..n : \A j \in 1..i : j \in 1..n
    BY <1>1
  <2>3. \A i \in 1..Len(w) : \A j \in 1..i : j \in 1..Len(w)
    BY <1>1
  <2> QED BY <1>1, <2>1, <2>2, <2>3 DEF Parsed, Fits
<1>3. \A f \in Name : Touching(w, f) = {i \in Touching(a, f) : i # n}
  BY <1>1, <1>2 DEF Touching
<1>4. ASSUME NEW f \in Name, n \notin Touching(a, f)
      PROVE  Recover(a)[f] = Recover(w)[f]
  <2>1. Touching(a, f) = Touching(w, f)
    BY <1>3, <1>4
  <2>2. ASSUME Touching(w, f) # {}
        PROVE  a[Latest(Touching(w, f))] = w[Latest(Touching(w, f))]
    <3>1. Touching(w, f) \subseteq 1..Len(w)
      BY <1>2 DEF Touching
    <3>2. Latest(Touching(w, f)) \in Touching(w, f)
      BY <1>1, <2>2, <3>1, LatestExists
    <3> QED BY <1>1, <3>1, <3>2
  <2> QED BY <2>1, <2>2 DEF Recover
<1>5. CASE l = Torn
  <2>1. Parsed(a) = Parsed(w)
    BY <1>1, <1>2, <1>5
  <2>2. \A f \in Name : n \notin Touching(a, f)
    BY <1>1, <1>2, <1>5 DEF Touching
  <2> QED BY <1>4, <1>5, <2>1, <2>2 DEF Recover, a
<1>6. CASE l # Torn
  <2>1. Parsed(a) = Parsed(w) \cup {n}
    BY <1>1, <1>2, <1>6
  <2>2. l \in Record
    BY <1>6 DEF Line
  <2>3. ASSUME NEW f \in Name, f # l.name PROVE Recover(a)[f] = Recover(w)[f]
    <3>1. n \notin Touching(a, f)
      BY <1>1, <2>3 DEF Touching
    <3> QED BY <3>1, <1>4
  <2>4. Recover(a)[l.name] = l.meta
    <3>1. n \in Touching(a, l.name) /\ Touching(a, l.name) \subseteq 1..n
      BY <1>1, <1>2, <1>6 DEF Touching
    <3>2. /\ Latest(Touching(a, l.name)) \in 1..n
          /\ n <= Latest(Touching(a, l.name))
      BY <1>1, <3>1, LatestExists
    <3>3. Latest(Touching(a, l.name)) = n
      BY <1>1, <3>2
    <3> QED BY <1>1, <2>2, <3>1, <3>3 DEF Recover, Record
  <2>5. Recover(a) = [Recover(w) EXCEPT ![l.name] = l.meta]
    BY <2>2, <2>3, <2>4 DEF Recover, Record
  <2> QED BY <1>6, <2>1, <2>5 DEF a
<1> QED BY <1>5, <1>6

\* The same for a record appended to an undamaged log.
LEMMA RecoverAppend ==
  ASSUME NEW w \in Seq(Record), NEW r \in Record
  PROVE  Recover(Append(w, r)) = [Recover(w) EXCEPT ![r.name] = r.meta]
<1>1. w \in Seq(Line) /\ r \in Line
  BY DEF Line
<1>2. Fits(w) /\ r # Torn /\ r # Overlong
  BY LineAssumption DEF Fits
<1> QED BY <1>1, <1>2, RecoverOneMore

\* What follows a line that overflows the scanner's buffer does not count.
LEMMA RecoverStops ==
  ASSUME NEW w \in Seq(Line), NEW k \in 0..Len(w), Fits(SubSeq(w, 1, k)),
         k < Len(w) => w[k + 1] = Overlong
  PROVE  Recover(SubSeq(w, 1, k)) = Recover(w) /\ Parsed(SubSeq(w, 1, k)) = Parsed(w)
<1> DEFINE s == SubSeq(w, 1, k)
<1>1. /\ DOMAIN s = 1..k /\ DOMAIN w = 1..Len(w) /\ Len(w) \in Nat /\ Len(s) = k
      /\ \A i \in 1..k : s[i] = w[i]
  OBVIOUS
<1>2. Fits(s)
  OBVIOUS
<1> HIDE DEF s
<1>3. Parsed(s) = {i \in 1..k : w[i] # Torn}
  <2>1. \A i \in 1..k : \A j \in 1..i : j \in 1..k
    OBVIOUS
  <2> QED BY <1>1, <1>2, <2>1 DEF Parsed, Fits
<1>4. Parsed(w) = {i \in 1..k : w[i] # Torn}
  <2>1. \A i \in 1..Len(w) : i > k => k + 1 \in 1..i /\ w[k + 1] = Overlong
    BY <1>1
  <2>2. \A i \in 1..k : i \in 1..Len(w) /\ \A j \in 1..i : w[j] # Overlong
    BY <1>1, <1>2 DEF Fits
  <2>3. \A i \in Parsed(w) : i \in 1..k /\ w[i] # Torn
    BY <1>1, <2>1 DEF Parsed
  <2> QED BY <1>1, <2>2, <2>3 DEF Parsed
<1>5. ASSUME NEW f \in Name
      PROVE  Recover(s)[f] = Recover(w)[f]
  <2>1. Touching(s, f) = Touching(w, f)
    BY <1>1, <1>3, <1>4 DEF Touching
  <2>2. ASSUME Touching(w, f) # {}
        PROVE  s[Latest(Touching(w, f))] = w[Latest(Touching(w, f))]
    <3>1. Touching(w, f) \in SUBSET (1..k) /\ k \in Nat
      BY <1>4 DEF Touching
    <3>2. Latest(Touching(w, f)) \in Touching(w, f)
      BY <2>2, <3>1, LatestExists
    <3> QED BY <1>1, <3>1, <3>2
  <2> QED BY <2>1, <2>2 DEF Recover
<1> QED BY <1>3, <1>4, <1>5 DEF Recover, s

\* Writing to a log leaves a sequence of lines, and never an empty one that
\* lacks its final newline.
LEMMA AppendLineType ==
  ASSUME NEW w \in Seq(Line), NEW t \in BOOLEAN, NEW r \in Record,
         ~t => w # <<>>
  PROVE  AppendLine(w, t, r) \in Seq(Line) /\ AppendLine(w, t, r) # <<>>
<1>1. LineOf(r) \in Line /\ Joined(w[Len(w)], r) \in Line
  BY DEF LineOf, Joined, Line
<1>2. CASE t
  BY <1>1, <1>2 DEF AppendLine
<1>3. CASE ~t
  <2>1. Len(w) \in 1..Len(w)
    BY <1>3
  <2> QED BY <1>1, <1>3, <2>1 DEF AppendLine
<1> QED BY <1>2, <1>3

LEMMA AppendCutType ==
  ASSUME NEW w \in Seq(Line), NEW t \in BOOLEAN, NEW r \in Record,
         NEW k \in Cut, ~t => w # <<>>
  PROVE  /\ AppendCut(w, t, r, k) \in Seq(Line)
         /\ ~EolAfter(t, k) => AppendCut(w, t, r, k) # <<>>
         /\ EolAfter(t, k) \in BOOLEAN
<1>1. Joined(w[Len(w)], r) \in Line /\ Torn \in Line
  BY DEF Joined, Line
<1>2. CASE k = "nothing"
  BY <1>2 DEF AppendCut, EolAfter
<1>3. CASE k = "fragment" /\ t
  BY <1>1, <1>3 DEF AppendCut, EolAfter
<1>4. CASE k = "fragment" /\ ~t
  <2>1. Len(w) \in 1..Len(w)
    BY <1>4
  <2> QED BY <1>1, <1>4, <2>1 DEF AppendCut, EolAfter
<1>5. CASE k = "no newline"
  <2>1. AppendCut(w, t, r, k) = AppendLine(w, t, r)
    BY <1>5 DEF AppendCut
  <2> QED BY <1>5, <2>1, AppendLineType DEF EolAfter
<1> QED BY <1>2, <1>3, <1>4, <1>5 DEF Cut

-----------------------------------------------------------------------------
(* Type correctness *)

\* Every state of the log and of the controller's map has its type; in
\* particular the log never ends without a newline while empty, which is what
\* AppendLine relies on when it glues a record to the last line.
THEOREM WalTyping == Spec => []TypeOK
<1>1. Init => TypeOK
  <2> SUFFICES ASSUME Init PROVE TypeOK
    OBVIOUS
  <2>1. (CHOOSE f \in Name : TRUE) \in Name
    BY FiniteNames
  <2>2. rec \in Record
    BY <2>1 DEF Init, Record
  <2> QED BY <2>2 DEF Init, TypeOK
<1>2. TypeOK /\ [Next]_vars => TypeOK'
  <2> SUFFICES ASSUME TypeOK, [Next]_vars PROVE TypeOK'
    OBVIOUS
  <2>0. 0 \in 0..Len(wal) /\ Len(wal) \in Nat
    BY DEF TypeOK
  <2>1. CASE Start
    BY <2>1 DEF Start, TypeOK, log
  <2>a. CASE RecoverLine
    <3>1. read + 1 \in 1..Len(wal) /\ walCount + 1 \in Nat
      BY <2>a, <2>0 DEF RecoverLine, TypeOK
    <3>2. wal[read + 1] \in Line
      BY <3>1 DEF TypeOK
    <3>3. files' \in [Name -> Meta \cup {Absent}]
      <4>1. CASE wal[read + 1] = Torn
        BY <2>a, <4>1 DEF RecoverLine, TypeOK
      <4>2. CASE wal[read + 1] # Torn
        <5>1. wal[read + 1] \in Record
          BY <2>a, <3>2, <4>2 DEF RecoverLine, Line
        <5>2. wal[read + 1].meta \in Meta \cup {Absent}
          BY <5>1 DEF Record
        <5>3. files' = [files EXCEPT ![wal[read + 1].name] = wal[read + 1].meta]
          BY <2>a, <4>2 DEF RecoverLine
        <5> QED BY <5>2, <5>3 DEF TypeOK
      <4> QED BY <4>1, <4>2
    <3>4. walCount' \in Nat
      BY <2>a, <3>1 DEF RecoverLine, TypeOK
    <3> QED BY <2>a, <2>0, <3>1, <3>3, <3>4 DEF RecoverLine, TypeOK, log
  <2>b. CASE Recovered
    BY <2>b, <2>0 DEF Recovered, TypeOK, log
  <2>2. ASSUME NEW f \in Name, NEW v \in Meta \cup {Absent}, Mutate(f, v)
        PROVE  TypeOK'
    BY <2>2 DEF Mutate, TypeOK, Record, log
  <2>3. CASE WriteRecord
    <3>1. read' = 0 /\ 0 \in 0..Len(wal')
      <4>1. wal' \in Seq(Line)
        BY <2>3, AppendLineType DEF WriteRecord, TypeOK
      <4> QED BY <2>3, <4>1 DEF WriteRecord, TypeOK
    <3> QED BY <2>3, <3>1, AppendLineType DEF WriteRecord, TypeOK
  <2>4. ASSUME NEW k \in Errors, WriteError(k)
        PROVE  TypeOK'
    <3>1. k \in Cut
      BY WalAssumption
    <3>2. wal' \in Seq(Line) /\ eol' \in BOOLEAN /\ (~eol' => wal' # <<>>)
      BY <2>4, <3>1, AppendCutType DEF WriteError, TypeOK
    <3>3. read' = 0 /\ 0 \in 0..Len(wal')
      BY <2>4, <3>2 DEF WriteError, TypeOK
    <3> QED BY <2>4, <3>2, <3>3 DEF WriteError, TypeOK
  <2>5. ASSUME NEW k \in Tears, TornCrash(k)
        PROVE  TypeOK'
    <3>1. k \in Cut
      BY WalAssumption
    <3>2. wal' \in Seq(Line) /\ eol' \in BOOLEAN /\ (~eol' => wal' # <<>>)
      BY <2>5, <3>1, AppendCutType DEF TornCrash, TypeOK
    <3>3. read' = 0 /\ 0 \in 0..Len(wal')
      BY <2>5, <3>2 DEF TornCrash, TypeOK
    <3> QED BY <2>5, <3>2, <3>3 DEF TornCrash, TypeOK
  <2>6. CASE Count
    BY <2>6 DEF Count, TypeOK, log
  <2>7. CASE OpenTmp
    BY <2>7 DEF OpenTmp, TypeOK, Present
  <2>8. ASSUME NEW f \in Name, CopyRecord(f)
        PROVE  TypeOK'
    <3>1. LineOf([name |-> f, meta |-> files[f]]) \in Line
      BY DEF TypeOK, LineOf, Line, Record
    <3> QED BY <2>8, <3>1 DEF CopyRecord, TypeOK
  <2>9. CASE RenameTmp
    <3>1. read' = 0 /\ 0 \in 0..Len(wal')
      BY <2>9 DEF RenameTmp, TypeOK
    <3> QED BY <2>9, <3>1 DEF RenameTmp, TypeOK
  <2>10. CASE Reopen
    <3>1. Cardinality(Present(files)) \in Nat
      BY FiniteNames, FS_Subset, FS_CardinalityType DEF Present
    <3> QED BY <2>10, <3>1 DEF Reopen, TypeOK, log
  <2>11. CASE CompactAbort
    BY <2>11 DEF CompactAbort, TypeOK, log
  <2>12. CASE Crash
    BY <2>12, <2>0 DEF Crash, TypeOK, log
  <2>13. CASE UNCHANGED vars
    BY <2>13 DEF vars, log, TypeOK
  <2> QED
    BY <2>1, <2>2, <2>3, <2>4, <2>5, <2>6, <2>7, <2>8, <2>9, <2>10, <2>11,
       <2>12, <2>13, <2>a, <2>b DEF Next
<1> QED BY <1>1, <1>2, PTL DEF Spec

-----------------------------------------------------------------------------
(* Recovery *)

\* recoverWAL's loop has applied the lines it has passed.
ReplayInv ==
    pc = "recover" => LET w == SubSeq(wal, 1, read) IN
        Fits(w) /\ files = Recover(w) /\ walCount = Cardinality(Parsed(w))

\* The loop keeps to what the definition of Recover says of the lines passed.
LEMMA ReplayInvariant == Spec => []ReplayInv
<1>1. Init => ReplayInv
  BY DEF Init, ReplayInv
<1>2. TypeOK /\ ReplayInv /\ [Next]_vars => ReplayInv'
  <2> SUFFICES ASSUME TypeOK, ReplayInv, [Next]_vars PROVE ReplayInv'
    OBVIOUS
  <2>1. CASE Start
    <3>1. SubSeq(wal, 1, 0) = <<>>
      BY DEF TypeOK
    <3>2. wal' = wal /\ read' = 0 /\ walCount' = 0 /\ files' = Recover(<<>>)
      BY <2>1, RecoverEmpty DEF Start, log, TypeOK
    <3>3. Parsed(<<>>) = {} /\ Fits(<<>>)
      BY DEF Parsed, Fits
    <3> QED BY <3>1, <3>2, <3>3, FS_EmptySet DEF ReplayInv
  <2>2. CASE RecoverLine
    <3> DEFINE w == SubSeq(wal, 1, read)
               l == wal[read + 1]
               a == SubSeq(wal, 1, read + 1)
    <3>1. /\ wal \in Seq(Line) /\ read \in Nat /\ read + 1 \in 1..Len(wal)
          /\ l # Overlong /\ wal' = wal /\ read' = read + 1 /\ pc = "recover"
      BY <2>2 DEF RecoverLine, TypeOK, log
    <3>2. Fits(w) /\ files = Recover(w) /\ walCount = Cardinality(Parsed(w))
      BY <3>1 DEF ReplayInv
    <3>3. w \in Seq(Line) /\ l \in Line /\ Len(w) = read
      BY <3>1
    <3>4. a = Append(w, l)
      BY <3>1
    <3>5. Fits(a)
      <4>1. a \in Seq(Line) /\ Len(a) = read + 1 /\ a[read + 1] = l
        BY <3>1
      <4>2. \A i \in 1..read : a[i] = w[i]
        BY <3>1
      <4> HIDE DEF a, w, l
      <4> QED BY <3>1, <3>2, <3>3, <4>1, <4>2 DEF Fits
    <3> HIDE DEF w, l, a
    <3>6. IsFiniteSet(Parsed(w)) /\ read + 1 \notin Parsed(w)
      <4>1. Parsed(w) \subseteq 1..read
        BY <3>3 DEF Parsed
      <4>2. IsFiniteSet(1..read)
        BY <3>1, FS_Interval
      <4>3. read + 1 \notin 1..read
        BY <3>1
      <4> QED BY <4>1, <4>2, <4>3, FS_Subset
    <3>7. CASE l = Torn
      <4>1. Recover(a) = Recover(w) /\ Parsed(a) = Parsed(w)
        BY <3>1, <3>2, <3>3, <3>4, <3>7, RecoverOneMore
      <4>2. files' = files /\ walCount' = walCount
        BY <2>2, <3>7 DEF RecoverLine, l
      <4> QED BY <3>1, <3>2, <3>5, <4>1, <4>2 DEF ReplayInv, a
    <3>8. CASE l # Torn
      <4>1. /\ Recover(a) = [Recover(w) EXCEPT ![l.name] = l.meta]
            /\ Parsed(a) = Parsed(w) \cup {read + 1}
        BY <3>1, <3>2, <3>3, <3>4, <3>8, RecoverOneMore
      <4>2. Cardinality(Parsed(a)) = Cardinality(Parsed(w)) + 1
        BY <3>6, <4>1, FS_AddElement
      <4>3. files' = [files EXCEPT ![l.name] = l.meta] /\ walCount' = walCount + 1
        BY <2>2, <3>8 DEF RecoverLine, l
      <4> QED BY <3>1, <3>2, <3>5, <4>1, <4>2, <4>3 DEF ReplayInv, a
    <3> QED BY <3>7, <3>8
  <2>3. CASE pc' # "recover"
    BY <2>3 DEF ReplayInv
  <2>4. CASE UNCHANGED vars
    BY <2>4 DEF vars, log, ReplayInv
  <2>5. Next => Start \/ RecoverLine \/ pc' # "recover"
    BY DEF Next, Recovered, Mutate, WriteRecord, WriteError, TornCrash, Count, OpenTmp,
       CopyRecord, RenameTmp, Reopen, CompactAbort, Crash
  <2> QED BY <2>1, <2>2, <2>3, <2>4, <2>5
<1> QED BY <1>1, <1>2, WalTyping, PTL DEF Spec

\* When the scanner stops, what has been applied is the whole log.
LEMMA ReplayEnds ==
  ASSUME TypeOK, ReplayInv, Recovered
  PROVE  files' = Recover(wal) /\ walCount' = Cardinality(Parsed(wal))
<1>1. /\ pc = "recover" /\ wal \in Seq(Line) /\ read \in 0..Len(wal)
      /\ read < Len(wal) => wal[read + 1] = Overlong
      /\ files' = files /\ walCount' = walCount
  BY DEF Recovered, TypeOK
<1>2. /\ Fits(SubSeq(wal, 1, read)) /\ files = Recover(SubSeq(wal, 1, read))
      /\ walCount = Cardinality(Parsed(SubSeq(wal, 1, read)))
  BY <1>1 DEF ReplayInv
<1> QED BY <1>1, <1>2, RecoverStops

\* Whatever the log holds, recoverWAL's loop ends with the map and the count
\* that Recover and Parsed define.
THEOREM RecoveryIsReplay == Spec => RecoverIsReplay
<1>1. TypeOK /\ ReplayInv /\ [Next]_vars =>
        [pc = "recover" /\ pc' = "idle" =>
            files' = Recover(wal) /\ walCount' = Cardinality(Parsed(wal))]_vars
  <2> SUFFICES ASSUME TypeOK, ReplayInv, Next, pc = "recover", pc' = "idle"
               PROVE  files' = Recover(wal) /\ walCount' = Cardinality(Parsed(wal))
    OBVIOUS
  <2>1. Recovered
    BY DEF Next, Start, RecoverLine, Mutate, WriteRecord, WriteError, TornCrash, Count,
       OpenTmp, CopyRecord, RenameTmp, Reopen, CompactAbort, Crash
  <2> QED BY <2>1, ReplayEnds
<1> QED BY <1>1, WalTyping, ReplayInvariant, PTL DEF Spec, RecoverIsReplay

-----------------------------------------------------------------------------
(* Compaction *)

\* While the temporary file is being written it is an undamaged log of the
\* files already copied, if their records are readable at all.
CopyInv ==
    pc = "copy" /\ Readable =>
        /\ left \subseteq Present(files)
        /\ tmp \in Seq(Record)
        /\ Recover(tmp) = [f \in Name |-> IF f \in left THEN Absent ELSE files[f]]
        /\ Len(tmp) + Cardinality(left) = Cardinality(Present(files))

HealInv == CopyInv /\ CompactionHeals

\* The temporary file and the log that replaces it are right throughout, also
\* when an abandoned compaction has left records in the temporary file.
LEMMA HealInvariant == Spec => []HealInv
<1>1. Init => HealInv
  BY DEF Init, HealInv, CopyInv, CompactionHeals
<1>2. TypeOK /\ HealInv /\ [Next]_vars => HealInv'
  <2> SUFFICES ASSUME TypeOK, HealInv, [Next]_vars PROVE HealInv'
    OBVIOUS
  <2>1. CASE OpenTmp
    <3>1. Recover(tmp') = [f \in Name |-> Absent]
      BY <2>1, RecoverEmpty DEF OpenTmp
    <3>2. IsFiniteSet(Present(files))
      BY FiniteNames, FS_Subset DEF Present
    <3>3. Cardinality(Present(files)) \in Nat
      BY <3>2, FS_CardinalityType
    <3>4. \A f \in Name : f \notin Present(files) => files[f] = Absent
      BY DEF Present
    <3>5. CopyInv'
      <4>1. /\ files' = files /\ tmp' = <<>> /\ left' = Present(files)
            /\ Present(files)' = Present(files)
        BY <2>1 DEF OpenTmp, Present
      <4>2. Recover(tmp)' = [f \in Name |-> IF f \in left THEN Absent ELSE files[f]]'
        BY <3>1, <3>4, <4>1
      <4>3. Len(tmp') + Cardinality(left') = Cardinality(Present(files))
        BY <3>3, <4>1
      <4> QED BY <4>1, <4>2, <4>3 DEF CopyInv
    <3> QED BY <2>1, <3>5 DEF OpenTmp, HealInv, CompactionHeals
  <2>2. ASSUME NEW f \in Name, CopyRecord(f)
        PROVE  HealInv'
    <3> DEFINE r == [name |-> f, meta |-> files[f]]
    <3>a. files' = files /\ pc' = "copy" /\ Readable' = Readable
      BY <2>2 DEF CopyRecord, Readable
    <3>b. CASE ~Readable
      BY <3>a, <3>b DEF HealInv, CopyInv, CompactionHeals
    <3>c. SUFFICES ASSUME Readable PROVE HealInv'
      BY <3>b
    <3>1. r \in Record /\ LineOf(r) = r
      BY <3>c DEF TypeOK, Record, LineOf, Readable
    <3>2. /\ pc = "copy" /\ f \in left /\ left' = left \ {f}
          /\ tmp' = Append(tmp, r)
          /\ UNCHANGED <<files, wal, eol, walCount, pc>>
      BY <2>2, <3>1 DEF CopyRecord
    <3>3. /\ left \subseteq Present(files) /\ tmp \in Seq(Record)
          /\ Recover(tmp) = [g \in Name |-> IF g \in left THEN Absent ELSE files[g]]
          /\ Len(tmp) + Cardinality(left) = Cardinality(Present(files))
      BY <3>2, <3>c DEF HealInv, CopyInv
    <3>4. Recover(tmp') = [Recover(tmp) EXCEPT ![f] = files[f]]
      BY <3>1, <3>2, <3>3, RecoverAppend
    <3>5. IsFiniteSet(left)
      BY <3>3, FiniteNames, FS_Subset DEF TypeOK
    <3>6. Cardinality(left) \in Nat /\ Cardinality(left \ {f}) = Cardinality(left) - 1
      BY <3>2, <3>5, FS_CardinalityType, FS_RemoveElement
    <3>7. tmp' \in Seq(Record) /\ Len(tmp') = Len(tmp) + 1 /\ Len(tmp) \in Nat
      BY <3>1, <3>2, <3>3
    <3>8. Recover(tmp') = [g \in Name |-> IF g \in left' THEN Absent ELSE files[g]]
      BY <3>2, <3>3, <3>4
    <3>9. Len(tmp') + Cardinality(left') = Cardinality(Present(files))
      BY <3>2, <3>3, <3>6, <3>7
    <3>10. left' \subseteq Present(files) /\ Present(files') = Present(files)
      BY <3>2, <3>3
    <3> QED
      BY <3>2, <3>7, <3>8, <3>9, <3>10 DEF HealInv, CopyInv, CompactionHeals, Present
  <2>3. CASE RenameTmp
    <3>a. files' = files /\ pc = "copy" /\ pc' = "reopen" /\ Readable' = Readable
      BY <2>3 DEF RenameTmp, Readable
    <3>b. CASE ~Readable
      BY <3>a, <3>b DEF HealInv, CopyInv, CompactionHeals
    <3>c. SUFFICES ASSUME Readable PROVE HealInv'
      BY <3>b
    <3>1. /\ tmp \in Seq(Record) /\ left = {} /\ wal' = tmp /\ eol' = TRUE
          /\ files' = files /\ pc' = "reopen"
          /\ Recover(tmp) = [f \in Name |-> IF f \in left THEN Absent ELSE files[f]]
          /\ Len(tmp) + Cardinality(left) = Cardinality(Present(files))
      BY <2>3, <3>c DEF RenameTmp, HealInv, CopyInv
    <3>2. Recover(wal') = files'
      BY <3>1 DEF TypeOK
    <3>3. Len(wal') = Cardinality(Present(files'))
      BY <3>1, FS_EmptySet
    <3> QED BY <3>1, <3>2, <3>3 DEF HealInv, CopyInv, CompactionHeals
  <2>4. CASE pc' \in {"down", "recover", "idle", "append", "count", "open"}
    BY <2>4 DEF HealInv, CopyInv, CompactionHeals
  <2>5. CASE UNCHANGED vars
    BY <2>5, Zenon DEF vars, log, HealInv, CopyInv, CompactionHeals, Readable
  <2>6. Next => \/ OpenTmp \/ (\E f \in Name : CopyRecord(f)) \/ RenameTmp
                \/ pc' \in {"down", "recover", "idle", "append", "count", "open"}
    BY Zenon DEF Next, Start, RecoverLine, Recovered, Mutate, WriteRecord, WriteError, TornCrash,
       Count, Reopen, CompactAbort, Crash
  <2> QED BY <2>1, <2>2, <2>3, <2>4, <2>5, <2>6
<1> QED BY <1>1, <1>2, WalTyping, PTL DEF Spec

\* A finished compaction repairs the log, for every way Write may fail and
\* every way a crash may cut the log before it, as long as no file it copies
\* has metadata that outgrows the scanner's buffer.
THEOREM HealedByCompaction == Spec => []CompactionHeals
<1>1. HealInv => CompactionHeals
  BY DEF HealInv
<1> QED BY <1>1, HealInvariant, PTL

-----------------------------------------------------------------------------
(* An undamaged log *)

\* The relation of the log to the map at every point of a change, when no
\* Write fails half-way and no crash cuts one.
ExactInv ==
    /\ wal \in Seq(Record) /\ eol
    /\ pc \in {"idle", "count", "open", "copy", "reopen"} => Recover(wal) = files
    /\ pc = "append" => files = [Recover(wal) EXCEPT ![rec.name] = rec.meta]
    /\ pc \in {"idle", "append", "open", "copy"} => walCount = Len(wal)
    /\ pc = "count" => walCount + 1 = Len(wal)

\* The environment those theorems assume: every Write and every record is
\* whole, or a crash comes before the first byte.
WholeWrites == LongMeta = {} /\ Errors = {} /\ Tears \subseteq {"nothing"}

\* Appending, compacting, crashing and recovering keep the log exact.
LEMMA ExactInvariant ==
  ASSUME WholeWrites
  PROVE  Spec => []ExactInv
<1>1. Init => ExactInv
  BY DEF Init, ExactInv
<1>2. TypeOK /\ ReplayInv /\ HealInv /\ HealInv' /\ ExactInv /\ [Next]_vars => ExactInv'
  <2> SUFFICES ASSUME TypeOK, ReplayInv, HealInv, HealInv', ExactInv, [Next]_vars
               PROVE  ExactInv'
    OBVIOUS
  <2>1. CASE Start
    BY <2>1 DEF Start, ExactInv, log
  <2>a. CASE RecoverLine
    BY <2>a DEF RecoverLine, ExactInv, log
  <2>b. CASE Recovered
    <3>1. Cardinality(Parsed(wal)) = Len(wal)
      <4>1. wal \in Seq(Record) /\ Len(wal) \in Nat
        BY DEF ExactInv
      <4>2. Parsed(wal) = 1..Len(wal)
        BY <4>1, ParsedClean
      <4> QED BY <4>1, <4>2, FS_Interval
    <3>2. files' = Recover(wal) /\ walCount' = Len(wal)
      BY <2>b, <3>1, ReplayEnds
    <3> QED BY <2>b, <3>2 DEF Recovered, ExactInv, log
  <2>2. ASSUME NEW f \in Name, NEW v \in Meta \cup {Absent}, Mutate(f, v)
        PROVE  ExactInv'
    BY <2>2 DEF Mutate, ExactInv, log
  <2>3. CASE WriteRecord
    <3>1. rec \in Record /\ LineOf(rec) = rec
      BY DEF TypeOK, LineOf, WholeWrites
    <3>2. wal' = Append(wal, rec) /\ eol' = TRUE
      BY <2>3, <3>1 DEF WriteRecord, AppendLine, ExactInv
    <3>3. Recover(wal') = [Recover(wal) EXCEPT ![rec.name] = rec.meta]
      BY <3>1, <3>2, RecoverAppend DEF ExactInv
    <3>4. Len(wal') = Len(wal) + 1 /\ wal' \in Seq(Record)
      BY <3>1, <3>2 DEF ExactInv
    <3> QED BY <2>3, <3>2, <3>3, <3>4 DEF WriteRecord, ExactInv
  <2>4. ASSUME NEW k \in Tears, TornCrash(k)
        PROVE  ExactInv'
    <3>1. k = "nothing"
      BY DEF WholeWrites
    <3> QED BY <2>4, <3>1 DEF TornCrash, AppendCut, EolAfter, ExactInv
  <2>5. CASE Count
    BY <2>5 DEF Count, ExactInv, log
  <2>6. CASE OpenTmp
    BY <2>6 DEF OpenTmp, ExactInv
  <2>7. ASSUME NEW f \in Name, CopyRecord(f)
        PROVE  ExactInv'
    BY <2>7 DEF CopyRecord, ExactInv
  <2>8. CASE RenameTmp
    <3>1. Recover(wal') = files' /\ eol' = TRUE /\ wal' \in Seq(Record)
      BY <2>8 DEF RenameTmp, HealInv, CopyInv, CompactionHeals, Readable, WholeWrites
    <3> QED BY <2>8, <3>1 DEF RenameTmp, ExactInv
  <2>9. CASE Reopen
    BY <2>9 DEF Reopen, ExactInv, log, HealInv, CompactionHeals, Readable, WholeWrites
  <2>10. CASE CompactAbort
    BY <2>10 DEF CompactAbort, ExactInv, log
  <2>11. CASE Crash
    BY <2>11 DEF Crash, ExactInv, log
  <2>12. CASE UNCHANGED vars
    BY <2>12, Zenon DEF vars, log, ExactInv
  <2>13. ASSUME NEW k \in Errors, WriteError(k)
         PROVE  ExactInv'
    BY DEF WholeWrites
  <2> QED
    BY <2>1, <2>2, <2>3, <2>4, <2>5, <2>6, <2>7, <2>8, <2>9, <2>10, <2>11,
       <2>12, <2>13, <2>a, <2>b DEF Next
<1> QED BY <1>1, <1>2, HealInvariant, ReplayInvariant, WalTyping, PTL DEF Spec

\* Whenever no change is under way a restart would rebuild the map exactly.
THEOREM RecoveryIsExact ==
  ASSUME WholeWrites
  PROVE  Spec => []RecoveryExact
<1>1. ExactInv => RecoveryExact
  BY DEF ExactInv, RecoveryExact
<1> QED BY <1>1, ExactInvariant, PTL

\* walCount is the length of the log whenever no change is under way.
THEOREM CountIsExact ==
  ASSUME WholeWrites
  PROVE  Spec => []CountExact
<1>1. ExactInv => CountExact
  BY DEF ExactInv, CountExact
<1> QED BY <1>1, ExactInvariant, PTL

-----------------------------------------------------------------------------
(* Refinement *)

\* The log, its compaction and its recovery implement a map whose changes are
\* durable by the time they end: a crash loses at most the change under way.
THEOREM LogImplementsDurableFiles ==
  ASSUME WholeWrites
  PROVE  Spec => ImplementsDurableFiles
<1>1. Init => Promise!Init
  BY RecoverEmpty DEF Init, Promise!Init
<1>2. ExactInv /\ ExactInv' /\ ReplayInv /\ TypeOK /\ [Next]_vars => [Promise!Next]_(Promise!vars)
  <2> SUFFICES ASSUME ExactInv, ExactInv', ReplayInv, TypeOK, [Next]_vars
               PROVE  Promise!Next \/ UNCHANGED Promise!vars
    BY DEF Promise!vars
  <2> USE DEF Promise!vars, log
  <2>1. CASE Start
    BY <2>1 DEF Start
  <2>a. CASE RecoverLine
    BY <2>a DEF RecoverLine
  <2>b. CASE Recovered
    <3>1. files' = Recover(wal)
      BY <2>b, ReplayEnds
    <3> QED BY <2>b, <3>1 DEF Recovered
  <2>2. ASSUME NEW f \in Name, NEW v \in Meta \cup {Absent}, Mutate(f, v)
        PROVE  Promise!Next
    <3>1. Promise!Begin(f, v)
      BY <2>2 DEF Mutate, Promise!Begin
    <3> QED BY <3>1 DEF Promise!Next
  <2>3. CASE WriteRecord
    <3>1. Promise!Persist
      BY <2>3 DEF WriteRecord, Promise!Persist, ExactInv
    <3> QED BY <3>1 DEF Promise!Next
  <2>4. ASSUME NEW k \in Tears, TornCrash(k)
        PROVE  Promise!Next
    <3>1. wal' = wal
      BY <2>4 DEF WholeWrites, TornCrash, AppendCut
    <3>2. Promise!Crash
      BY <2>4, <3>1 DEF TornCrash, Promise!Crash
    <3> QED BY <3>2 DEF Promise!Next
  <2>5. CASE Count
    <3>1. CASE pc' = "open"
      BY <2>5, <3>1 DEF Count
    <3>2. CASE pc' = "idle"
      <4>1. Promise!End
        BY <2>5, <3>2 DEF Count, Promise!End, ExactInv
      <4> QED BY <4>1 DEF Promise!Next
    <3> QED BY <2>5, <3>1, <3>2 DEF Count
  <2>6. CASE OpenTmp
    BY <2>6 DEF OpenTmp
  <2>7. ASSUME NEW f \in Name, CopyRecord(f)
        PROVE  UNCHANGED Promise!vars
    BY <2>7 DEF CopyRecord
  <2>8. CASE RenameTmp
    BY <2>8 DEF RenameTmp, ExactInv
  <2>9. CASE Reopen
    <3>1. Promise!End
      BY <2>9 DEF Reopen, Promise!End, ExactInv
    <3> QED BY <3>1 DEF Promise!Next
  <2>10. CASE CompactAbort
    <3>1. Promise!End
      BY <2>10 DEF CompactAbort, Promise!End, ExactInv
    <3> QED BY <3>1 DEF Promise!Next
  <2>11. CASE Crash
    <3>1. Promise!Crash
      BY <2>11 DEF Crash, Promise!Crash
    <3> QED BY <3>1 DEF Promise!Next
  <2>12. CASE UNCHANGED vars
    BY <2>12 DEF vars
  <2>13. ASSUME NEW k \in Errors, WriteError(k)
         PROVE  Promise!Next
    BY DEF WholeWrites
  <2> QED
    BY <2>1, <2>2, <2>3, <2>4, <2>5, <2>6, <2>7, <2>8, <2>9, <2>10, <2>11,
       <2>12, <2>13, <2>a, <2>b DEF Next
<1> QED BY <1>1, <1>2, ExactInvariant, ReplayInvariant, WalTyping, PTL
        DEF Spec, ImplementsDurableFiles, Promise!Spec
=============================================================================

------------------------------ MODULE WalFile -------------------------------
(***************************************************************************)
(* The controller's write-ahead log (dfs/controller/wal.go): the file map  *)
(* in memory, the log on disk, the append of one record per change, the    *)
(* compaction of the log through a temporary file, crashes at any point    *)
(* and recovery, line by line.                                             *)
(*                                                                         *)
(* recoverWAL, appendWalRecord and compactWAL run under filesMutex, so one *)
(* of them is under way at a time and only a crash can interrupt it; pc is *)
(* the place it has reached.                                               *)
(***************************************************************************)
EXTENDS Integers, Sequences, FiniteSets

CONSTANTS
    Name,      \* file names
    Meta,      \* metadata of a file (chunks and where their copies are)
    LongMeta,  \* the metadata whose JSON does not fit the scanner's buffer
    Absent,    \* what the map holds for a name that has no file
    Torn,      \* a line of the log that json.Unmarshal rejects
    Overlong,  \* a line longer than the scanner's buffer
    Errors,    \* where a failing Write may stop
    Tears,     \* where a crash may cut the Write under way
    CompactAt, \* number of records at which the log is compacted
    MaxLog     \* bound: no change begins once the log has this many lines

\* How much of a record's line reached the file: a part of its JSON, or all
\* of it but the newline.  (Cutting before the first byte leaves "nothing".)
Cut == {"nothing", "fragment", "no newline"}

ASSUME WalAssumption ==
    /\ LongMeta \subseteq Meta
    /\ Absent \notin Meta
    /\ Errors \subseteq Cut
    /\ Tears \subseteq Cut
    /\ CompactAt \in Nat \ {0}
    /\ MaxLog \in Nat

ASSUME FiniteNames == IsFiniteSet(Name) /\ Name # {}

\* A log record: PUT of the file's whole metadata, or DELETE (meta = Absent).
Record == [name : Name, meta : Meta \cup {Absent}]

ASSUME LineAssumption == Torn \notin Record /\ Overlong \notin Record /\ Torn # Overlong

Line == Record \cup {Torn, Overlong}

VARIABLES
    files,     \* c.files: the map in memory, meaningful while pc # "down"
    wal,       \* the lines of the log file
    eol,       \* the log file ends with a newline (or is empty)
    tmp,       \* the lines of the temporary file compaction writes
    walCount,  \* c.walCount
    pc,        \* where the change under filesMutex is; "down": no controller
    read,      \* lines of the log recoverWAL's scanner has passed
    rec,       \* the record being appended
    left       \* files compaction has still to copy

log == <<wal, eol, tmp>>
vars == <<files, log, walCount, pc, read, rec, left>>
-----------------------------------------------------------------------------
(***************************************************************************)
(* What a log stands for: of the lines before the first one that overflows *)
(* the scanner's buffer, the last one that parses decides for its name.    *)
(***************************************************************************)
Parsed(w) ==
    {i \in DOMAIN w : w[i] # Torn /\ \A j \in 1..i : w[j] # Overlong}

Touching(w, f) == {i \in Parsed(w) : w[i].name = f}

Latest(S) == CHOOSE i \in S : \A j \in S : j <= i

Recover(w) ==
    [f \in Name |-> IF Touching(w, f) = {} THEN Absent
                    ELSE w[Latest(Touching(w, f))].meta]

Present(m) == {f \in Name : m[f] # Absent}

\* The line a record becomes, and the line it becomes when the one before it
\* has no newline: two JSON values on one line do not parse.
LineOf(r) == IF r.meta \in LongMeta THEN Overlong ELSE r

Joined(l, r) == IF Overlong \in {l, LineOf(r)} THEN Overlong ELSE Torn

AppendLine(w, terminated, r) ==
    IF terminated THEN Append(w, LineOf(r))
    ELSE [w EXCEPT ![Len(w)] = Joined(w[Len(w)], r)]

\* What the log is after only a part of r was written.
AppendCut(w, terminated, r, k) ==
    CASE k = "nothing" -> w
      [] k = "fragment" /\ terminated -> Append(w, Torn)
      [] k = "fragment" /\ ~terminated -> [w EXCEPT ![Len(w)] = Joined(w[Len(w)], r)]
      [] k = "no newline" -> AppendLine(w, terminated, r)

EolAfter(terminated, k) == IF k = "nothing" THEN terminated ELSE FALSE
-----------------------------------------------------------------------------
Init ==
    /\ files = [f \in Name |-> Absent]
    /\ wal = <<>>
    /\ eol = TRUE
    /\ tmp = <<>>
    /\ walCount = 0
    /\ pc = "down"
    /\ read = 0
    /\ rec = [name |-> CHOOSE f \in Name : TRUE, meta |-> Absent]
    /\ left = {}

\* The controller starts, with nothing in memory, and calls recoverWAL.
Start ==
    /\ pc = "down"
    /\ files' = [f \in Name |-> Absent]
    /\ walCount' = 0
    /\ pc' = "recover"
    /\ UNCHANGED <<log, read, rec, left>>

\* Mutant: records read back are not counted.
RecoverUncounted ==
    /\ pc = "recover" /\ read < Len(wal) /\ wal[read + 1] # Overlong
    /\ IF wal[read + 1] = Torn THEN UNCHANGED files
       ELSE files' = [files EXCEPT ![wal[read + 1].name] = wal[read + 1].meta]
    /\ read' = read + 1
    /\ UNCHANGED <<log, walCount, pc, rec, left>>

\* A turn of the scanner loop: a line that does not parse is skipped, a
\* record is counted and sets or deletes its file's entry.
RecoverLine ==
    /\ pc = "recover" /\ read < Len(wal) /\ wal[read + 1] # Overlong
    /\ IF wal[read + 1] = Torn THEN UNCHANGED <<files, walCount>>
       ELSE /\ files' = [files EXCEPT ![wal[read + 1].name] = wal[read + 1].meta]
            /\ walCount' = walCount + 1
    /\ read' = read + 1
    /\ UNCHANGED <<log, pc, rec, left>>

\* Mutant: a line that does not parse ends the recovery.
RecoveredAtTorn ==
    /\ pc = "recover"
    /\ read < Len(wal) => wal[read + 1] \in {Torn, Overlong}
    /\ pc' = "idle"
    /\ read' = 0
    /\ UNCHANGED <<files, log, walCount, rec, left>>

\* The scanner is at the end of the log or at a line that overflows its
\* buffer; initWAL opens the log for appending.
Recovered ==
    /\ pc = "recover"
    /\ read < Len(wal) => wal[read + 1] = Overlong
    /\ pc' = "idle"
    /\ read' = 0
    /\ UNCHANGED <<files, log, walCount, rec, left>>

\* A handler changes c.files under filesMutex and calls appendWalRecord:
\* a PUT of any metadata, unchanged metadata included, or the DELETE of a
\* file that exists.
Mutate(f, v) ==
    /\ pc = "idle"
    /\ Len(wal) < MaxLog
    /\ v = Absent => files[f] # Absent
    /\ files' = [files EXCEPT ![f] = v]
    /\ rec' = [name |-> f, meta |-> v]
    /\ pc' = "append"
    /\ UNCHANGED <<log, walCount, read, left>>

WriteRecord ==
    /\ pc = "append"
    /\ wal' = AppendLine(wal, eol, rec)
    /\ eol' = TRUE
    /\ pc' = "count"
    /\ UNCHANGED <<files, tmp, walCount, read, rec, left>>

\* Write fails: the error is logged and the handler carries on.
WriteError(k) ==
    /\ pc = "append"
    /\ wal' = AppendCut(wal, eol, rec, k)
    /\ eol' = EolAfter(eol, k)
    /\ pc' = "idle"
    /\ UNCHANGED <<files, tmp, walCount, read, rec, left>>

\* The controller dies in the middle of Write.
TornCrash(k) ==
    /\ pc = "append"
    /\ wal' = AppendCut(wal, eol, rec, k)
    /\ eol' = EolAfter(eol, k)
    /\ pc' = "down"
    /\ UNCHANGED <<files, tmp, walCount, read, rec, left>>

\* The record is synced and counted; enough of them start a compaction.
Count ==
    /\ pc = "count"
    /\ walCount' = walCount + 1
    /\ pc' = IF walCount + 1 >= CompactAt THEN "open" ELSE "idle"
    /\ UNCHANGED <<files, log, read, rec, left>>

\* Mutant: the temporary file is opened without O_TRUNC.
OpenTmpUntruncated ==
    /\ pc = "open"
    /\ left' = Present(files)
    /\ pc' = "copy"
    /\ UNCHANGED <<files, log, walCount, read, rec>>

\* compactWAL: the temporary file is opened with O_TRUNC ...
OpenTmp ==
    /\ pc = "open"
    /\ tmp' = <<>>
    /\ left' = Present(files)
    /\ pc' = "copy"
    /\ UNCHANGED <<files, wal, eol, walCount, read, rec>>

\* ... receives one PUT per file, in the order of a map iteration ...
CopyRecord(f) ==
    /\ pc = "copy"
    /\ f \in left
    /\ tmp' = Append(tmp, LineOf([name |-> f, meta |-> files[f]]))
    /\ left' = left \ {f}
    /\ UNCHANGED <<files, wal, eol, walCount, pc, read, rec>>

\* Mutant: renamed before every file is copied.
RenameTmpEarly ==
    /\ pc = "copy"
    /\ wal' = tmp
    /\ eol' = TRUE
    /\ tmp' = <<>>
    /\ pc' = "reopen"
    /\ UNCHANGED <<files, walCount, read, rec, left>>

\* ... and replaces the log in one step,
RenameTmp ==
    /\ pc = "copy"
    /\ left = {}
    /\ wal' = tmp
    /\ eol' = TRUE
    /\ tmp' = <<>>
    /\ pc' = "reopen"
    /\ UNCHANGED <<files, walCount, read, rec, left>>

\* Mutant: the count after a compaction leaves one record out.
ReopenOffByOne ==
    /\ pc = "reopen"
    /\ walCount' = Cardinality(Present(files)) - 1
    /\ pc' = "idle"
    /\ UNCHANGED <<files, log, read, rec, left>>

\* which is then opened for appending.
Reopen ==
    /\ pc = "reopen"
    /\ walCount' = Cardinality(Present(files))
    /\ pc' = "idle"
    /\ UNCHANGED <<files, log, read, rec, left>>

\* Opening, writing or renaming the temporary file fails: the log stays.
CompactAbort ==
    /\ pc \in {"open", "copy"}
    /\ pc' = "idle"
    /\ UNCHANGED <<files, log, walCount, read, rec, left>>

Crash ==
    /\ pc # "down"
    /\ pc' = "down"
    /\ read' = 0
    /\ UNCHANGED <<files, log, walCount, rec, left>>

Next ==
    \/ Start \/ RecoverLine \/ Recovered
    \/ \E f \in Name, v \in Meta \cup {Absent} : Mutate(f, v)
    \/ WriteRecord
    \/ \E k \in Errors : WriteError(k)
    \/ \E k \in Tears : TornCrash(k)
    \/ Count
    \/ OpenTmp
    \/ \E f \in Name : CopyRecord(f)
    \/ RenameTmp
    \/ Reopen
    \/ CompactAbort
    \/ Crash

Spec == Init /\ [][Next]_vars
-----------------------------------------------------------------------------
TypeOK ==
    /\ files \in [Name -> Meta \cup {Absent}]
    /\ wal \in Seq(Line)
    /\ eol \in BOOLEAN
    /\ ~eol => wal # <<>>
    /\ tmp \in Seq(Line)
    /\ walCount \in Nat
    /\ read \in 0..Len(wal) /\ (read # 0 => pc = "recover")
    /\ pc \in {"down", "recover", "idle", "append", "count", "open", "copy", "reopen"}
    /\ rec \in Record
    /\ left \subseteq Name

\* A restart ends with the map and the count the log stands for, whatever
\* crashes, failed writes and compactions have left in it: recoverWAL's loop,
\* which goes on after lines that do not parse and stops at one that overflows
\* its buffer, yields the last readable record of every name.
RecoverIsReplay ==
    [][pc = "recover" /\ pc' = "idle" =>
           files' = Recover(wal) /\ walCount' = Cardinality(Parsed(wal))]_vars

\* Whenever no change is under way, restarting the controller would rebuild
\* exactly the map it has: no acknowledged PUT is lost and no deleted file
\* comes back (appendWalRecord, compactWAL and recoverWAL together).
RecoveryExact == pc = "idle" => Recover(wal) = files

\* Every file's record fits the scanner's buffer.
Readable == \A f \in Name : files[f] \notin LongMeta

\* A finished compaction of readable metadata leaves a log that rebuilds the
\* map in memory with one record per file and ends in a newline, whatever
\* torn, glued or overlong lines the old log held and however many earlier
\* compactions were abandoned half-way (compactWAL opens its temporary file
\* with O_TRUNC).
CompactionHeals ==
    pc = "reopen" /\ Readable => /\ Recover(wal) = files
                                 /\ eol
                                 /\ Len(wal) = Cardinality(Present(files))

\* walCount, which decides when to compact, stays the number of records in
\* the log across appends, aborted and finished compactions, crashes and
\* recoveries (appendWalRecord counts one, compactWAL resets to len(files),
\* recoverWAL counts afresh).
CountExact == pc = "idle" => walCount = Len(wal)

\* The log implements a map whose changes are durable when they end.
Promise == INSTANCE DurableFiles WITH
    view <- IF pc \in {"down", "recover"} THEN Recover(wal) ELSE files,
    durable <- Recover(wal),
    busy <- pc \notin {"down", "recover", "idle"}

ImplementsDurableFiles == Promise!Spec
=============================================================================

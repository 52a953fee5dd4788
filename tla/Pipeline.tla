------------------------------ MODULE Pipeline ------------------------------
(***************************************************************************)
(* What happens to the bytes of an input file on their way through a job:  *)
(* the client cuts the file into chunks (calculateChunks), a map task per  *)
(* chunk scans its lines and spills sorted partitions (runMap, spill) that *)
(* it merges (mergeSpills), a reduce task fetches its partition of every   *)
(* map task (shuffle, handleFetchIntermediate), sorts them externally in   *)
(* batches (ExternalSort), groups the values of a key into one line and    *)
(* reduces the lines (runReduce).                                          *)
(*                                                                         *)
(* A byte is a number.  Keys are single bytes, compared as numbers, and    *)
(* never a tab or a newline; values never contain a newline and never end  *)
(* in a carriage return, so that a record is one line of its file and is   *)
(* read as it was written.  Offsets into spill and intermediate files      *)
(* count records.  Tasks are independent of each other (JobMaster has      *)
(* their interleavings and failures, the disk's among them), so they run   *)
(* one after the other here and every fetch and write succeeds.            *)
(***************************************************************************)
EXTENDS Integers, SequencesExt

CONSTANTS
    Byte,         \* the bytes considered, as numbers
    Files,        \* the input files considered, sequences of bytes
    Newline,      \* the byte '\n'
    Return,       \* the byte '\r'
    Comma,        \* the byte ','
    MapFunc(_),   \* the plugin's Map: the key-value pairs of a line
    NumReducers,  \* reduce tasks
    Partition(_), \* ihash(key) % numReducers
    MaxChunkSize, \* bytes, of a chunk of a file that is not text
    SpillSize,    \* pairs buffered before a spill (10000)
    BatchSize,    \* files merged at a time (100)
    MaxToken,     \* longest line a scanner takes (one byte less than 16 MiB)
    Wrap,         \* 2^w, w the width of a chunk's size (uint32)
    MaxChunks     \* bound: chunks of a file

Reducer == 0..NumReducers - 1

Pair == Byte \X Seq(Byte)

Key(kv) == kv[1]
Value(kv) == kv[2]

EndsIn(s, b) == s # <<>> /\ Last(s) = b

\* A record that is one line of a file, as the code writes and reads it.
OneLine(kv) ==
    /\ Newline \notin {Key(kv)} \cup Range(Value(kv))
    /\ ~EndsIn(Value(kv), Return)

ASSUME PipelineAssumption ==
    /\ Byte \subseteq Nat /\ {Newline, Return, Comma} \subseteq Byte
    /\ Files \subseteq Seq(Byte)
    /\ \A line \in BoundedSeq(Byte, MaxToken) :
          /\ MapFunc(line) \in Seq(Pair)
          /\ \A i \in DOMAIN MapFunc(line) : OneLine(MapFunc(line)[i])
    /\ Wrap \in Nat /\ MaxChunkSize \in 1..Wrap - 1
    /\ SpillSize \in Nat \ {0}
    /\ BatchSize \in Nat \ {0, 1}
    /\ NumReducers \in Nat \ {0}
    /\ MaxToken \in Nat /\ MaxChunks \in Nat

VARIABLES
    file,    \* the input
    isText,  \* its name ends in .txt
    chunks,  \* the chunks cut so far
    at,      \* what the program does
    now,     \* the map task or the reduce task it does that for
    pairs,   \* runMap: pairs not yet spilled
    spills,  \* runMap: spill files, each one sorted partition per reducer
    inter,   \* per map task: the intermediate file and its index
    heap,    \* a merge: what the scanner of each of its files has left to read
    out,     \* a merge: the file it writes
    inputs,  \* ExternalSort: files still to merge
    temps,   \* ExternalSort: temporary files of this level
    fetched, \* shuffle: map tasks whose partition has been fetched
    result   \* per reducer: the lines of the result file

mapVars == <<pairs, spills>>
mergeVars == <<heap, out>>
sortVars == <<inputs, temps, fetched>>
vars == <<file, isText, chunks, at, now, mapVars, inter, mergeVars, sortVars, result>>
-----------------------------------------------------------------------------
(* Operators on bytes and records.                                         *)

\* bytes.Split: the pieces between separators, one more than there are.
Split(s, sep) ==
    LET pieces[i \in 0..Len(s)] ==
            IF i = 0 THEN << <<>> >>
            ELSE LET p == pieces[i - 1] IN
                 IF s[i] = sep THEN Append(p, <<>>)
                 ELSE [p EXCEPT ![Len(p)] = Append(@, s[i])]
    IN pieces[Len(s)]

\* bufio.ScanLines: what follows the last newline is a line unless empty.
Lines(s) ==
    LET pieces == Split(s, Newline) IN
    IF Last(pieces) = <<>> THEN Front(pieces) ELSE pieces

\* A scanner stops at the first token that is too long: runMap and runReduce
\* log the error and go on with what they have, and nobody asks a KVScanner
\* for its error.
Until(s, Long(_)) ==
    LET i == SelectInSeq(s, Long) IN IF i = 0 THEN s ELSE SubSeq(s, 1, i - 1)

Scanned(tokens) == Until(tokens, LAMBDA t : Len(t) > MaxToken)

\* The line of a record has its key, a tab and its value.
Overlong(kv) == Len(Value(kv)) + 2 > MaxToken

\* What a KVScanner gives of a file's records.
Readable(records) == Until(records, Overlong)

MapSeq(s, Op(_)) == [i \in DOMAIN s |-> Op(s[i])]

KeySorted(s) == \A i, j \in DOMAIN s : i < j => Key(s[i]) <= Key(s[j])

\* The pairs of s that are reducer r's, as sort.Slice sorts them by key: it
\* may leave equal keys in any order.
Partitions(s, r) ==
    LET mine == {i \in DOMAIN s : Partition(Key(s[i])) = r}
        places == 1..Cardinality(mine)
    IN {t \in {[i \in places |-> s[p[i]]] : p \in Bijection(places, mine)} : KeySorted(t)}

ChunkSum == Len(FlattenSeq(chunks))
-----------------------------------------------------------------------------
Init ==
    /\ file \in Files
    /\ isText \in BOOLEAN
    /\ chunks = <<>>
    /\ at = "cut"
    /\ now = 0
    /\ pairs = <<>> /\ spills = <<>> /\ inter = <<>>
    /\ heap = <<>> /\ out = <<>>
    /\ inputs = <<>> /\ temps = <<>> /\ fetched = {}
    /\ result = [r \in Reducer |-> <<>>]

\* The size of the text chunk that starts after offset bytes and is not the
\* last: up to and with the first newline at or after its last byte, or the
\* end of the file.
TextSize(offset) ==
    LET from == offset + MaxChunkSize
        nl == SelectInSubSeq(file, from, Len(file), LAMBDA b : b = Newline)
        extra == IF nl = 0 THEN Len(file) - from + 1 ELSE nl - from + 1
    IN (MaxChunkSize - 1 + extra) % Wrap

\* Mutant: extraBytes does not count the newline.
CutBeforeNewline ==
    /\ at = "cut" /\ ChunkSum < Len(file)
    /\ LET remaining == Len(file) - ChunkSum
           size == IF remaining <= MaxChunkSize THEN remaining
                   ELSE IF isText THEN TextSize(ChunkSum) - 1 ELSE MaxChunkSize
       IN chunks' = Append(chunks, SubSeq(file, ChunkSum + 1, ChunkSum + size))
    /\ Len(chunks) < MaxChunks
    /\ UNCHANGED <<file, isText, at, now, mapVars, inter, mergeVars, sortVars, result>>

\* One round of calculateChunks; put reads the chunks one after the other.
Cut ==
    /\ at = "cut" /\ ChunkSum < Len(file)
    /\ LET remaining == Len(file) - ChunkSum
           size == IF remaining <= MaxChunkSize THEN remaining
                   ELSE IF isText THEN TextSize(ChunkSum) ELSE MaxChunkSize
       IN chunks' = Append(chunks, SubSeq(file, ChunkSum + 1, ChunkSum + size))
    /\ Len(chunks) < MaxChunks
    /\ UNCHANGED <<file, isText, at, now, mapVars, inter, mergeVars, sortVars, result>>

\* The job's tasks: a map task per chunk, then the reduce tasks.
CutDone ==
    /\ at = "cut" /\ ChunkSum = Len(file)
    /\ IF chunks # <<>> THEN at' = "scan" /\ now' = 1 ELSE at' = "fetch" /\ now' = 0
    /\ UNCHANGED <<file, isText, chunks, mapVars, inter, mergeVars, sortVars, result>>
-----------------------------------------------------------------------------
(* runMap, for the chunk now.                                              *)

\* Map gets a line without the carriage return that it may end in.
MapLine(line) == MapFunc(IF EndsIn(line, Return) THEN Front(line) ELSE line)

\* What Map gives for the lines of a chunk that the scanner takes.
Mapped(chunk) == FlattenSeq(MapSeq(Scanned(Lines(chunk)), MapLine))

Scan ==
    /\ at = "scan"
    /\ pairs' = Mapped(chunks[now])
    /\ spills' = <<>>
    /\ at' = "spill"
    /\ UNCHANGED <<file, isText, chunks, now, inter, mergeVars, sortVars, result>>

\* A full buffer, or what the last one holds, partitioned and sorted.
Spill ==
    /\ at = "spill" /\ pairs # <<>>
    /\ LET n == IF Len(pairs) < SpillSize THEN Len(pairs) ELSE SpillSize
           parts(r) == Partitions(SubSeq(pairs, 1, n), r)
       IN /\ \E s \in [Reducer -> UNION {parts(r) : r \in Reducer}] :
                 /\ \A r \in Reducer : s[r] \in parts(r)
                 /\ spills' = Append(spills, s)
          /\ pairs' = SubSeq(pairs, n + 1, Len(pairs))
    /\ UNCHANGED <<file, isText, chunks, at, now, inter, mergeVars, sortVars, result>>

\* A KVScanner for the partition in each spill file.
SpillScanners(r) == MapSeq(spills, LAMBDA s : Readable(s[r]))

\* No scanner has a record left.
Exhausted == \A i \in DOMAIN heap : heap[i] = <<>>

\* mergeSpills creates the intermediate file and opens the first partition.
StartMerge ==
    /\ at = "spill" /\ pairs = <<>>
    /\ inter' = Append(inter, [data |-> <<>>, index |-> <<>>])
    /\ heap' = SpillScanners(0) /\ out' = <<>>
    /\ at' = "merge"
    /\ UNCHANGED <<file, isText, chunks, now, mapVars, sortVars, result>>

\* Mutant: a heap that does not compare keys.
PopAny ==
    /\ \E i \in DOMAIN heap :
          /\ heap[i] # <<>>
          /\ out' = Append(out, Head(heap[i]))
          /\ heap' = [heap EXCEPT ![i] = Tail(@)]
    /\ UNCHANGED <<file, isText, chunks, at, now, mapVars, inter, sortVars, result>>

\* Mutant: a scanner that was popped is not pushed again.
PopOnce ==
    /\ \E i \in DOMAIN heap :
          /\ heap[i] # <<>>
          /\ \A j \in DOMAIN heap :
                heap[j] # <<>> => Key(Head(heap[i])) <= Key(Head(heap[j]))
          /\ out' = Append(out, Head(heap[i]))
          /\ heap' = [heap EXCEPT ![i] = <<>>]
    /\ UNCHANGED <<file, isText, chunks, at, now, mapVars, inter, sortVars, result>>

\* mergeSpills and externalSortBatch: a scanner with the least key is popped
\* (ties in any order), its record written, and the scanner pushed again if
\* it has another.  One that has none is not on the heap.
Pop ==
    /\ \E i \in DOMAIN heap :
          /\ heap[i] # <<>>
          /\ \A j \in DOMAIN heap :
                heap[j] # <<>> => Key(Head(heap[i])) <= Key(Head(heap[j]))
          /\ out' = Append(out, Head(heap[i]))
          /\ heap' = [heap EXCEPT ![i] = Tail(@)]
    /\ UNCHANGED <<file, isText, chunks, at, now, mapVars, inter, sortVars, result>>

\* Mutant: the index gives the start of a partition for its end.
PartitionDoneEmpty ==
    /\ at = "merge" /\ Exhausted
    /\ LET r == Len(inter[now].index)
           start == Len(inter[now].data)
       IN /\ inter' = [inter EXCEPT ![now] =
                 [data |-> @.data \o out,
                  index |-> Append(@.index, <<start, start>>)]]
          /\ heap' = IF r + 1 \in Reducer THEN SpillScanners(r + 1) ELSE <<>>
          /\ IF r + 1 \in Reducer THEN UNCHANGED <<at, now>>
             ELSE IF now < Len(chunks) THEN at' = "scan" /\ now' = now + 1
             ELSE at' = "fetch" /\ now' = 0
    /\ out' = <<>>
    /\ UNCHANGED <<file, isText, chunks, mapVars, sortVars, result>>

\* mergeSpills has merged a partition and writes its line of the index; after
\* the last one the map task is done.
PartitionDone ==
    /\ at = "merge" /\ Exhausted
    /\ LET r == Len(inter[now].index)
           start == Len(inter[now].data)
       IN /\ inter' = [inter EXCEPT ![now] =
                 [data |-> @.data \o out,
                  index |-> Append(@.index, <<start, start + Len(out)>>)]]
          /\ heap' = IF r + 1 \in Reducer THEN SpillScanners(r + 1) ELSE <<>>
          /\ IF r + 1 \in Reducer THEN UNCHANGED <<at, now>>
             ELSE IF now < Len(chunks) THEN at' = "scan" /\ now' = now + 1
             ELSE at' = "fetch" /\ now' = 0
    /\ out' = <<>>
    /\ UNCHANGED <<file, isText, chunks, mapVars, sortVars, result>>
-----------------------------------------------------------------------------
(* shuffle and runReduce, for the reducer now.                             *)

\* What the index of map task t says is the reducer's, which
\* handleFetchIntermediate sends, or shuffle copies if the file is local.
PartitionOf(t, r) ==
    LET i == inter[t].index[r + 1] IN SubSeq(inter[t].data, i[1] + 1, i[2])

\* The map tasks come in any order.  A partition that is empty is passed over
\* when local, and is an empty file when fetched.
Fetch ==
    /\ at = "fetch"
    /\ \E t \in (1..Len(chunks)) \ fetched :
          /\ fetched' = fetched \cup {t}
          /\ \/ inputs' = Append(inputs, PartitionOf(t, now))
             \/ PartitionOf(t, now) = <<>> /\ inputs' = inputs
    /\ UNCHANGED <<file, isText, chunks, at, now, mapVars, inter, mergeVars, temps, result>>

FetchDone ==
    /\ at = "fetch" /\ fetched = 1..Len(chunks)
    /\ at' = "sort"
    /\ UNCHANGED <<file, isText, chunks, now, mapVars, inter, mergeVars, sortVars, result>>

\* ExternalSort merges the next batch of this level: the only one, and the
\* result is the sorted file, or one of several, and it is a temporary file.
StartBatch ==
    /\ at = "sort" /\ (inputs # <<>> \/ temps = <<>>)
    /\ LET n == IF Len(inputs) < BatchSize THEN Len(inputs) ELSE BatchSize
       IN /\ heap' = MapSeq(SubSeq(inputs, 1, n), Readable)
          /\ inputs' = SubSeq(inputs, n + 1, Len(inputs))
          /\ at' = IF Len(inputs) <= BatchSize /\ temps = <<>> THEN "last" ELSE "batch"
    /\ out' = <<>>
    /\ UNCHANGED <<file, isText, chunks, now, mapVars, inter, temps, fetched, result>>

BatchDone ==
    /\ at = "batch" /\ Exhausted
    /\ temps' = Append(temps, out)
    /\ at' = "sort" /\ heap' = <<>> /\ out' = <<>>
    /\ UNCHANGED <<file, isText, chunks, now, mapVars, inter, inputs, fetched, result>>

\* Mutant: the temporary files are passed on together with their own copies.
NextLevelTwice ==
    /\ at = "sort" /\ inputs = <<>> /\ temps # <<>>
    /\ inputs' = temps \o temps /\ temps' = <<>>
    /\ UNCHANGED <<file, isText, chunks, at, now, mapVars, inter, mergeVars, fetched, result>>

\* ExternalSort calls itself for the temporary files.
NextLevel ==
    /\ at = "sort" /\ inputs = <<>> /\ temps # <<>>
    /\ inputs' = temps /\ temps' = <<>>
    /\ UNCHANGED <<file, isText, chunks, at, now, mapVars, inter, mergeVars, fetched, result>>

\* Mutant: a record is compared with the first line, not with the last one.
MergedWithFirst(s) ==
    LET merged[i \in 0..Len(s)] ==
            IF i = 0 THEN <<>>
            ELSE LET m == merged[i - 1] IN
                 IF m = <<>> \/ Key(Head(m)) # Key(s[i]) THEN Append(m, s[i])
                 ELSE [m EXCEPT ![Len(m)] =
                          <<Key(s[i]), Value(@) \o <<Comma>> \o Value(s[i])>>]
    IN merged[Len(s)]

\* shuffle: records with the same key that follow each other become one line,
\* their values joined with commas.
Merged(s) ==
    LET merged[i \in 0..Len(s)] ==
            IF i = 0 THEN <<>>
            ELSE LET m == merged[i - 1] IN
                 IF m = <<>> \/ Key(Last(m)) # Key(s[i]) THEN Append(m, s[i])
                 ELSE [m EXCEPT ![Len(m)] =
                          <<Key(s[i]), Value(@) \o <<Comma>> \o Value(s[i])>>]
    IN merged[Len(s)]

\* runReduce calls Reduce for the lines its scanner takes, with the values a
\* line has when it is split at its commas.
Reduced(lines) ==
    MapSeq(Readable(lines), LAMBDA l : <<Key(l), Split(Value(l), Comma)>>)

\* Mutant: no last reducer.
ReduceOnceMore ==
    /\ at = "last" /\ Exhausted
    /\ result' = [result EXCEPT ![now] = Reduced(Merged(Readable(out)))]
    /\ at' = "fetch" /\ now' = now + 1
    /\ heap' = <<>> /\ out' = <<>> /\ fetched' = {}
    /\ UNCHANGED <<file, isText, chunks, mapVars, inter, inputs, temps>>

\* shuffle scans the sorted file, and runReduce what shuffle makes of it.
Reduce ==
    /\ at = "last" /\ Exhausted
    /\ result' = [result EXCEPT ![now] = Reduced(Merged(Readable(out)))]
    /\ IF now + 1 \in Reducer THEN at' = "fetch" /\ now' = now + 1
                              ELSE at' = "done" /\ UNCHANGED now
    /\ heap' = <<>> /\ out' = <<>> /\ fetched' = {}
    /\ UNCHANGED <<file, isText, chunks, mapVars, inter, inputs, temps>>
-----------------------------------------------------------------------------
Next ==
    \/ Cut \/ CutDone
    \/ Scan \/ Spill \/ StartMerge \/ Pop \/ PartitionDone
    \/ Fetch \/ FetchDone \/ StartBatch \/ BatchDone \/ NextLevel \/ Reduce

\* The program goes on.
Spec == Init /\ [][Next]_vars /\ WF_vars(Next)
-----------------------------------------------------------------------------
TypeOK ==
    /\ file \in Files /\ isText \in BOOLEAN
    /\ at \in {"cut", "scan", "spill", "merge", "fetch", "sort", "batch", "last", "done"}
    /\ now \in Reducer \cup DOMAIN chunks
    /\ Len(chunks) <= MaxChunks
    /\ Len(inter) <= Len(chunks) /\ fetched \subseteq DOMAIN chunks
    /\ DOMAIN result = Reducer

\* The lines that calculateChunks keeps whole: in a text file, and so short
\* that the size of their chunk is not cut to its width.
ShortLines ==
    isText /\ \A i \in DOMAIN Lines(file) : Len(Lines(file)[i]) + MaxChunkSize < Wrap

\* The chunks of a file are the file: calculateChunks leaves no byte out and
\* takes none twice, and the map tasks of a text file with lines that fit see
\* the file's lines, none of them cut in two by a chunk's end.
ChunksAreFile ==
    /\ IsPrefix(FlattenSeq(chunks), file)
    /\ at # "cut" =>
        /\ FlattenSeq(chunks) = file
        /\ ShortLines => FlattenSeq(MapSeq(chunks, Lines)) = Lines(file)

\* Every merge writes its output in key order, from the spills of a task to
\* the last level of ExternalSort: shuffle's grouping of neighbours needs it.
MergesSorted ==
    /\ KeySorted(out)
    /\ \A i \in DOMAIN inputs : KeySorted(inputs[i])
    /\ \A i \in DOMAIN temps : KeySorted(temps[i])

Occurrences(s, kv) == Cardinality({i \in DOMAIN s : s[i] = kv})

\* Some record of the reducer that the map task of a chunk has at the place of
\* kv or before it is too long for the KVScanner of its spill.
CutOff(chunk, kv) ==
    \E i \in DOMAIN Mapped(chunk) :
        LET long == Mapped(chunk)[i] IN
        /\ Overlong(long)
        /\ Partition(Key(long)) = Partition(Key(kv)) /\ Key(long) <= Key(kv)

\* When a reducer's partitions are sorted, the sorted file has no record that
\* Map did not give for it, none more often than Map gave it, and each one as
\* often, whatever the file was: none is lost or doubled in a spill, a merge,
\* by the index, a fetch or a level of merges.  The exception is what the code
\* drops without a word: a record too long for mergeSpills' scanner may cost
\* records of the same map task and reducer with the same or a later key, and
\* no others.
RecordsKept ==
    (at = "last" /\ Exhausted) =>
        LET all == FlattenSeq(MapSeq(chunks, Mapped)) IN
        \A kv \in Range(all) \cup Range(out) :
            IF Partition(Key(kv)) # now THEN Occurrences(out, kv) = 0
            ELSE /\ Occurrences(out, kv) <= Occurrences(all, kv)
                 /\ \/ Occurrences(out, kv) = Occurrences(all, kv)
                    \/ \E t \in DOMAIN chunks :
                          kv \in Range(Mapped(chunks[t])) /\ CutOff(chunks[t], kv)

\* No two calls of Reduce in a job have the same key: not for two lines of a
\* reducer's file, and not in two reducers.
KeyReducedOnce ==
    \A r, q \in Reducer : \A i \in DOMAIN result[r], j \in DOMAIN result[q] :
        Key(result[r][i]) = Key(result[q][j]) => r = q /\ i = j

\* The values that records have for a key, split at their commas.
ValuesOf(records, k) ==
    FlattenSeq(MapSeq(records, LAMBDA kv :
                  IF Key(kv) = k THEN Split(Value(kv), Comma) ELSE <<>>))

\* The length of the line of shuffle's file that a key makes with these values.
LineLength(values) == Len(FlattenSeq(values)) + Len(values) + 1

\* A reducer whose file is text with lines that fit has been called in key
\* order, once for each key, and only for keys that Map gives for it.  For the
\* keys before the first one with a record too long for a KVScanner, these are
\* all that Map gives for it, with the values that Map gives for the key for
\* all lines, whichever chunks, spills, batches and ties there were; except
\* that runReduce drops, with a logged error only, the keys from the first one
\* on whose values make a line too long for its scanner.  From the first key
\* with an overlong record on, nothing is said of keys and values left out.
ResultExact ==
    (at = "done" /\ ShortLines /\ Scanned(Lines(file)) = Lines(file)) =>
        \A r \in Reducer :
            LET all == FlattenSeq(MapSeq(Lines(file), MapLine))
                mine == {i \in DOMAIN all : Partition(Key(all[i])) = r}
                keys == {Key(all[i]) : i \in mine}
                sound == {k \in keys : \A i \in mine : Overlong(all[i]) => k < Key(all[i])}
                fitting == {k \in keys : LineLength(ValuesOf(all, k)) <= MaxToken}
                lines == result[r]
                called == {Key(lines[i]) : i \in DOMAIN lines}
            IN /\ \A i, j \in DOMAIN lines : i < j => Key(lines[i]) < Key(lines[j])
               /\ called \subseteq keys
               /\ called \cap sound = {k \in sound : \A l \in keys : l <= k => l \in fitting}
               /\ \A i \in DOMAIN lines : Key(lines[i]) \in sound =>
                     ToBag(lines[i][2]) = ToBag(ValuesOf(all, Key(lines[i])))

\* A file is cut, and its job comes to an end: ExternalSort needs finitely
\* many levels.  (A chunk size cut to its width can be zero: then
\* calculateChunks does not end.)
PipelineEnds == (at = "cut" /\ (ShortLines \/ ~isText)) ~> (at = "done")
=============================================================================

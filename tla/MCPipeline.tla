----------------------------- MODULE MCPipeline -----------------------------
(***************************************************************************)
(* Pipeline for all short files of four bytes, with two keys of one        *)
(* reducer, and a few longer files with a key of the other: many           *)
(* chunks for ExternalSort, one key with too many values, a record too     *)
(* long in the second of two chunks, lines that end in carriage returns, a *)
(* line as long as the width of a chunk's size.                            *)
(***************************************************************************)
EXTENDS Pipeline

CONSTANT MaxLength  \* bound: length of the files that are all considered

NL == 0
CM == 1
A == 2
B == 4
C == 3
CR == 5

Letter == {NL, CM, A, B, C, CR}

\* Every letter of a line is a key, and the letters after it its value.
LettersOfLine(line) ==
    LET places == SelectSeq([i \in DOMAIN line |-> i], LAMBDA i : line[i] \notin {NL, CM})
        after(i) == SelectSeq(SubSeq(line, i + 1, Len(line)), LAMBDA b : b \notin {NL, CR})
    IN [i \in DOMAIN places |-> <<line[places[i]], after(places[i])>>]

ByParity(key) == key % NumReducers

FiveLines == <<B, NL, A, NL, C, NL, A, NL, B>>
ManyValues == <<B, NL, A, A, NL, A, C, NL>>
LongRecord == <<A, NL, A, B, B, A, B>>
Returns == <<A, CR, NL, B, CR, C, CR>>
LongLine == <<A, CM, CM, CM, CM, CM, CM, CM, B>>

MCFiles ==
    BoundedSeq({NL, CM, A, B}, MaxLength) \cup {FiveLines, ManyValues, LongRecord, Returns, LongLine}
=============================================================================

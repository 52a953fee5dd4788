----------------------------- MODULE Namespace ------------------------------
(***************************************************************************)
(* The controller's name space (dfs/controller/controller.go): committed   *)
(* files, uploads in progress, and the handlers that move a name from one  *)
(* to the other.                                                           *)
(*                                                                         *)
(* Every connection has its own goroutine, so handlers interleave at each  *)
(* point where they release a lock: one action is one critical section.    *)
(* Several handlers release pendingMutex or filesMutex and act on what     *)
(* they saw; those intermediate points are the states of put and report.   *)
(*                                                                         *)
(* A change of files is atomic and durable here: WalFile shows that the    *)
(* log implements that, and a crash during the change is a crash before it *)
(* or after it.  Storage nodes and clients are the environment: any node   *)
(* may report any chunk stored or damaged at any time, late reports about  *)
(* an earlier file of the same name included.                              *)
(***************************************************************************)
EXTENDS Integers, FiniteSets

CONSTANTS
    File,      \* file names
    Node,      \* addresses of storage nodes
    None,      \* no entry in a map, no handler running
    Putter,    \* goroutines running handlePutFile
    Reporter,  \* goroutines running handleChunkStatusReport
    MaxChunks  \* bound: chunks of a file

ASSUME NamespaceAssumption ==
    /\ MaxChunks \in Nat
    /\ IsFiniteSet(Node)

ChunkId == 0..(MaxChunks - 1)

\* fileMetadata: the number of chunks, and the nodes listed for each chunk id
\* (ids from n on are not chunks of the file and have no nodes).
Meta == [n : 0..MaxChunks, nodes : [ChunkId -> SUBSET Node]]

ASSUME NoneAssumption == None \notin Meta

VARIABLES
    files,         \* c.files: committed files
    pendingFiles,  \* c.pendingFiles: uploads in progress
    pendingChunks, \* c.pendingChunks: chunks of an upload still to arrive
    lapsed,        \* uploads whose leaseExpiry has passed
    renewing,      \* names some client sends lease renewals for
    expiring,      \* delete commands monitorLeases has still to send
    active,        \* processReplication: its snapshot of active addresses
    todo,          \* processReplication: files still to prune; it holds
                   \* filesMutex while there are any
    put,           \* per goroutine: handlePutFile between two locks
    report,        \* per goroutine: handleChunkStatusReport between two locks
    emptied        \* auxiliary: how often a failure report took the last node
                   \* from a chunk of the upload in progress

vars == <<files, pendingFiles, pendingChunks, lapsed, renewing, expiring,
          active, todo, put, report, emptied>>

PutState == [at : {"pending", "insert"}, file : File]

ReportState ==
    [at : {"failPending", "okFiles"}, file : File, chunk : ChunkId, node : Node]

TypeOK ==
    /\ files \in [File -> Meta \cup {None}]
    /\ pendingFiles \in [File -> Meta \cup {None}]
    /\ pendingChunks \in [File -> Nat]
    /\ lapsed \subseteq File
    /\ renewing \subseteq File
    /\ expiring \subseteq File \X Node
    /\ active \subseteq Node
    /\ todo \subseteq File
    /\ put \in [Putter -> PutState \cup {None}]
    /\ report \in [Reporter -> ReportState \cup {None}]
    /\ emptied \in [File -> Nat]
-----------------------------------------------------------------------------
Listed == {f \in File : files[f] # None}

Uploading == {f \in File : pendingFiles[f] # None}

Chunks(m) == 0..(m.n - 1)

\* The chunks of a file no node is listed for.
Uncopied(m) == {c \in Chunks(m) : m.nodes[c] = {}}

AddNode(m, c, n) ==
    IF c \in Chunks(m) THEN [m EXCEPT !.nodes[c] = @ \cup {n}] ELSE m

RemoveNode(m, c, n) ==
    IF c \in Chunks(m) THEN [m EXCEPT !.nodes[c] = @ \ {n}] ELSE m

KeepNodes(m, A) == [m EXCEPT !.nodes = [c \in ChunkId |-> m.nodes[c] \cap A]]

Holders(m) == UNION {m.nodes[c] : c \in Chunks(m)}

FilesMutexFree == todo = {}

Init ==
    /\ files = [f \in File |-> None]
    /\ pendingFiles = [f \in File |-> None]
    /\ pendingChunks = [f \in File |-> 0]
    /\ lapsed = {}
    /\ renewing = {}
    /\ expiring = {}
    /\ active = {}
    /\ todo = {}
    /\ put = [p \in Putter |-> None]
    /\ report = [r \in Reporter |-> None]
    /\ emptied = [f \in File |-> 0]
-----------------------------------------------------------------------------
(***************************************************************************)
(* handlePutFile: look in files, look in pendingFiles, pick nodes, insert. *)
(* A refusal ("File already exists" and the others) changes nothing.       *)
(***************************************************************************)
PutCheckFiles(p, f) ==
    /\ put[p] = None
    /\ FilesMutexFree
    /\ files[f] = None
    /\ put' = [put EXCEPT ![p] = [at |-> "pending", file |-> f]]
    /\ UNCHANGED <<files, pendingFiles, pendingChunks, lapsed, renewing,
                   expiring, active, todo, report, emptied>>

PutCheckPending(p) ==
    /\ put[p] # None
    /\ put[p].at = "pending"
    /\ put' = [put EXCEPT ![p] =
                  IF pendingFiles[put[p].file] = None
                  THEN [put[p] EXCEPT !.at = "insert"] ELSE None]
    /\ UNCHANGED <<files, pendingFiles, pendingChunks, lapsed, renewing,
                   expiring, active, todo, report, emptied>>

\* Chunk size zero, or fewer nodes with enough space than replicas.
PutRefuse(p) ==
    /\ put[p] # None
    /\ put[p].at = "insert"
    /\ put' = [put EXCEPT ![p] = None]
    /\ UNCHANGED <<files, pendingFiles, pendingChunks, lapsed, renewing,
                   expiring, active, todo, report, emptied>>

\* Mutant: the counter leaves out the last, partial chunk.
PutInsertShort(p, k) ==
    /\ put[p] # None
    /\ put[p].at = "insert"
    /\ LET f == put[p].file IN
       /\ pendingFiles' = [pendingFiles EXCEPT ![f] =
              [n |-> k, nodes |-> [c \in ChunkId |-> {}]]]
       /\ pendingChunks' = [pendingChunks EXCEPT ![f] = k - 1]
       /\ emptied' = [emptied EXCEPT ![f] = 0]
       /\ lapsed' = lapsed \ {f}
       /\ renewing' = renewing \cup {f}
    /\ put' = [put EXCEPT ![p] = None]
    /\ UNCHANGED <<files, expiring, active, todo, report>>

\* The upload is entered with k chunks and no copies, over whatever pending
\* entry the name has by now, and its client starts to renew the lease.
PutInsert(p, k) ==
    /\ put[p] # None
    /\ put[p].at = "insert"
    /\ LET f == put[p].file IN
       /\ pendingFiles' = [pendingFiles EXCEPT ![f] =
              [n |-> k, nodes |-> [c \in ChunkId |-> {}]]]
       /\ pendingChunks' = [pendingChunks EXCEPT ![f] = k]
       /\ emptied' = [emptied EXCEPT ![f] = 0]
       /\ lapsed' = lapsed \ {f}
       /\ renewing' = renewing \cup {f}
    /\ put' = [put EXCEPT ![p] = None]
    /\ UNCHANGED <<files, expiring, active, todo, report>>
-----------------------------------------------------------------------------
(***************************************************************************)
(* handleChunkStatusReport, success: under pendingMutex if the name is     *)
(* being uploaded, otherwise under filesMutex, taken after pendingMutex    *)
(* was released.                                                           *)
(***************************************************************************)
Drop(f) ==
    /\ pendingFiles' = [pendingFiles EXCEPT ![f] = None]
    /\ pendingChunks' = [pendingChunks EXCEPT ![f] = 0]
    /\ emptied' = [emptied EXCEPT ![f] = 0]
    /\ lapsed' = lapsed \ {f}

\* Mutant: every report of a chunk counts, not only its first copy.
AnyCopy(f, c) == c \in Chunks(pendingFiles[f])

\* The report brings the first copy of a chunk of an upload.
FirstCopy(f, c) == c \in Uncopied(pendingFiles[f])

ReportStored(r, f, c, n) ==
    /\ report[r] = None
    /\ f \in Uploading
    /\ LET m == AddNode(pendingFiles[f], c, n)
           stillMissing == pendingChunks[f] - (IF FirstCopy(f, c) THEN 1 ELSE 0)
       IN \/ /\ FirstCopy(f, c) /\ stillMissing = 0
             /\ FilesMutexFree
             /\ files' = [files EXCEPT ![f] = m]
             /\ Drop(f)
          \/ /\ ~(FirstCopy(f, c) /\ stillMissing = 0)
             /\ pendingFiles' = [pendingFiles EXCEPT ![f] = m]
             /\ pendingChunks' = [pendingChunks EXCEPT ![f] = stillMissing]
             /\ UNCHANGED <<files, lapsed, emptied>>
    /\ UNCHANGED <<renewing, expiring, active, todo, put, report>>

ReportStoredNotPending(r, f, c, n) ==
    /\ report[r] = None
    /\ f \notin Uploading
    /\ report' = [report EXCEPT ![r] =
           [at |-> "okFiles", file |-> f, chunk |-> c, node |-> n]]
    /\ UNCHANGED <<files, pendingFiles, pendingChunks, lapsed, renewing,
                   expiring, active, todo, put, emptied>>

\* Mutant: a report for a file that is gone enters it again.
ReportStoredRevives(r) ==
    /\ report[r] # None
    /\ report[r].at = "okFiles"
    /\ FilesMutexFree
    /\ LET q == report[r] IN
       files' = [files EXCEPT ![q.file] =
           AddNode(IF @ = None THEN [n |-> MaxChunks, nodes |-> [c \in ChunkId |-> {}]]
                   ELSE @, q.chunk, q.node)]
    /\ report' = [report EXCEPT ![r] = None]
    /\ UNCHANGED <<pendingFiles, pendingChunks, lapsed, renewing, expiring,
                   active, todo, put, emptied>>

ReportStoredFiles(r) ==
    /\ report[r] # None
    /\ report[r].at = "okFiles"
    /\ FilesMutexFree
    /\ LET q == report[r] IN
       files' = IF files[q.file] = None THEN files
                ELSE [files EXCEPT ![q.file] = AddNode(@, q.chunk, q.node)]
    /\ report' = [report EXCEPT ![r] = None]
    /\ UNCHANGED <<pendingFiles, pendingChunks, lapsed, renewing, expiring,
                   active, todo, put, emptied>>

(***************************************************************************)
(* handleChunkStatusReport, failure: the node is taken off the committed   *)
(* file's chunk under filesMutex, then off the upload's chunk under        *)
(* pendingMutex.  pendingChunks is left alone.                             *)
(***************************************************************************)
ReportFailedFiles(r, f, c, n) ==
    /\ report[r] = None
    /\ FilesMutexFree
    /\ files' = IF files[f] = None THEN files
                ELSE [files EXCEPT ![f] = RemoveNode(@, c, n)]
    /\ report' = [report EXCEPT ![r] =
           [at |-> "failPending", file |-> f, chunk |-> c, node |-> n]]
    /\ UNCHANGED <<pendingFiles, pendingChunks, lapsed, renewing, expiring,
                   active, todo, put, emptied>>

\* Mutant: a lost copy is counted as missing again, also when the chunk has
\* others.
ReportFailedPendingRecounts(r) ==
    /\ report[r] # None
    /\ report[r].at = "failPending"
    /\ LET q == report[r]
           m == RemoveNode(pendingFiles[q.file], q.chunk, q.node)
       IN IF q.file \notin Uploading \/ m = pendingFiles[q.file]
          THEN UNCHANGED <<pendingFiles, pendingChunks>>
          ELSE /\ pendingFiles' = [pendingFiles EXCEPT ![q.file] = m]
               /\ pendingChunks' = [pendingChunks EXCEPT ![q.file] = @ + 1]
    /\ report' = [report EXCEPT ![r] = None]
    /\ UNCHANGED <<files, lapsed, renewing, expiring, active, todo, put, emptied>>

ReportFailedPending(r) ==
    /\ report[r] # None
    /\ report[r].at = "failPending"
    /\ LET q == report[r]
           m == RemoveNode(pendingFiles[q.file], q.chunk, q.node)
       IN IF q.file \notin Uploading THEN UNCHANGED <<pendingFiles, emptied>>
          ELSE /\ pendingFiles' = [pendingFiles EXCEPT ![q.file] = m]
               /\ emptied' = [emptied EXCEPT ![q.file] = @ +
                      (IF Uncopied(m) = Uncopied(pendingFiles[q.file]) THEN 0 ELSE 1)]
    /\ report' = [report EXCEPT ![r] = None]
    /\ UNCHANGED <<files, pendingChunks, lapsed, renewing, expiring, active,
                   todo, put>>
-----------------------------------------------------------------------------
(***************************************************************************)
(* Leases.  A lease is renewed by name, also after it has lapsed and until *)
(* monitorLeases has removed the upload.                                   *)
(***************************************************************************)
LeaseLapse(f) ==
    /\ f \in Uploading \ lapsed
    /\ lapsed' = lapsed \cup {f}
    /\ UNCHANGED <<files, pendingFiles, pendingChunks, renewing, expiring,
                   active, todo, put, report, emptied>>

LeaseRenew(f) ==
    /\ f \in renewing
    /\ f \in lapsed
    /\ lapsed' = lapsed \ {f}
    /\ UNCHANGED <<files, pendingFiles, pendingChunks, renewing, expiring,
                   active, todo, put, report, emptied>>

\* The client finishes, or dies, and sends no more renewals.
ClientGone(f) ==
    /\ f \in renewing
    /\ renewing' = renewing \ {f}
    /\ UNCHANGED <<files, pendingFiles, pendingChunks, lapsed, expiring,
                   active, todo, put, report, emptied>>

\* One turn of monitorLeases removes every lapsed upload; it then commands
\* the nodes listed for them to delete their chunks, outside the lock, and
\* sleeps only when all commands have been sent.
LeaseSweep ==
    /\ expiring = {}
    /\ lapsed # {}
    /\ pendingFiles' = [f \in File |-> IF f \in lapsed THEN None ELSE pendingFiles[f]]
    /\ pendingChunks' = [f \in File |-> IF f \in lapsed THEN 0 ELSE pendingChunks[f]]
    /\ emptied' = [f \in File |-> IF f \in lapsed THEN 0 ELSE emptied[f]]
    /\ expiring' = {cmd \in lapsed \X Node : cmd[2] \in Holders(pendingFiles[cmd[1]])}
    /\ lapsed' = {}
    /\ UNCHANGED <<files, renewing, active, todo, put, report>>

\* Mutant: a command that fails is tried again for ever.
SendExpiredRetries ==
    /\ expiring # {}
    /\ UNCHANGED vars

SendExpired ==
    /\ \E cmd \in expiring : expiring' = expiring \ {cmd}
    /\ UNCHANGED <<files, pendingFiles, pendingChunks, lapsed, renewing,
                   active, todo, put, report, emptied>>
-----------------------------------------------------------------------------
\* handleDeleteFile, up to the point where it releases filesMutex.
DeleteFile(f) ==
    /\ FilesMutexFree
    /\ files[f] # None
    /\ files' = [files EXCEPT ![f] = None]
    /\ UNCHANGED <<pendingFiles, pendingChunks, lapsed, renewing, expiring,
                   active, todo, put, report, emptied>>

(***************************************************************************)
(* processReplication: snapshot the active addresses, give up if there are *)
(* none, then under filesMutex prune every chunk of every file.            *)
(***************************************************************************)
MaintSnapshot(A) ==
    /\ active = {}
    /\ A # {}
    /\ active' = A
    /\ UNCHANGED <<files, pendingFiles, pendingChunks, lapsed, renewing,
                   expiring, todo, put, report, emptied>>

MaintLock ==
    /\ active # {}
    /\ todo = {}
    /\ todo' = Listed
    /\ active' = IF Listed = {} THEN {} ELSE active
    /\ UNCHANGED <<files, pendingFiles, pendingChunks, lapsed, renewing,
                   expiring, put, report, emptied>>

MaintPrune(f) ==
    /\ f \in todo
    /\ files' = [files EXCEPT ![f] = KeepNodes(@, active)]
    /\ todo' = todo \ {f}
    /\ active' = IF todo = {f} THEN {} ELSE active
    /\ UNCHANGED <<pendingFiles, pendingChunks, lapsed, renewing, expiring,
                   put, report, emptied>>

\* The controller dies and restarts: the committed files come back from the
\* log, uploads, leases and everything a goroutine held are gone.
Restart ==
    /\ pendingFiles' = [f \in File |-> None]
    /\ pendingChunks' = [f \in File |-> 0]
    /\ emptied' = [f \in File |-> 0]
    /\ lapsed' = {}
    /\ expiring' = {}
    /\ active' = {}
    /\ todo' = {}
    /\ put' = [p \in Putter |-> None]
    /\ report' = [r \in Reporter |-> None]
    /\ UNCHANGED <<files, renewing>>
-----------------------------------------------------------------------------
Next ==
    \/ \E p \in Putter, f \in File : PutCheckFiles(p, f)
    \/ \E p \in Putter : PutCheckPending(p)
    \/ \E p \in Putter : PutRefuse(p)
    \/ \E p \in Putter, k \in 0..MaxChunks : PutInsert(p, k)
    \/ \E r \in Reporter, f \in File, c \in ChunkId, n \in Node :
           \/ ReportStored(r, f, c, n)
           \/ ReportStoredNotPending(r, f, c, n)
           \/ ReportFailedFiles(r, f, c, n)
    \/ \E r \in Reporter : ReportStoredFiles(r)
    \/ \E r \in Reporter : ReportFailedPending(r)
    \/ \E f \in File : LeaseLapse(f)
    \/ \E f \in File : LeaseRenew(f)
    \/ \E f \in File : ClientGone(f)
    \/ LeaseSweep
    \/ SendExpired
    \/ \E f \in File : DeleteFile(f)
    \/ \E A \in SUBSET Node : MaintSnapshot(A)
    \/ MaintLock
    \/ \E f \in File : MaintPrune(f)
    \/ Restart

Spec == Init /\ [][Next]_vars

\* monitorLeases runs for ever and each of its sends ends; a lease nobody
\* renews runs out.
Fairness ==
    /\ WF_vars(LeaseSweep)
    /\ WF_vars(SendExpired)
    /\ \A f \in File : WF_vars(f \notin renewing /\ LeaseLapse(f))

FairSpec == Spec /\ Fairness
-----------------------------------------------------------------------------
\* An upload with chunks always waits for a chunk that has no copy, so the
\* next first copy can complete it: pendingChunks is never zero while the
\* upload is pending (decrementing it would wrap the uint64 round) and never
\* more than the chunks without a copy.  Exactly: it falls short of them by
\* the chunks that failure reports emptied, which handleChunkStatusReport
\* does not count back.
CountTracksCopies ==
    \A f \in Uploading :
        LET m == pendingFiles[f] IN
        /\ pendingChunks[f] + emptied[f] = Cardinality(Uncopied(m))
        /\ m.n > 0 => pendingChunks[f] > 0

Committed(f) == pendingFiles[f] # None /\ pendingFiles'[f] = None /\ files'[f] # files[f]

\* A file is committed with exactly as many chunks without a copy as failure
\* reports emptied during its upload: with no such report, every chunk of a
\* committed file has a copy (handleChunkStatusReport, the first-copies test).
CommitMissesEmptied ==
    [][\A f \in File : Committed(f) => Cardinality(Uncopied(files'[f])) = emptied[f]]_vars

\* A name that is neither committed nor being uploaded can only come back
\* through a new upload: no report that was in flight when the file was
\* deleted, or when its upload was swept, resurrects it.
DeletedStaysDeleted ==
    [][\A f \in File : f \notin Listed \cup Uploading => files'[f] = None]_vars

\* An upload whose client has stopped renewing does not keep its name for
\* ever: it is committed or monitorLeases removes it.
AbandonedUploadEnds ==
    \A f \in File : f \in Uploading /\ f \notin renewing ~>
                    f \notin Uploading \/ f \in renewing
=============================================================================

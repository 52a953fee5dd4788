-------------------------- MODULE Namespace_proofs --------------------------
(***************************************************************************)
(* Proofs about Namespace, for every set of files, nodes and goroutines    *)
(* and every number of chunks.                                             *)
(***************************************************************************)
EXTENDS Namespace, FiniteSetTheorems, TLAPS

-----------------------------------------------------------------------------
(* What the operators on metadata do to the chunks without a copy *)

\* The chunks without a copy can be counted.
LEMMA UncopiedFinite ==
  ASSUME NEW m \in Meta
  PROVE  /\ Uncopied(m) \subseteq 0..(m.n - 1)
         /\ IsFiniteSet(Uncopied(m))
         /\ Cardinality(Uncopied(m)) \in Nat
<1>1. Uncopied(m) \subseteq 0..(m.n - 1)
  BY DEF Uncopied, Chunks
<1>2. 0 \in Int /\ m.n - 1 \in Int
  BY NamespaceAssumption DEF Meta
<1>3. IsFiniteSet(0..(m.n - 1))
  BY <1>2, FS_Interval
<1>4. IsFiniteSet(Uncopied(m))
  BY <1>1, <1>3, FS_Subset
<1> QED BY <1>1, <1>4, FS_CardinalityType

\* A success report takes its chunk out of them, if it is in.
LEMMA AddNodeUncopied ==
  ASSUME NEW m \in Meta, NEW c \in ChunkId, NEW n \in Node
  PROVE  /\ AddNode(m, c, n) \in Meta
         /\ AddNode(m, c, n).n = m.n
         /\ Uncopied(AddNode(m, c, n)) = Uncopied(m) \ {c}
<1>1. m.n \in 0..MaxChunks /\ m.nodes \in [ChunkId -> SUBSET Node]
  BY DEF Meta
<1>2. Chunks(m) \subseteq ChunkId
  BY <1>1, NamespaceAssumption DEF Chunks, ChunkId
<1>3. CASE c \in Chunks(m)
  <2>1. AddNode(m, c, n) = [m EXCEPT !.nodes[c] = m.nodes[c] \cup {n}]
    BY <1>3 DEF AddNode
  <2>2. /\ AddNode(m, c, n).n = m.n
        /\ AddNode(m, c, n).nodes = [m.nodes EXCEPT ![c] = m.nodes[c] \cup {n}]
        /\ AddNode(m, c, n) \in Meta
    BY <2>1, <1>1 DEF Meta
  <2> QED BY <2>2, <1>1, <1>2 DEF Uncopied, Chunks
<1>4. CASE c \notin Chunks(m)
  BY <1>4 DEF AddNode, Uncopied
<1> QED BY <1>3, <1>4

\* A failure report puts its chunk in, if the node was the last one listed.
LEMMA RemoveNodeUncopied ==
  ASSUME NEW m \in Meta, NEW c \in ChunkId, NEW n \in Node
  PROVE  /\ RemoveNode(m, c, n) \in Meta
         /\ RemoveNode(m, c, n).n = m.n
         /\ \/ Uncopied(RemoveNode(m, c, n)) = Uncopied(m)
            \/ /\ c \notin Uncopied(m)
               /\ Uncopied(RemoveNode(m, c, n)) = Uncopied(m) \cup {c}
<1>1. m.n \in 0..MaxChunks /\ m.nodes \in [ChunkId -> SUBSET Node]
  BY DEF Meta
<1>2. Chunks(m) \subseteq ChunkId
  BY <1>1, NamespaceAssumption DEF Chunks, ChunkId
<1>3. CASE c \in Chunks(m)
  <2> DEFINE m2 == RemoveNode(m, c, n)
  <2>1. m2 = [m EXCEPT !.nodes[c] = m.nodes[c] \ {n}]
    BY <1>3 DEF RemoveNode
  <2>2. /\ m2.n = m.n
        /\ m2.nodes = [m.nodes EXCEPT ![c] = m.nodes[c] \ {n}]
        /\ m2 \in Meta
    BY <2>1, <1>1 DEF Meta
  <2> HIDE DEF m2
  <2>3. CASE m.nodes[c] # {} /\ m.nodes[c] \ {n} = {}
    BY <2>2, <2>3, <1>1, <1>2, <1>3 DEF Uncopied, Chunks, m2
  <2>4. CASE ~(m.nodes[c] # {} /\ m.nodes[c] \ {n} = {})
    <3>1. Uncopied(m2) = Uncopied(m)
      BY <2>2, <2>4, <1>1, <1>2, <1>3 DEF Uncopied, Chunks
    <3> QED BY <3>1, <2>2 DEF m2
  <2> QED BY <2>3, <2>4
<1>4. CASE c \notin Chunks(m)
  BY <1>4 DEF RemoveNode, Uncopied
<1> QED BY <1>3, <1>4

\* A new upload lacks all its chunks.
LEMMA NewUploadUncopied ==
  ASSUME NEW k \in 0..MaxChunks
  PROVE  LET m == [n |-> k, nodes |-> [c \in ChunkId |-> {}]] IN
         /\ m \in Meta
         /\ Cardinality(Uncopied(m)) = k
<1> DEFINE m == [n |-> k, nodes |-> [c \in ChunkId |-> {}]]
<1>1. m \in Meta
  BY DEF Meta
<1>2. k \in Nat /\ 0..(k - 1) \subseteq ChunkId
  BY NamespaceAssumption DEF ChunkId
<1>3. Uncopied(m) = 0..(k - 1)
  BY <1>2 DEF Uncopied, Chunks
<1>4. Cardinality(0..(k - 1)) = k
  <2>1. 0 \in Int /\ k - 1 \in Int
    BY <1>2
  <2>2. Cardinality(0..(k - 1)) = IF 0 > k - 1 THEN 0 ELSE (k - 1) - 0 + 1
    BY <2>1, FS_Interval
  <2> QED BY <2>2, <1>2
<1> QED BY <1>1, <1>3, <1>4

-----------------------------------------------------------------------------
(* The inductive invariant *)

\* The count of one upload: what the first conjunct of CountTracksCopies says
\* of its metadata m, its counter k and the number e of emptied chunks.
CountOK(m, k, e) ==
    /\ k + e = Cardinality(Uncopied(m))
    /\ m.n > 0 => k > 0

\* pendingChunks is a natural number only because of CountTracksCopies (a
\* first copy would otherwise take it below zero), so the two are proved
\* together.  The files maintenance has still to prune exist: filesMutex keeps
\* a delete out while there are any.
PruneInv == \A f \in todo : files[f] # None

NamespaceInv == TypeOK /\ CountTracksCopies /\ PruneInv

LEMMA CountPerFile ==
  CountTracksCopies <=>
    \A f \in File : pendingFiles[f] # None =>
        CountOK(pendingFiles[f], pendingChunks[f], emptied[f])
BY DEF CountTracksCopies, CountOK, Uploading

\* The critical section in which a success report meets an upload.
LEMMA ReportStoredStep ==
  ASSUME NamespaceInv, NEW r \in Reporter, NEW f \in File, NEW c \in ChunkId,
         NEW n \in Node, ReportStored(r, f, c, n)
  PROVE  NamespaceInv'
<1> DEFINE m == pendingFiles[f]
           m2 == AddNode(m, c, n)
           k == pendingChunks[f]
<1>1. /\ f \in Uploading /\ m \in Meta /\ k \in Nat /\ emptied[f] \in Nat
      /\ CountOK(m, k, emptied[f])
  BY CountPerFile DEF ReportStored, NamespaceInv, TypeOK, Uploading
<1>2. m2 \in Meta /\ m2.n = m.n /\ Uncopied(m2) = Uncopied(m) \ {c}
  BY <1>1, AddNodeUncopied
<1>3. /\ IsFiniteSet(Uncopied(m)) /\ Cardinality(Uncopied(m)) \in Nat
      /\ Uncopied(m) \subseteq 0..(m.n - 1) /\ m.n \in Nat
  BY <1>1, UncopiedFinite DEF Meta
<1>4. UNCHANGED <<renewing, expiring, active, todo, put, report>>
  BY DEF ReportStored
<1>5. CASE FirstCopy(f, c) /\ k - 1 = 0
  <2>1. files' = [files EXCEPT ![f] = m2] /\ Drop(f)
    BY <1>5 DEF ReportStored
  <2>2. TypeOK' /\ PruneInv'
    BY <1>2, <1>4, <2>1, NoneAssumption DEF NamespaceInv, TypeOK, Drop, PruneInv
  <2>3. CountTracksCopies'
    BY <2>1, CountPerFile DEF NamespaceInv, TypeOK, Drop, CountTracksCopies, Uploading
  <2> QED BY <2>2, <2>3 DEF NamespaceInv
<1>6. CASE FirstCopy(f, c) /\ k - 1 # 0
  <2>1. /\ pendingFiles' = [pendingFiles EXCEPT ![f] = m2]
        /\ pendingChunks' = [pendingChunks EXCEPT ![f] = k - 1]
        /\ UNCHANGED <<files, lapsed, emptied>>
    BY <1>6 DEF ReportStored
  <2>2. c \in Uncopied(m)
    BY <1>6 DEF FirstCopy
  <2>3. Cardinality(Uncopied(m2)) = Cardinality(Uncopied(m)) - 1
    <3> HIDE DEF m, m2
    <3>1. Cardinality(Uncopied(m) \ {c}) = Cardinality(Uncopied(m)) - 1
      BY <1>3, <2>2, FS_RemoveElement
    <3> QED BY <1>2, <3>1
  <2>4. k > 0
    BY <1>1, <1>3, <2>2 DEF CountOK
  <2>5. CountOK(m2, k - 1, emptied[f]) /\ k - 1 \in Nat
    BY <1>1, <1>3, <1>6, <2>3, <2>4 DEF CountOK
  <2>6. TypeOK' /\ PruneInv'
    BY <1>2, <1>4, <2>1, <2>5 DEF NamespaceInv, TypeOK, PruneInv
  <2>7. CountTracksCopies'
    BY <2>1, <2>5, CountPerFile DEF NamespaceInv, TypeOK, CountTracksCopies, CountOK, Uploading
  <2> QED BY <2>6, <2>7 DEF NamespaceInv
<1>7. CASE ~FirstCopy(f, c)
  <2>1. /\ pendingFiles' = [pendingFiles EXCEPT ![f] = m2]
        /\ pendingChunks' = [pendingChunks EXCEPT ![f] = k]
        /\ UNCHANGED <<files, lapsed, emptied>>
    BY <1>1, <1>7 DEF ReportStored
  <2>2. Uncopied(m2) = Uncopied(m)
    BY <1>2, <1>7 DEF FirstCopy
  <2>3. CountOK(m2, k, emptied[f])
    BY <1>1, <1>2, <2>2 DEF CountOK
  <2>4. TypeOK' /\ PruneInv'
    BY <1>2, <1>4, <2>1 DEF NamespaceInv, TypeOK, PruneInv
  <2>5. CountTracksCopies'
    BY <2>1, <2>3, CountPerFile DEF NamespaceInv, TypeOK, CountTracksCopies, CountOK, Uploading
  <2> QED BY <2>4, <2>5 DEF NamespaceInv
<1> QED BY <1>5, <1>6, <1>7

\* The second critical section of a failure report.
LEMMA ReportFailedPendingStep ==
  ASSUME NamespaceInv, NEW r \in Reporter, ReportFailedPending(r)
  PROVE  NamespaceInv'
<1> DEFINE q == report[r]
           f == q.file
           m == pendingFiles[f]
           m2 == RemoveNode(m, q.chunk, q.node)
<1>1. f \in File /\ q.chunk \in ChunkId /\ q.node \in Node
  BY DEF ReportFailedPending, NamespaceInv, TypeOK, ReportState
<1>2. /\ report' = [report EXCEPT ![r] = None]
      /\ UNCHANGED <<files, pendingChunks, lapsed, renewing, expiring, active, todo, put>>
  BY DEF ReportFailedPending
<1>3. CASE f \notin Uploading
  <2>1. UNCHANGED <<pendingFiles, emptied>>
    BY <1>3 DEF ReportFailedPending
  <2>2. TypeOK' /\ PruneInv'
    BY <1>2, <2>1 DEF NamespaceInv, TypeOK, PruneInv
  <2>3. CountTracksCopies'
    BY <1>2, <2>1 DEF NamespaceInv, CountTracksCopies, Uploading
  <2> QED BY <2>2, <2>3 DEF NamespaceInv
<1>4. CASE f \in Uploading
  <2> DEFINE e == emptied[f] + (IF Uncopied(m2) = Uncopied(m) THEN 0 ELSE 1)
  <2>1. /\ pendingFiles' = [pendingFiles EXCEPT ![f] = m2]
        /\ emptied' = [emptied EXCEPT ![f] = e]
    BY <1>4 DEF ReportFailedPending
  <2>2. /\ m \in Meta /\ pendingChunks[f] \in Nat /\ emptied[f] \in Nat
        /\ CountOK(m, pendingChunks[f], emptied[f])
    BY <1>1, <1>4, CountPerFile DEF NamespaceInv, TypeOK, Uploading
  <2>3. /\ m2 \in Meta /\ m2.n = m.n
        /\ \/ Uncopied(m2) = Uncopied(m)
           \/ q.chunk \notin Uncopied(m) /\ Uncopied(m2) = Uncopied(m) \cup {q.chunk}
    BY <1>1, <2>2, RemoveNodeUncopied
  <2>4. IsFiniteSet(Uncopied(m)) /\ Cardinality(Uncopied(m)) \in Nat
    BY <2>2, UncopiedFinite
  <2>5. e \in Nat /\ CountOK(m2, pendingChunks[f], e)
    <3>1. CASE Uncopied(m2) = Uncopied(m)
      BY <3>1, <2>2, <2>3 DEF CountOK
    <3>2. CASE Uncopied(m2) # Uncopied(m)
      <4>1. Cardinality(Uncopied(m2)) = Cardinality(Uncopied(m)) + 1
        BY <3>2, <2>3, <2>4, FS_AddElement
      <4>2. e = emptied[f] + 1
        BY <3>2
      <4> QED BY <4>1, <4>2, <2>2, <2>3, <2>4 DEF CountOK
    <3> QED BY <3>1, <3>2
  <2>6. TypeOK' /\ PruneInv'
    BY <1>1, <1>2, <2>1, <2>3, <2>5 DEF NamespaceInv, TypeOK, PruneInv
  <2> HIDE DEF e, m2, m
  <2>7. CountTracksCopies'
    BY <1>1, <1>2, <2>1, <2>5, CountPerFile
       DEF NamespaceInv, TypeOK, CountTracksCopies, CountOK, Uploading
  <2> QED BY <2>6, <2>7 DEF NamespaceInv
<1> QED BY <1>3, <1>4

\* Every other action leaves the uploads alone, drops some, or enters a new
\* one.
LEMMA NamespaceInvariant == Spec => []NamespaceInv
<1>1. Init => NamespaceInv
  BY DEF Init, NamespaceInv, TypeOK, PruneInv, CountTracksCopies, Uploading
<1>2. NamespaceInv /\ [Next]_vars => NamespaceInv'
  <2> SUFFICES ASSUME NamespaceInv, [Next]_vars PROVE NamespaceInv'
    OBVIOUS
  <2> USE DEF NamespaceInv
  <2>1. ASSUME UNCHANGED <<pendingFiles, pendingChunks, emptied>>, TypeOK', PruneInv'
        PROVE  NamespaceInv'
    BY <2>1 DEF CountTracksCopies, Uploading
  <2>2. ASSUME NEW p \in Putter, NEW f \in File, PutCheckFiles(p, f)
        PROVE  NamespaceInv'
    BY <2>1, <2>2 DEF PruneInv, PutCheckFiles, TypeOK, PutState
  <2>3. ASSUME NEW p \in Putter, PutCheckPending(p)
        PROVE  NamespaceInv'
    BY <2>1, <2>3 DEF PruneInv, PutCheckPending, TypeOK, PutState
  <2>4. ASSUME NEW p \in Putter, PutRefuse(p)
        PROVE  NamespaceInv'
    BY <2>1, <2>4 DEF PruneInv, PutRefuse, TypeOK
  <2>5. ASSUME NEW p \in Putter, NEW k \in 0..MaxChunks, PutInsert(p, k)
        PROVE  NamespaceInv'
    <3> DEFINE f == put[p].file
               m == [n |-> k, nodes |-> [c \in ChunkId |-> {}]]
    <3>1. f \in File /\ k \in Nat
      BY <2>5, NamespaceAssumption DEF PutInsert, TypeOK, PutState
    <3>2. m \in Meta /\ Cardinality(Uncopied(m)) = k /\ m.n = k
      BY NewUploadUncopied
    <3>3. /\ pendingFiles' = [pendingFiles EXCEPT ![f] = m]
          /\ pendingChunks' = [pendingChunks EXCEPT ![f] = k]
          /\ emptied' = [emptied EXCEPT ![f] = 0]
          /\ lapsed' = lapsed \ {f} /\ renewing' = renewing \cup {f}
          /\ put' = [put EXCEPT ![p] = None]
          /\ UNCHANGED <<files, expiring, active, todo, report>>
      BY <2>5 DEF PutInsert
    <3>4. CountOK(m, k, 0)
      BY <3>1, <3>2 DEF CountOK
    <3> HIDE DEF f, m
    <3>5. TypeOK' /\ PruneInv'
      BY <3>1, <3>2, <3>3 DEF TypeOK, PruneInv
    <3>6. CountTracksCopies'
      BY <3>1, <3>3, <3>4, CountPerFile DEF TypeOK, CountTracksCopies, CountOK, Uploading
    <3> QED BY <3>5, <3>6
  <2>6. ASSUME NEW r \in Reporter, NEW f \in File, NEW c \in ChunkId, NEW n \in Node,
               ReportStored(r, f, c, n)
        PROVE  NamespaceInv'
    BY <2>6, ReportStoredStep
  <2>7. ASSUME NEW r \in Reporter, NEW f \in File, NEW c \in ChunkId, NEW n \in Node,
               ReportStoredNotPending(r, f, c, n)
        PROVE  NamespaceInv'
    BY <2>1, <2>7 DEF PruneInv, ReportStoredNotPending, TypeOK, ReportState
  <2>8. ASSUME NEW r \in Reporter, NEW f \in File, NEW c \in ChunkId, NEW n \in Node,
               ReportFailedFiles(r, f, c, n)
        PROVE  NamespaceInv'
    <3>1. files[f] # None => RemoveNode(files[f], c, n) \in Meta
      BY RemoveNodeUncopied DEF TypeOK
    <3>2. TypeOK' /\ PruneInv'
      BY <2>8, <3>1 DEF PruneInv, ReportFailedFiles, FilesMutexFree, TypeOK, ReportState
    <3> QED BY <2>1, <2>8, <3>2 DEF ReportFailedFiles
  <2>9. ASSUME NEW r \in Reporter, ReportStoredFiles(r)
        PROVE  NamespaceInv'
    <3>1. report[r] \in ReportState
      BY <2>9 DEF ReportStoredFiles, TypeOK
    <3>2. files[report[r].file] # None =>
            AddNode(files[report[r].file], report[r].chunk, report[r].node) \in Meta
      BY <3>1, AddNodeUncopied DEF TypeOK, ReportState
    <3>3. files' \in [File -> Meta \cup {None}]
      BY <2>9, <3>1, <3>2 DEF ReportStoredFiles, TypeOK, ReportState
    <3> QED BY <2>1, <2>9, <3>3 DEF PruneInv, FilesMutexFree, ReportStoredFiles, TypeOK
  <2>10. ASSUME NEW r \in Reporter, ReportFailedPending(r)
         PROVE  NamespaceInv'
    BY <2>10, ReportFailedPendingStep
  <2>11. ASSUME NEW f \in File, LeaseLapse(f)
         PROVE  NamespaceInv'
    BY <2>1, <2>11 DEF PruneInv, LeaseLapse, TypeOK
  <2>12. ASSUME NEW f \in File, LeaseRenew(f)
         PROVE  NamespaceInv'
    BY <2>1, <2>12 DEF PruneInv, LeaseRenew, TypeOK
  <2>13. ASSUME NEW f \in File, ClientGone(f)
         PROVE  NamespaceInv'
    BY <2>1, <2>13 DEF PruneInv, ClientGone, TypeOK
  <2>14. CASE LeaseSweep
    <3>1. expiring' \subseteq File \X Node
      BY <2>14 DEF LeaseSweep, TypeOK
    <3>2. TypeOK' /\ PruneInv'
      BY <2>14, <3>1 DEF LeaseSweep, TypeOK, PruneInv
    <3>3. CountTracksCopies'
      BY <2>14 DEF LeaseSweep, TypeOK, CountTracksCopies, Uploading
    <3> QED BY <3>2, <3>3
  <2>15. CASE SendExpired
    BY <2>1, <2>15 DEF PruneInv, SendExpired, TypeOK
  <2>16. ASSUME NEW f \in File, DeleteFile(f)
         PROVE  NamespaceInv'
    BY <2>1, <2>16 DEF PruneInv, FilesMutexFree, DeleteFile, TypeOK
  <2>17. ASSUME NEW A \in SUBSET Node, MaintSnapshot(A)
         PROVE  NamespaceInv'
    BY <2>1, <2>17 DEF PruneInv, MaintSnapshot, TypeOK
  <2>18. CASE MaintLock
    BY <2>1, <2>18 DEF PruneInv, MaintLock, TypeOK, Listed
  <2>19. ASSUME NEW f \in File, MaintPrune(f)
         PROVE  NamespaceInv'
    <3>1. files[f] \in Meta /\ KeepNodes(files[f], active) \in Meta
      BY <2>19 DEF MaintPrune, TypeOK, PruneInv, KeepNodes, Meta
    <3>2. TypeOK' /\ PruneInv'
      BY <2>19, <3>1, NoneAssumption DEF MaintPrune, TypeOK, PruneInv
    <3> QED BY <2>1, <2>19, <3>2 DEF MaintPrune
  <2>20. CASE Restart
    BY <2>20 DEF Restart, TypeOK, PruneInv, CountTracksCopies, Uploading
  <2>21. CASE UNCHANGED vars
    BY <2>1, <2>21 DEF PruneInv, vars, TypeOK
  <2> QED
    BY <2>2, <2>3, <2>4, <2>5, <2>6, <2>7, <2>8, <2>9, <2>10, <2>11, <2>12,
       <2>13, <2>14, <2>15, <2>16, <2>17, <2>18, <2>19, <2>20, <2>21 DEF Next
<1> QED BY <1>1, <1>2, PTL DEF Spec

-----------------------------------------------------------------------------
(* The properties *)

\* Every state has its type: in particular the pendingChunks counter of an
\* upload never goes below zero, whatever reports arrive in whatever order.
THEOREM NamespaceTyping == Spec => []TypeOK
<1>1. NamespaceInv => TypeOK
  BY DEF NamespaceInv
<1> QED BY <1>1, NamespaceInvariant, PTL

\* An upload with chunks always has one that lacks a copy and that its
\* counter waits for, and the counter falls short of the chunks without a
\* copy by exactly the number of times failure reports emptied one.
THEOREM UploadsCanFinish == Spec => []CountTracksCopies
<1>1. NamespaceInv => CountTracksCopies
  BY DEF NamespaceInv
<1> QED BY <1>1, NamespaceInvariant, PTL

\* A file is committed with exactly as many chunks without a copy as failure
\* reports emptied during its upload.
THEOREM CommitIsWhole == Spec => CommitMissesEmptied
<1>1. ASSUME NamespaceInv, [Next]_vars, NEW f \in File, Committed(f)
      PROVE  Cardinality(Uncopied(files'[f])) = emptied[f]
  <2>1. files' # files /\ pendingFiles' # pendingFiles
    BY <1>1 DEF Committed
  <2>2. PICK r \in Reporter, g \in File, c \in ChunkId, n \in Node : ReportStored(r, g, c, n)
    BY <1>1, <2>1, Zenon DEF Next, vars, PutCheckFiles, PutCheckPending, PutRefuse,
       PutInsert, ReportStoredNotPending, ReportStoredFiles, ReportFailedFiles,
       ReportFailedPending, LeaseLapse, LeaseRenew, ClientGone, LeaseSweep,
       SendExpired, DeleteFile, MaintSnapshot, MaintLock, MaintPrune, Restart
  <2> DEFINE m == pendingFiles[f]
  <2>3. g = f
    BY <1>1, <2>2 DEF ReportStored, Drop, Committed, NamespaceInv, TypeOK
  <2>4. /\ FirstCopy(f, c) /\ pendingChunks[f] - 1 = 0
        /\ files' = [files EXCEPT ![f] = AddNode(m, c, n)]
    BY <1>1, <2>2, <2>3 DEF ReportStored, Committed
  <2>5. /\ m \in Meta /\ emptied[f] \in Nat /\ pendingChunks[f] \in Nat
        /\ CountOK(m, pendingChunks[f], emptied[f])
    BY <1>1, CountPerFile DEF Committed, NamespaceInv, TypeOK
  <2>6. Uncopied(files'[f]) = Uncopied(m) \ {c}
    BY <1>1, <2>4, <2>5, AddNodeUncopied DEF NamespaceInv, TypeOK
  <2>7. c \in Uncopied(m) /\ IsFiniteSet(Uncopied(m)) /\ Cardinality(Uncopied(m)) \in Nat
    BY <2>4, <2>5, UncopiedFinite DEF FirstCopy
  <2> HIDE DEF m
  <2>8. Cardinality(Uncopied(m) \ {c}) = Cardinality(Uncopied(m)) - 1
    BY <2>7, FS_RemoveElement
  <2>9. Cardinality(Uncopied(m)) - 1 = emptied[f]
    BY <2>4, <2>5, <2>7 DEF CountOK
  <2> QED BY <2>6, <2>8, <2>9
<1>2. NamespaceInv /\ [Next]_vars =>
        [\A f \in File : Committed(f) => Cardinality(Uncopied(files'[f])) = emptied[f]]_vars
  BY <1>1
<1> QED BY <1>2, NamespaceInvariant, PTL DEF Spec, CommitMissesEmptied

\* A name that is neither committed nor being uploaded stays so until a new
\* upload: no late report, sweep or pruning enters it again.
THEOREM DeletedStays == Spec => DeletedStaysDeleted
<1>1. ASSUME NamespaceInv, [Next]_vars, NEW f \in File, f \notin Listed \cup Uploading
      PROVE  files'[f] = None
  <2>1. files[f] = None /\ pendingFiles[f] = None /\ files \in [File -> Meta \cup {None}]
    BY <1>1 DEF Listed, Uploading, NamespaceInv, TypeOK
  <2>2. CASE files' = files
    BY <2>1, <2>2
  <2>3. CASE \E r \in Reporter, g \in File, c \in ChunkId, n \in Node :
               ReportStored(r, g, c, n) \/ ReportFailedFiles(r, g, c, n)
    <3>1. PICK r \in Reporter, g \in File, c \in ChunkId, n \in Node :
               ReportStored(r, g, c, n) \/ ReportFailedFiles(r, g, c, n)
      BY <2>3
    <3>2. CASE ReportStored(r, g, c, n)
      BY <2>1, <3>2 DEF ReportStored, Uploading
    <3>3. CASE ReportFailedFiles(r, g, c, n)
      BY <2>1, <3>3 DEF ReportFailedFiles
    <3> QED BY <3>1, <3>2, <3>3
  <2>4. CASE \E r \in Reporter : ReportStoredFiles(r)
    BY <2>1, <2>4 DEF ReportStoredFiles
  <2>5. CASE \E g \in File : DeleteFile(g) \/ MaintPrune(g)
    BY <1>1, <2>1, <2>5 DEF DeleteFile, MaintPrune, NamespaceInv, PruneInv
  <2> QED
    BY <1>1, <2>2, <2>3, <2>4, <2>5, Zenon DEF Next, vars, PutCheckFiles, PutCheckPending,
       PutRefuse, PutInsert, ReportStoredNotPending, ReportFailedPending, LeaseLapse,
       LeaseRenew, ClientGone, LeaseSweep, SendExpired, MaintSnapshot, MaintLock, Restart
<1>2. NamespaceInv /\ [Next]_vars =>
        [\A f \in File : f \notin Listed \cup Uploading => files'[f] = None]_vars
  BY <1>1
<1> QED BY <1>2, NamespaceInvariant, PTL DEF Spec, DeletedStaysDeleted
=============================================================================

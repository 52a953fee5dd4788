-------------------------- MODULE Transfer_proofs ---------------------------
(***************************************************************************)
(* Proofs about Transfer, for every set of nodes, chunks and uploads and   *)
(* every number of goroutines and failures.                                *)
(***************************************************************************)
EXTENDS Transfer, FiniteSetTheorems, TLAPS

-----------------------------------------------------------------------------
(* The invariant.                                                          *)

Progress ==
    /\ \A u \in Upload :
          /\ client[u].at = "idle" => client[u].kept = {}
          /\ client[u].at = "complete" => client[u].kept = Chunk
    /\ entry # None => client[entry.of].at # "idle"
    /\ IF get.at = "idle" THEN get = NoGet
       ELSE get.of \in Upload /\ client[get.of].at # "idle"

TypeInv == TypeOK /\ Progress

\* While the name stands for an upload, what is under way belongs to it.
OneUpload ==
    entry # None =>
        /\ commands = {}
        /\ \A u \in Upload : client[u].at = "storing" => u = entry.of
        /\ \A t \in tasks : t.of = entry.of

\* A success report on its way is true; a listed node has the content, or has
\* nothing and its failure report is on its way.
TrueReports ==
    entry # None =>
        \A n \in Node, c \in Chunk :
            /\ <<n, c, TRUE>> \in reports => disk[n, c] = entry.of
            /\ n \in entry.nodes[c] =>
                  \/ disk[n, c] = entry.of
                  \/ disk[n, c] = None /\ <<n, c, FALSE>> \in reports

\* A client that gets the upload the name stands for can copy nothing else.
Copied ==
    entry # None /\ get.at # "idle" /\ entry.of = get.of =>
        \A c \in Chunk :
            /\ \A n \in get.from[c] : disk[n, c] \in {get.of, None}
            /\ get.got[c] \in {get.of, None}
            /\ get.at = "complete" => get.got[c] # None

\* Chunks still to be counted: not stored yet or reported and not listed.
Owed ==
    {c \in Chunk : /\ entry.nodes[c] = {}
                   /\ \/ c \notin client[entry.of].kept
                      \/ \E n \in Node : <<n, c, TRUE>> \in reports}

CountInv == entry # None /\ entry.pending => entry.count <= Cardinality(Owed)

\* The name stands for an upload that goes on or is complete.
Standing ==
    \A u \in Upload :
        client[u].at \in {"storing", "complete"} /\ ~client[u].deleted =>
            entry # None /\ entry.of = u

TransferInv ==
    ~stale /\ ~lost => OneUpload /\ TrueReports /\ Copied /\ CountInv /\ Standing
-----------------------------------------------------------------------------
(* The operators.                                                          *)

\* The bounds of the model as numbers.
LEMMA Numbers ==
  /\ Cardinality(Chunk) \in Nat /\ Cardinality(Chunk) > 0
  /\ ReplicationFactor \in Nat /\ ReplicationFactor >= 1
  /\ MaxFail \in Nat
<1>1. Cardinality(Chunk) \in Nat /\ Cardinality(Chunk) # 0
  BY TransferAssumption, FS_CardinalityType, FS_EmptySet
<1>2. Cardinality(Node) \in Nat
  BY TransferAssumption, FS_CardinalityType
<1> QED BY <1>1, <1>2, TransferAssumption

Coherent(e) == e.pending <=> e.count > 0

\* A success report lists its node and counts a chunk of a pending file once
\* it has a node.
LEMMA ListingOK ==
  ASSUME entry \in Entry, Coherent(entry), NEW n \in Node, NEW c \in Chunk
  PROVE  /\ Listing(n, c) \in Entry /\ Coherent(Listing(n, c))
         /\ Listing(n, c).of = entry.of
         /\ Listing(n, c).nodes = [entry.nodes EXCEPT ![c] = @ \cup {n}]
         /\ Listing(n, c).count = IF entry.pending /\ entry.nodes[c] = {}
                                  THEN entry.count - 1 ELSE entry.count
<1> DEFINE count == IF entry.pending /\ entry.nodes[c] = {} THEN entry.count - 1 ELSE entry.count
           nodes == [entry.nodes EXCEPT ![c] = @ \cup {n}]
<1>1. /\ entry.of \in Upload /\ entry.pending \in BOOLEAN
      /\ entry.count \in 0..Cardinality(Chunk) /\ entry.nodes \in [Chunk -> SUBSET Node]
  BY DEF Entry
<1>2. count \in 0..Cardinality(Chunk)
  BY <1>1, Numbers DEF Coherent
<1>3. nodes \in [Chunk -> SUBSET Node]
  BY <1>1
<1>4. Listing(n, c) = [entry EXCEPT !.nodes[c] = @ \cup {n}, !.count = count, !.pending = count > 0]
  BY DEF Listing
<1> HIDE DEF count
<1>5. /\ Listing(n, c).of = entry.of /\ Listing(n, c).count = count
      /\ Listing(n, c).nodes = nodes
  BY <1>4 DEF Entry
<1>6. Listing(n, c).pending = (count > 0)
  BY <1>4 DEF Entry
<1>7. Listing(n, c) \in Entry
  <2>1. [entry EXCEPT !.nodes[c] = @ \cup {n}, !.count = count, !.pending = TRUE] \in Entry
    BY <1>1, <1>2, <1>3 DEF Entry
  <2>2. [entry EXCEPT !.nodes[c] = @ \cup {n}, !.count = count, !.pending = FALSE] \in Entry
    BY <1>1, <1>2, <1>3 DEF Entry
  <2>3. (count > 0) = TRUE \/ (count > 0) = FALSE
    OBVIOUS
  <2> QED BY <1>4, <2>1, <2>2, <2>3
<1> QED BY <1>5, <1>6, <1>7 DEF count, Coherent

\* A failure report takes its node off the list.
LEMMA DelistingOK ==
  ASSUME entry \in Entry, Coherent(entry), NEW n \in Node, NEW c \in Chunk
  PROVE  LET e == [entry EXCEPT !.nodes[c] = @ \ {n}] IN
         /\ e \in Entry /\ Coherent(e)
         /\ e.of = entry.of /\ e.pending = entry.pending /\ e.count = entry.count
         /\ e.nodes = [entry.nodes EXCEPT ![c] = @ \ {n}]
BY DEF Entry, Coherent

\* Reports have their type.
LEMMA TripleOK ==
  \A n \in Node, c \in Chunk : /\ <<n, c, TRUE>> \in Node \X Chunk \X BOOLEAN
                               /\ <<n, c, FALSE>> \in Node \X Chunk \X BOOLEAN
OBVIOUS

\* What a node that stores a client's chunk writes, reports and starts.
LEMMA OriginalOK ==
  ASSUME TypeOK, NEW u \in Upload, NEW c \in Chunk, NEW n \in Node, Original(u, c, n)
  PROVE  /\ disk' \in [Node \X Chunk -> Upload \cup {None}]
         /\ disk'[n, c] = u
         /\ \A m \in Node, d \in Chunk : <<m, d>> # <<n, c>> => disk'[m, d] = disk[m, d]
         /\ reports' = reports \cup {<<n, c, TRUE>>}
         /\ reports' \subseteq Node \X Chunk \X BOOLEAN
         /\ tasks \subseteq tasks' /\ tasks' \subseteq Task
         /\ \A t \in tasks' \ tasks : t.of = u
<1>1. disk' = [disk EXCEPT ![<<n, c>>] = u] /\ reports' = reports \cup {<<n, c, TRUE>>}
  BY DEF Original
<1>2. /\ disk' \in [Node \X Chunk -> Upload \cup {None}]
      /\ disk'[n, c] = u
  BY <1>1 DEF TypeOK
<1>3. \A m \in Node, d \in Chunk : <<m, d>> # <<n, c>> => disk'[m, d] = disk[m, d]
  BY <1>1 DEF TypeOK
<1>4. reports' \subseteq Node \X Chunk \X BOOLEAN
  BY <1>1, TripleOK DEF TypeOK
<1>5. CASE ReplicationFactor = 1
  <2>1. tasks' = tasks
    BY <1>5 DEF Original
  <2> QED BY <1>1, <1>2, <1>3, <1>4, <2>1 DEF TypeOK
<1>6. CASE ReplicationFactor # 1
  <2> DEFINE t == [src |-> n, chunk |-> c, of |-> u, need |-> ReplicationFactor - 1, targets |-> {}]
  <2>1. t \in Task
    BY <1>6, Numbers DEF Task
  <2>2. tasks' = tasks \cup {t} /\ t.of = u
    BY <1>6 DEF Original
  <2> HIDE DEF t
  <2>3. tasks' \subseteq Task
    BY <2>1, <2>2 DEF TypeOK
  <2> QED BY <1>1, <1>2, <1>3, <1>4, <2>2, <2>3
<1> QED BY <1>5, <1>6

\* What a failed transfer leaves at its target.
LEMMA SpoilOK ==
  ASSUME TypeOK, NEW c \in Chunk, NEW n \in Node, Spoil(n, c)
  PROVE  /\ disk' \in [Node \X Chunk -> Upload \cup {None}]
         /\ disk'[n, c] = None
         /\ \A m \in Node, d \in Chunk : <<m, d>> # <<n, c>> => disk'[m, d] = disk[m, d]
         /\ reports' = reports \cup {<<n, c, FALSE>>}
         /\ reports' \subseteq Node \X Chunk \X BOOLEAN
         /\ stale' \in BOOLEAN
         /\ ~stale' => ~stale /\ <<n, c, TRUE>> \notin reports
<1>1. disk' = [disk EXCEPT ![<<n, c>>] = None] /\ reports' = reports \cup {<<n, c, FALSE>>}
  BY DEF Spoil
<1>2. /\ disk' \in [Node \X Chunk -> Upload \cup {None}]
      /\ disk'[n, c] = None
  BY <1>1 DEF TypeOK
<1>3. \A m \in Node, d \in Chunk : <<m, d>> # <<n, c>> => disk'[m, d] = disk[m, d]
  BY <1>1 DEF TypeOK
<1>4. reports' \subseteq Node \X Chunk \X BOOLEAN
  BY <1>1, TripleOK DEF TypeOK
<1> QED BY <1>1, <1>2, <1>3, <1>4 DEF Spoil

\* The budget of failures.
LEMMA FailOK == TypeOK /\ Fail => fails' \in 0..MaxFail
BY Numbers DEF TypeOK, Fail
-----------------------------------------------------------------------------
(* Typing.                                                                 *)

LEMMA TypeInvInit == Init => TypeInv
<1> SUFFICES ASSUME Init PROVE TypeOK /\ Progress
  BY DEF TypeInv
<1>1. NoGet \in Get /\ NoGet.at = "idle"
  BY DEF NoGet, Get, Nobody
<1>2. [at |-> "idle", left |-> Nobody, kept |-> {}, deleted |-> FALSE] \in Client
  BY DEF Client, Nobody
<1>3. disk \in [Node \X Chunk -> Upload \cup {None}] /\ client \in [Upload -> Client]
  BY <1>2 DEF Init
<1>5. fails \in 0..MaxFail /\ lost \in BOOLEAN /\ stale \in BOOLEAN
  <2>1. fails \in 0..MaxFail
    BY Numbers DEF Init
  <2>2. lost \in BOOLEAN /\ stale \in BOOLEAN
    BY Zenon DEF Init
  <2> QED BY <2>1, <2>2
<1>6. /\ entry = None /\ get \in Get
      /\ reports = {} /\ commands = {} /\ tasks = {}
  BY <1>1 DEF Init
<1>7. TypeOK
  BY <1>3, <1>5, <1>6 DEF TypeOK
<1>4. Progress
  BY <1>1 DEF Init, Progress
<1> QED BY <1>7, <1>4

\* The steps of the client that puts u leave the other clients alone.
LEMMA KeptOK ==
  ASSUME TypeInv, NEW u \in Upload, NEW c \in Chunk, Kept(u, c), client[u].at = "storing"
  PROVE  /\ client' \in [Upload -> Client]
         /\ \A v \in Upload \ {u} : client'[v] = client[v]
         /\ client'[u].at \in {"storing", "complete"}
         /\ client'[u].kept = client[u].kept \cup {c}
         /\ client'[u].deleted = client[u].deleted
         /\ client'[u].at = "complete" => client'[u].kept = Chunk
<1> DEFINE i == [client[u] EXCEPT !.kept = @ \cup {c},
                     !.at = IF client[u].kept \cup {c} = Chunk THEN "complete" ELSE @]
<1>1. client[u] \in Client
  BY DEF TypeInv, TypeOK
<1>2. /\ i \in Client /\ i.at \in {"storing", "complete"} /\ i.deleted = client[u].deleted
      /\ i.kept = client[u].kept \cup {c} /\ (i.at = "complete" => i.kept = Chunk)
  BY <1>1 DEF Client
<1>3. client' = [client EXCEPT ![u] = i]
  BY DEF Kept, TypeInv, TypeOK
<1> HIDE DEF i
<1> QED BY <1>2, <1>3 DEF TypeInv, TypeOK

LEMMA TypeInvNext == TypeInv /\ [Next]_vars => TypeInv'
<1> SUFFICES ASSUME TypeOK, Progress, [Next]_vars PROVE TypeOK' /\ Progress'
  BY DEF TypeInv
<1>a. /\ entry # None => entry \in Entry /\ Coherent(entry)
      /\ client \in [Upload -> Client] /\ get \in Get /\ tasks \subseteq Task
      /\ \A u \in Upload : client[u] \in Client
  BY DEF TypeOK, Coherent
<1>b. ASSUME NEW e \in Entry, Coherent(e) PROVE e \in Entry \cup {None} /\ (e # None => (e.pending <=> e.count > 0))
  BY <1>b DEF Coherent
<1>1. ASSUME NEW u \in Upload, Put(u) PROVE TypeOK' /\ Progress'
  <2>1. PICK alloc \in [Chunk -> {T \in SUBSET Node : Cardinality(T) = ReplicationFactor}] :
           client' = [client EXCEPT ![u].at = "storing", ![u].left = alloc]
    BY <1>1 DEF Put
  <2>2. alloc \in [Chunk -> SUBSET Node]
    OBVIOUS
  <2>3. /\ client' \in [Upload -> Client] /\ client'[u].at = "storing"
        /\ \A v \in Upload \ {u} : client'[v] = client[v]
    BY <2>1, <2>2, <1>a DEF Client
  <2>4. entry' \in Entry /\ Coherent(entry')
    <3>1. entry' = [of |-> u, pending |-> TRUE, count |-> Cardinality(Chunk), nodes |-> Nobody]
      BY <1>1 DEF Put
    <3> QED BY <3>1, Numbers DEF Entry, Coherent, Nobody
  <2>5. stale' \in BOOLEAN
    BY <1>1 DEF Put
  <2>6. TypeOK'
    BY <1>1, <1>b, <2>3, <2>4, <2>5 DEF Put, TypeOK
  <2> QED BY <1>1, <2>3, <2>6 DEF Put, Progress
<1>2. ASSUME NEW u \in Upload, PutFatal(u) PROVE TypeOK' /\ Progress'
  <2>1. /\ client' \in [Upload -> Client] /\ client'[u].at = "fatal"
        /\ \A v \in Upload \ {u} : client'[v] = client[v]
    BY <1>2, <1>a DEF PutFatal, Client
  <2>2. fails' \in 0..MaxFail
    BY <1>2, FailOK DEF PutFatal, TypeOK
  <2>3. TypeOK'
    BY <1>2, <2>1, <2>2 DEF PutFatal, TypeOK
  <2> QED BY <1>2, <2>1, <2>3 DEF PutFatal, Progress
<1>3. ASSUME NEW u \in Upload, NEW c \in Chunk, NEW n \in Node, Store(u, c, n)
      PROVE  TypeOK' /\ Progress'
  <2>1. Original(u, c, n) /\ Kept(u, c) /\ client[u].at = "storing"
    BY <1>3 DEF Store, Storing
  <2>2. /\ disk' \in [Node \X Chunk -> Upload \cup {None}]
        /\ reports' \subseteq Node \X Chunk \X BOOLEAN /\ tasks' \subseteq Task
    BY <2>1, OriginalOK
  <2>3. /\ client' \in [Upload -> Client]
        /\ \A v \in Upload \ {u} : client'[v] = client[v]
        /\ client'[u].at \in {"storing", "complete"}
        /\ client'[u].at = "complete" => client'[u].kept = Chunk
    BY <2>1, KeptOK DEF TypeInv
  <2>4. TypeOK'
    BY <1>3, <2>2, <2>3 DEF Store, TypeOK
  <2>5. UNCHANGED <<entry, get>> /\ (entry # None => entry.of \in Upload)
    BY <1>3, <1>a DEF Store, Entry
  <2>6. Progress'
    BY <2>3, <2>5 DEF Progress
  <2> QED BY <2>4, <2>6
<1>4. ASSUME NEW u \in Upload, NEW c \in Chunk, NEW n \in Node, StoreFails(u, c, n)
      PROVE  TypeOK' /\ Progress'
  <2>1. /\ client' \in [Upload -> Client] /\ client'[u].at = "storing"
        /\ \A v \in Upload \ {u} : client'[v] = client[v]
    BY <1>4, <1>a DEF StoreFails, Storing, Client
  <2>2. /\ disk' \in [Node \X Chunk -> Upload \cup {None}]
        /\ reports' \subseteq Node \X Chunk \X BOOLEAN /\ tasks' \subseteq Task
        /\ stale' \in BOOLEAN
    <3>1. CASE UNCHANGED <<disk, reports, tasks, stale>>
      BY <3>1 DEF TypeOK
    <3>2. CASE Spoil(n, c) /\ UNCHANGED tasks
      BY <3>2, SpoilOK DEF TypeOK
    <3>3. CASE Original(u, c, n) /\ UNCHANGED stale
      BY <3>3, OriginalOK DEF TypeOK
    <3> QED BY <1>4, <3>1, <3>2, <3>3 DEF StoreFails
  <2>3. fails' \in 0..MaxFail
    BY <1>4, FailOK DEF StoreFails
  <2>4. TypeOK'
    BY <1>4, <2>1, <2>2, <2>3 DEF StoreFails, TypeOK
  <2>5. UNCHANGED <<entry, get>> /\ (entry # None => entry.of \in Upload)
    BY <1>4, <1>a DEF StoreFails, Entry
  <2>6. client[u].at = "storing"
    BY <1>4 DEF StoreFails, Storing
  <2>7. \A v \in Upload : client'[v].at = client[v].at /\ (client[v].at # "storing" => client'[v] = client[v])
    BY <2>1, <2>6
  <2>8. Progress'
    BY <2>5, <2>7 DEF Progress
  <2> QED BY <2>4, <2>8
<1>5. ASSUME NEW n \in Node, NEW c \in Chunk, NEW ok \in BOOLEAN, Report(n, c, ok)
      PROVE  TypeOK' /\ Progress'
  <2>1. /\ entry' \in Entry \cup {None}
        /\ entry' # None => /\ entry'.pending <=> entry'.count > 0
                           /\ entry # None /\ entry'.of = entry.of
    <3>1. CASE entry = None
      BY <1>5, <3>1 DEF Report
    <3>2. CASE entry # None /\ ok
      BY <1>5, <1>a, <1>b, <3>2, ListingOK DEF Report
    <3>3. CASE entry # None /\ ~ok
      BY <1>5, <1>a, <1>b, <3>3, DelistingOK DEF Report
    <3> QED BY <3>1, <3>2, <3>3
  <2>2. reports' \subseteq Node \X Chunk \X BOOLEAN
    BY <1>5 DEF Report, TypeOK
  <2>3. TypeOK'
    BY <1>5, <2>1, <2>2 DEF Report, TypeOK
  <2>4. Progress'
    <3>1. UNCHANGED <<client, get>>
      BY <1>5 DEF Report
    <3>2. entry' # None => entry # None /\ entry'.of = entry.of
      BY <2>1
    <3> QED BY <3>1, <3>2 DEF Progress
  <2> QED BY <2>3, <2>4
<1>6. ASSUME NEW n \in Node, NEW c \in Chunk, NEW ok \in BOOLEAN, ReportLost(n, c, ok)
      PROVE  TypeOK' /\ Progress'
  <2>1. fails' \in 0..MaxFail /\ lost' \in BOOLEAN
    BY <1>6, FailOK DEF ReportLost
  <2>2. reports' \subseteq Node \X Chunk \X BOOLEAN
    BY <1>6 DEF ReportLost, TypeOK
  <2>3. TypeOK'
    BY <1>6, <2>1, <2>2 DEF ReportLost, TypeOK
  <2> QED BY <1>6, <2>3 DEF ReportLost, Progress
<1>7. ASSUME Drop, entry # None PROVE entry' = None /\ commands' \subseteq Node
  <2>1. entry.nodes \in [Chunk -> SUBSET Node]
    BY <1>7, <1>a DEF Entry
  <2> QED BY <1>7, <2>1 DEF Drop, TypeOK
<1>8. CASE Sweep
  <2>1. TypeOK'
    BY <1>7, <1>8 DEF Sweep, TypeOK
  <2> QED BY <1>7, <1>8, <2>1 DEF Sweep, Progress
<1>9. CASE Delete
  <2>1. entry.of \in Upload
    BY <1>9, <1>a DEF Delete, Entry
  <2>2. /\ client' \in [Upload -> Client]
        /\ \A v \in Upload : client'[v].at = client[v].at /\ client'[v].kept = client[v].kept
    BY <1>9, <2>1, <1>a DEF Delete, Client
  <2>3. TypeOK'
    BY <1>7, <1>9, <2>2 DEF Delete, TypeOK
  <2> QED BY <1>7, <1>9, <2>2, <2>3 DEF Delete, Progress
<1>10. ASSUME NEW n \in Node, Command(n) PROVE TypeOK' /\ Progress'
  <2>1. disk' \in [Node \X Chunk -> Upload \cup {None}] /\ fails' \in 0..MaxFail
    BY <1>10, FailOK DEF Command, TypeOK
  <2>2. commands' \subseteq Node
    BY <1>10 DEF Command, TypeOK
  <2>3. TypeOK'
    BY <1>10, <2>1, <2>2 DEF Command, TypeOK
  <2> QED BY <1>10, <2>3 DEF Command, Progress
<1>11. ASSUME NEW t \in tasks, NEW s \in Task, Becomes(t, s) PROVE tasks' \subseteq Task
  BY <1>11, <1>a DEF Becomes
<1>12. ASSUME NEW t \in tasks, NEW n PROVE [t EXCEPT !.targets = @ \ {n}] \in Task
  BY <1>a DEF Task
<1>13. ASSUME NEW t \in tasks, Ask(t) PROVE TypeOK' /\ Progress'
  <2>1. PICK T \in SUBSET Unlisted(t.chunk) : Becomes(t, [t EXCEPT !.targets = T])
    BY <1>13 DEF Ask
  <2>2. T \subseteq Node
    BY DEF Unlisted
  <2>3. [t EXCEPT !.targets = T] \in Task
    BY <2>2, <1>a DEF Task
  <2>4. tasks' \subseteq Task
    BY <2>1, <2>3, <1>11
  <2>5. TypeOK'
    BY <1>13, <2>4 DEF Ask, TypeOK
  <2> QED BY <1>13, <2>5 DEF Ask, Progress
<1>14. ASSUME NEW t \in tasks, ReplicateToSelf(t) PROVE TypeOK' /\ Progress'
  <2>1. t.src \in Node /\ t.chunk \in Chunk
    BY <1>a DEF Task
  <2>2. /\ disk' \in [Node \X Chunk -> Upload \cup {None}]
        /\ reports' \subseteq Node \X Chunk \X BOOLEAN /\ stale' \in BOOLEAN
    BY <1>14, <2>1, SpoilOK DEF ReplicateToSelf
  <2>3. tasks' \subseteq Task
    BY <1>11, <1>12, <1>14 DEF ReplicateToSelf, Missed
  <2>4. TypeOK'
    BY <1>14, <2>2, <2>3 DEF ReplicateToSelf, TypeOK
  <2> QED BY <1>14, <2>4 DEF ReplicateToSelf, Progress
<1>15. ASSUME NEW t \in tasks, NEW n \in Node, Replicate(t, n) PROVE TypeOK' /\ Progress'
  <2>1. t.chunk \in Chunk /\ t.of \in Upload /\ t.need \in 1..ReplicationFactor
    BY <1>a DEF Task
  <2>2. tasks' \subseteq Task
    <3>1. CASE t.need = 1
      BY <1>15, <3>1, <1>a DEF Replicate
    <3>2. CASE t.need # 1
      <4>2. t.need - 1 \in 1..ReplicationFactor
        BY <2>1, <3>2, Numbers
      <4>1. [t EXCEPT !.need = @ - 1, !.targets = @ \ {n}] \in Task
        BY <4>2, <1>a DEF Task
      <4> QED BY <1>11, <1>15, <3>2, <4>1 DEF Replicate
    <3> QED BY <3>1, <3>2
  <2>3. disk' \in [Node \X Chunk -> Upload \cup {None}]
    BY <1>15, <2>1 DEF Replicate, TypeOK
  <2>4. reports' \subseteq Node \X Chunk \X BOOLEAN
    BY <1>15, <2>1, TripleOK DEF Replicate, TypeOK
  <2>5. TypeOK'
    BY <1>15, <2>2, <2>3, <2>4 DEF Replicate, TypeOK
  <2> QED BY <1>15, <2>5 DEF Replicate, Progress
<1>16. ASSUME NEW t \in tasks, NEW n \in Node, ReplicateFails(t, n) PROVE TypeOK' /\ Progress'
  <2>1. t.chunk \in Chunk
    BY <1>a DEF Task
  <2>2. /\ disk' \in [Node \X Chunk -> Upload \cup {None}]
        /\ reports' \subseteq Node \X Chunk \X BOOLEAN /\ stale' \in BOOLEAN
    <3>1. CASE UNCHANGED <<disk, reports, stale>>
      BY <3>1 DEF TypeOK
    <3>2. CASE Spoil(n, t.chunk)
      BY <3>2, <2>1, SpoilOK
    <3> QED BY <1>16, <3>1, <3>2 DEF ReplicateFails
  <2>3. fails' \in 0..MaxFail
    BY <1>16, FailOK DEF ReplicateFails, TypeOK
  <2>4. tasks' \subseteq Task
    BY <1>11, <1>12, <1>16 DEF ReplicateFails, Missed
  <2>5. TypeOK'
    BY <1>16, <2>2, <2>3, <2>4 DEF ReplicateFails, TypeOK
  <2> QED BY <1>16, <2>5 DEF ReplicateFails, Progress
<1>17. ASSUME NEW n \in Node, NEW c \in Chunk, Dispatch(n, c) PROVE TypeOK' /\ Progress'
  <2> DEFINE t == [src |-> n, chunk |-> c, of |-> disk[n, c], targets |-> {},
                   need |-> ReplicationFactor - Cardinality(entry.nodes[c])]
  <2>1. entry.nodes[c] \subseteq Node /\ n \in entry.nodes[c]
    BY <1>17, <1>a DEF Dispatch, Entry
  <2>2. IsFiniteSet(entry.nodes[c])
    BY <2>1, TransferAssumption, FS_Subset
  <2>3. Cardinality(entry.nodes[c]) \in Nat
    BY <2>2, FS_CardinalityType
  <2>8. Cardinality(entry.nodes[c]) >= 1 /\ Cardinality(entry.nodes[c]) < ReplicationFactor
    <3>1. Cardinality(entry.nodes[c]) # 0
      BY <2>1, <2>2, FS_EmptySet
    <3>2. Cardinality(entry.nodes[c]) < ReplicationFactor
      BY <1>17 DEF Dispatch
    <3> HIDE DEF t
    <3> QED BY <2>3, <3>1, <3>2
  <2>4. ReplicationFactor - Cardinality(entry.nodes[c]) \in 1..ReplicationFactor
    BY <2>3, <2>8, Numbers
  <2>5. disk[n, c] \in Upload
    BY <1>17 DEF Dispatch, TypeOK
  <2>6. t \in Task
    BY <2>4, <2>5 DEF Task
  <2>7. tasks' = tasks \cup {t}
    BY <1>17 DEF Dispatch
  <2> HIDE DEF t
  <2>9. TypeOK'
    BY <1>17, <2>6, <2>7 DEF Dispatch, TypeOK
  <2> QED BY <1>17, <2>9 DEF Dispatch, Progress
<1>18. CASE GetLocations
  <2>1. entry \in Entry /\ entry.of \in Upload /\ entry.nodes \in [Chunk -> SUBSET Node]
    BY <1>18, <1>a DEF GetLocations, Entry
  <2>2. get' \in Get /\ get'.of = entry.of
    BY <1>18, <2>1, <1>a DEF GetLocations, Get
  <2>3. client[entry.of].at # "idle"
    BY <1>18 DEF GetLocations, Progress
  <2>4. TypeOK'
    BY <1>18, <2>2 DEF GetLocations, TypeOK
  <2> QED BY <1>18, <2>1, <2>2, <2>3, <2>4 DEF GetLocations, Progress
<1>19. ASSUME NEW c \in Chunk, NEW n \in Node, GetChunk(c, n) PROVE TypeOK' /\ Progress'
  <2>1. disk[n, c] \in Upload
    BY <1>19 DEF GetChunk, TypeOK
  <2>2. get' \in Get /\ get'.of = get.of /\ get.at # "idle" /\ get'.at # "idle"
    BY <1>19, <2>1, <1>a DEF GetChunk, Get
  <2>3. TypeOK'
    BY <1>19, <2>2 DEF GetChunk, TypeOK
  <2> QED BY <1>19, <2>2, <2>3 DEF GetChunk, Progress
<1>20. CASE GetEnds
  <2>1. NoGet \in Get /\ NoGet.at = "idle"
    BY DEF NoGet, Get, Nobody
  <2>2. TypeOK'
    BY <1>20, <2>1 DEF GetEnds, TypeOK
  <2> QED BY <1>20, <2>1, <2>2 DEF GetEnds, Progress
<1>21. CASE UNCHANGED vars
  BY <1>21 DEF vars, TypeOK, Progress
<1> QED
  BY <1>1, <1>2, <1>3, <1>4, <1>5, <1>6, <1>8, <1>9, <1>10, <1>13, <1>14, <1>15, <1>16,
     <1>17, <1>18, <1>19, <1>20, <1>21 DEF Next

\* Nothing the invariant is about heals by itself.
LEMMA Grows == TypeInv /\ [Next]_vars => (stale => stale') /\ (lost => lost')
<1> SUFFICES ASSUME [Next]_vars, TypeOK PROVE (stale => stale') /\ (lost => lost')
  BY DEF TypeInv
<1>1. ASSUME NEW n, NEW c, Spoil(n, c) PROVE stale => stale'
  BY <1>1 DEF Spoil
<1>2. ASSUME NEW u \in Upload, Put(u) \/ PutFatal(u) PROVE (stale => stale') /\ (lost => lost')
  <2>1. stale => stale'
    <3>1. CASE Put(u)
      BY <3>1 DEF Put
    <3>2. CASE PutFatal(u)
      BY <3>2 DEF PutFatal
    <3> QED BY <1>2, <3>1, <3>2
  <2>2. UNCHANGED lost
    BY <1>2 DEF Put, PutFatal
  <2> QED BY <2>1, <2>2
<1>3. ASSUME NEW u \in Upload, NEW c \in Chunk, NEW n \in Node, Store(u, c, n) \/ StoreFails(u, c, n)
      PROVE  (stale => stale') /\ (lost => lost')
  <2>1. UNCHANGED stale \/ Spoil(n, c)
    BY <1>3 DEF Store, StoreFails
  <2>2. UNCHANGED lost
    BY <1>3 DEF Store, StoreFails
  <2> QED BY <1>1, <2>1, <2>2
<1>4. ASSUME NEW n \in Node, NEW c \in Chunk, NEW ok \in BOOLEAN, Report(n, c, ok) \/ ReportLost(n, c, ok)
      PROVE  (stale => stale') /\ (lost => lost')
  BY <1>4 DEF Report, ReportLost
<1>5. CASE Sweep \/ Delete \/ GetLocations \/ GetEnds
  BY <1>5 DEF Sweep, Delete, GetLocations, GetEnds
<1>6. ASSUME NEW n \in Node, Command(n) PROVE (stale => stale') /\ (lost => lost')
  BY <1>6 DEF Command
<1>7. ASSUME NEW t \in tasks, Ask(t) \/ ReplicateToSelf(t) PROVE (stale => stale') /\ (lost => lost')
  <2>1. UNCHANGED stale \/ Spoil(t.src, t.chunk)
    BY <1>7 DEF Ask, ReplicateToSelf
  <2>2. UNCHANGED lost
    BY <1>7 DEF Ask, ReplicateToSelf
  <2> QED BY <1>1, <2>1, <2>2
<1>8. ASSUME NEW t \in tasks, NEW n \in Node, Replicate(t, n) \/ ReplicateFails(t, n)
      PROVE  (stale => stale') /\ (lost => lost')
  <2>1. UNCHANGED stale \/ Spoil(n, t.chunk)
    BY <1>8 DEF Replicate, ReplicateFails
  <2>2. UNCHANGED lost
    BY <1>8 DEF Replicate, ReplicateFails
  <2> QED BY <1>1, <2>1, <2>2
<1>9. ASSUME NEW n \in Node, NEW c \in Chunk, Dispatch(n, c) \/ GetChunk(c, n)
      PROVE  (stale => stale') /\ (lost => lost')
  <2>1. UNCHANGED <<stale, lost>>
    BY <1>9 DEF Dispatch, GetChunk
  <2> QED BY <2>1
<1>10. CASE UNCHANGED vars
  BY <1>10 DEF vars
<1> QED BY <1>2, <1>3, <1>4, <1>5, <1>6, <1>7, <1>8, <1>9, <1>10 DEF Next

LEMMA Typing == Spec => []TypeInv
<1> QED BY TypeInvInit, TypeInvNext, PTL DEF Spec

\* What the controller, the nodes, the clients and the goroutines hold always
\* has the shape their types give it, and a name is pending exactly as long
\* as chunks of it are to be counted.
THEOREM TransferTyping == Spec => []TypeOK
<1>1. TypeInv => TypeOK
  BY DEF TypeInv
<1> QED BY Typing, <1>1, PTL
-----------------------------------------------------------------------------
(* What the invariant's parts need of a step.                              *)

Whole == OneUpload /\ TrueReports /\ Copied /\ CountInv /\ Standing

\* The fields of a typed entry.
LEMMA EntryOK ==
  ASSUME TypeOK, entry # None
  PROVE  /\ entry.of \in Upload /\ entry.pending \in BOOLEAN
         /\ entry.count \in Nat /\ entry.nodes \in [Chunk -> SUBSET Node]
         /\ entry.pending <=> entry.count > 0
BY Numbers DEF TypeOK, Entry

\* Sets of chunks are finite and counted.
LEMMA ChunkSets ==
  ASSUME NEW T \in SUBSET Chunk
  PROVE  /\ IsFiniteSet(T) /\ Cardinality(T) \in Nat
         /\ \A S \in SUBSET T : Cardinality(S) <= Cardinality(T)
BY TransferAssumption, FS_Subset, FS_CardinalityType

\* While no chunk is counted, no more are owed than were.
LEMMA CountKept ==
  ASSUME TypeOK, CountInv, UNCHANGED entry, entry # None => Owed \subseteq Owed'
  PROVE  CountInv'
<1> SUFFICES ASSUME entry # None, entry.pending PROVE entry.count <= Cardinality(Owed')
  BY DEF CountInv
<1>1. Owed' \in SUBSET Chunk
  BY DEF Owed
<1>2. /\ Cardinality(Owed) \in Nat /\ Cardinality(Owed') \in Nat
      /\ Cardinality(Owed) <= Cardinality(Owed')
  <2>1. Owed \in SUBSET Chunk
    BY DEF Owed
  <2> QED BY <1>1, <2>1, ChunkSets
<1>3. entry.count <= Cardinality(Owed) /\ entry.count \in Nat
  BY EntryOK DEF CountInv
<1> QED BY <1>2, <1>3

\* The chunk is written, with the content the name stands for, and reported.
LEMMA WriteOK ==
  ASSUME TypeOK, TrueReports, Copied, UNCHANGED <<entry, get>>,
         NEW n \in Node, NEW c \in Chunk,
         entry # None => disk'[n, c] = entry.of,
         \A m \in Node, d \in Chunk : <<m, d>> # <<n, c>> => disk'[m, d] = disk[m, d],
         reports' = reports \cup {<<n, c, TRUE>>}
  PROVE  TrueReports' /\ Copied'
<1>1. TrueReports'
  <2> SUFFICES ASSUME entry # None, NEW m \in Node, NEW d \in Chunk
               PROVE  /\ <<m, d, TRUE>> \in reports' => disk'[m, d] = entry.of
                      /\ m \in entry.nodes[d] =>
                            \/ disk'[m, d] = entry.of
                            \/ disk'[m, d] = None /\ <<m, d, FALSE>> \in reports'
    BY DEF TrueReports
  <2>1. CASE <<m, d>> = <<n, c>>
    BY <2>1
  <2>2. CASE <<m, d>> # <<n, c>>
    <3>1. disk'[m, d] = disk[m, d] /\ (<<m, d, TRUE>> \in reports' => <<m, d, TRUE>> \in reports)
      BY <2>2
    <3> QED BY <3>1 DEF TrueReports
  <2> QED BY <2>1, <2>2
<1>2. Copied'
  <2> SUFFICES ASSUME entry # None, get.at # "idle", entry.of = get.of, NEW d \in Chunk
               PROVE  /\ \A m \in get.from[d] : disk'[m, d] \in {get.of, None}
                      /\ get.got[d] \in {get.of, None}
                      /\ get.at = "complete" => get.got[d] # None
    BY DEF Copied
  <2>1. ASSUME NEW m \in get.from[d] PROVE disk'[m, d] \in {get.of, None}
    <3>1. m \in Node /\ disk[m, d] \in {get.of, None}
      BY <2>1 DEF Copied, TypeOK, Get
    <3>2. CASE <<m, d>> = <<n, c>>
      BY <3>2
    <3>3. CASE <<m, d>> # <<n, c>>
      BY <3>1, <3>3
    <3> QED BY <3>2, <3>3
  <2> QED BY <2>1 DEF Copied
<1> QED BY <1>1, <1>2

\* The chunk is removed, and no success report of it was on its way.
LEMMA RemoveOK ==
  ASSUME TypeOK, TrueReports, Copied, UNCHANGED <<entry, get>>,
         NEW n \in Node, NEW c \in Chunk, Spoil(n, c), ~stale'
  PROVE  /\ TrueReports' /\ Copied' /\ reports \subseteq reports'
<1>1. /\ disk'[n, c] = None
      /\ \A m \in Node, d \in Chunk : <<m, d>> # <<n, c>> => disk'[m, d] = disk[m, d]
      /\ reports' = reports \cup {<<n, c, FALSE>>}
      /\ <<n, c, TRUE>> \notin reports
  BY SpoilOK
<1>2. TrueReports'
  <2> SUFFICES ASSUME entry # None, NEW m \in Node, NEW d \in Chunk
               PROVE  /\ <<m, d, TRUE>> \in reports' => disk'[m, d] = entry.of
                      /\ m \in entry.nodes[d] =>
                            \/ disk'[m, d] = entry.of
                            \/ disk'[m, d] = None /\ <<m, d, FALSE>> \in reports'
    BY DEF TrueReports
  <2>1. <<m, d, TRUE>> \in reports' => <<m, d, TRUE>> \in reports
    BY <1>1
  <2>2. CASE <<m, d>> = <<n, c>>
    BY <1>1, <2>1, <2>2
  <2>3. CASE <<m, d>> # <<n, c>>
    <3>1. disk'[m, d] = disk[m, d]
      BY <1>1, <2>3
    <3> QED BY <1>1, <2>1, <3>1 DEF TrueReports
  <2> QED BY <2>2, <2>3
<1>3. Copied'
  <2> SUFFICES ASSUME entry # None, get.at # "idle", entry.of = get.of, NEW d \in Chunk
               PROVE  /\ \A m \in get.from[d] : disk'[m, d] \in {get.of, None}
                      /\ get.got[d] \in {get.of, None}
                      /\ get.at = "complete" => get.got[d] # None
    BY DEF Copied
  <2>1. ASSUME NEW m \in get.from[d] PROVE disk'[m, d] \in {get.of, None}
    <3>1. m \in Node /\ disk[m, d] \in {get.of, None}
      BY <2>1 DEF Copied, TypeOK, Get
    <3>2. CASE <<m, d>> = <<n, c>>
      BY <1>1, <3>2
    <3>3. CASE <<m, d>> # <<n, c>>
      BY <1>1, <3>1, <3>3
    <3> QED BY <3>2, <3>3
  <2> QED BY <2>1 DEF Copied
<1> QED BY <1>1, <1>2, <1>3

\* Parts a step leaves alone.
LEMMA OneUploadKept ==
  ASSUME OneUpload, UNCHANGED <<entry, commands>>,
         \A v \in Upload : client'[v].at = "storing" => client[v].at = "storing",
         \A t \in tasks' : t \in tasks \/ (entry # None => t.of = entry.of)
  PROVE  OneUpload'
BY DEF OneUpload

LEMMA StandingKept ==
  ASSUME Standing, UNCHANGED entry,
         \A v \in Upload : /\ client'[v].deleted = client[v].deleted
                           /\ client'[v].at \in {"storing", "complete"} =>
                                 client[v].at \in {"storing", "complete"}
  PROVE  Standing'
BY DEF Standing
-----------------------------------------------------------------------------
(* The steps keep the invariant.                                           *)

\* A node writes a chunk of the file the name stands for and reports it;
\* nothing else the invariant is about is lost.
LEMMA WholeWrite ==
  ASSUME TypeOK, Whole, UNCHANGED <<entry, get, commands>>,
         NEW n \in Node, NEW c \in Chunk,
         entry # None => disk'[n, c] = entry.of,
         \A m \in Node, d \in Chunk : <<m, d>> # <<n, c>> => disk'[m, d] = disk[m, d],
         reports' = reports \cup {<<n, c, TRUE>>},
         \A t \in tasks' : t \in tasks \/ (entry # None => t.of = entry.of),
         \A v \in Upload :
            /\ client'[v].deleted = client[v].deleted
            /\ client'[v].kept \subseteq client[v].kept \cup {c}
            /\ client'[v].at = "storing" => client[v].at = "storing"
            /\ client'[v].at \in {"storing", "complete"} =>
                  client[v].at \in {"storing", "complete"}
  PROVE  Whole'
<1>1. OneUpload'
  BY OneUploadKept DEF Whole
<1>2. TrueReports' /\ Copied'
  BY WriteOK DEF Whole
<1>3. CountInv'
  <2>1. entry # None => Owed \subseteq Owed'
    <3> SUFFICES ASSUME entry # None PROVE Owed \subseteq Owed'
      OBVIOUS
    <3>1. client'[entry.of].kept \subseteq client[entry.of].kept \cup {c}
      BY EntryOK
    <3>2. <<n, c, TRUE>> \in reports' /\ reports \subseteq reports'
      OBVIOUS
    <3> QED BY <3>1, <3>2 DEF Owed
  <2> QED BY <2>1, CountKept DEF Whole
<1>4. Standing'
  BY StandingKept DEF Whole
<1> QED BY <1>1, <1>2, <1>3, <1>4 DEF Whole

\* A failed transfer removes a chunk.
LEMMA WholeRemove ==
  ASSUME TypeOK, Whole, UNCHANGED <<entry, get, commands>>,
         NEW n \in Node, NEW c \in Chunk, Spoil(n, c), ~stale',
         \A t \in tasks' : t \in tasks \/ (entry # None => t.of = entry.of),
         \A v \in Upload : /\ client'[v].deleted = client[v].deleted
                           /\ client'[v].kept = client[v].kept
                           /\ client'[v].at = client[v].at
  PROVE  Whole'
<1>1. OneUpload'
  BY OneUploadKept DEF Whole
<1>2. TrueReports' /\ Copied' /\ reports \subseteq reports'
  BY RemoveOK DEF Whole
<1>3. CountInv'
  <2>1. entry # None => Owed \subseteq Owed'
    BY <1>2, EntryOK DEF Owed
  <2> QED BY <2>1, CountKept DEF Whole
<1>4. Standing'
  BY StandingKept DEF Whole
<1> QED BY <1>1, <1>2, <1>3, <1>4 DEF Whole

\* Nothing is written, removed or reported.
LEMMA WholeQuiet ==
  ASSUME TypeOK, Whole, UNCHANGED <<entry, get, commands, disk, reports>>,
         \A t \in tasks' : t \in tasks \/ (entry # None => t.of = entry.of),
         \A v \in Upload :
            /\ client'[v].deleted = client[v].deleted
            /\ client'[v].kept = client[v].kept
            /\ client'[v].at = "storing" => client[v].at = "storing"
            /\ client'[v].at \in {"storing", "complete"} =>
                  client[v].at \in {"storing", "complete"}
  PROVE  Whole'
<1>1. OneUpload'
  BY OneUploadKept DEF Whole
<1>2. TrueReports' /\ Copied'
  BY DEF Whole, TrueReports, Copied
<1>3. CountInv'
  <2>1. entry # None => Owed \subseteq Owed'
    BY EntryOK DEF Owed
  <2> QED BY <2>1, CountKept DEF Whole
<1>4. Standing'
  BY StandingKept DEF Whole
<1> QED BY <1>1, <1>2, <1>3, <1>4 DEF Whole
\* An upload begins: nothing of an earlier one is under way.
LEMMA WholePut ==
  ASSUME TypeInv, Whole, NEW u \in Upload, Put(u), ~stale'
  PROVE  Whole'
<1>1. /\ entry = None /\ client[u].at = "idle"
      /\ entry' = [of |-> u, pending |-> TRUE, count |-> Cardinality(Chunk), nodes |-> Nobody]
      /\ UNCHANGED <<disk, reports, commands, tasks, get>>
  BY DEF Put
<1>2. /\ reports = {} /\ commands = {} /\ tasks = {}
      /\ \A v \in Upload : client[v].at # "storing"
  <2>1. ~Leftovers
    <3>1. stale' = (stale \/ Leftovers)
      BY DEF Put
    <3> QED BY <3>1
  <2> QED BY <2>1 DEF Leftovers
<1>3. /\ client'[u].kept = {} /\ client'[u].at = "storing"
      /\ \A v \in Upload \ {u} : client'[v] = client[v]
  <2>1. PICK alloc : client' = [client EXCEPT ![u].at = "storing", ![u].left = alloc]
    BY DEF Put
  <2>2. client \in [Upload -> Client] /\ client[u].kept = {}
    BY <1>1 DEF TypeInv, TypeOK, Progress
  <2> QED BY <2>1, <2>2 DEF Client
<1>4. OneUpload'
  <2>1. entry'.of = u
    BY <1>1
  <2> QED BY <1>1, <1>2, <1>3, <2>1 DEF OneUpload
<1>5. TrueReports'
  BY <1>1, <1>2 DEF TrueReports, Nobody
<1>6. Copied'
  <2>1. get.at # "idle" => get.of # u
    BY <1>1 DEF TypeInv, Progress
  <2>2. entry'.of = u
    BY <1>1
  <2> QED BY <1>1, <2>1, <2>2 DEF Copied
<1>7. CountInv'
  <2>1. Owed' = Chunk
    BY <1>1, <1>3 DEF Owed, Nobody
  <2>2. entry'.count = Cardinality(Chunk)
    BY <1>1
  <2> QED BY <2>1, <2>2, Numbers DEF CountInv
<1>8. Standing'
  <2>1. \A v \in Upload \ {u} : client'[v].at \in {"storing", "complete"} => client'[v].deleted
    BY <1>1, <1>3 DEF Whole, Standing
  <2>2. entry' # None
    <3>1. entry' \in Entry
      BY <1>1, Numbers DEF Entry, Nobody
    <3> QED BY <3>1, TransferAssumption
  <2>3. entry'.of = u
    BY <1>1
  <2> QED BY <2>1, <2>2, <2>3 DEF Standing
<1> QED BY <1>4, <1>5, <1>6, <1>7, <1>8 DEF Whole

\* A report of a chunk of the file the name stands for.
LEMMA WholeReport ==
  ASSUME TypeInv, Whole, NEW n \in Node, NEW c \in Chunk, NEW ok \in BOOLEAN, Report(n, c, ok)
  PROVE  Whole'
<1> USE DEF TypeInv
<1>1. /\ reports' = reports \ {<<n, c, ok>>} /\ <<n, c, ok>> \in reports
      /\ UNCHANGED <<disk, client, commands, tasks, get>>
  BY DEF Report
<1>2. CASE entry = None
  <2>1. entry' = None
    BY <1>2 DEF Report
  <2>2. Standing'
    BY <1>1, <1>2, <2>1 DEF Whole, Standing
  <2> QED BY <2>1, <2>2 DEF Whole, OneUpload, TrueReports, Copied, CountInv
<1>3. CASE entry # None
  <2>1. /\ entry' # None /\ entry'.of = entry.of
        /\ entry'.pending <=> entry'.count > 0
        /\ entry'.nodes = IF ok THEN [entry.nodes EXCEPT ![c] = @ \cup {n}]
                          ELSE [entry.nodes EXCEPT ![c] = @ \ {n}]
        /\ entry'.count = IF ok /\ entry.pending /\ entry.nodes[c] = {}
                          THEN entry.count - 1 ELSE entry.count
    <3>1. entry \in Entry /\ Coherent(entry)
      BY <1>3 DEF TypeOK, Coherent
    <3>2. CASE ok
      <4>1. entry' = Listing(n, c)
        BY <1>3, <3>2 DEF Report
      <4> QED BY <3>1, <3>2, <4>1, ListingOK, TransferAssumption DEF Coherent
    <3>3. CASE ~ok
      <4>1. entry' = [entry EXCEPT !.nodes[c] = @ \ {n}]
        BY <1>3, <3>3 DEF Report
      <4> QED BY <3>1, <3>3, <4>1, DelistingOK, TransferAssumption DEF Coherent
    <3> QED BY <3>2, <3>3
  <2>2. entry.nodes \in [Chunk -> SUBSET Node] /\ entry.of \in Upload /\ entry.count \in Nat
    BY <1>3, EntryOK
  <2>3. OneUpload'
    BY <1>1, <1>3, <2>1 DEF Whole, OneUpload
  <2>4. TrueReports'
    <3> SUFFICES ASSUME NEW m \in Node, NEW d \in Chunk
                 PROVE  /\ <<m, d, TRUE>> \in reports' => disk[m, d] = entry.of
                        /\ m \in entry'.nodes[d] =>
                              \/ disk[m, d] = entry.of
                              \/ disk[m, d] = None /\ <<m, d, FALSE>> \in reports'
      BY <1>1, <2>1 DEF TrueReports
    <3>1. <<m, d, TRUE>> \in reports' => disk[m, d] = entry.of
      BY <1>1, <1>3 DEF Whole, TrueReports
    <3>2. CASE ok
      <4>1. m \in entry'.nodes[d] => m \in entry.nodes[d] \/ <<m, d>> = <<n, c>>
        BY <2>1, <2>2, <3>2
      <4>2. <<n, c, TRUE>> \in reports
        BY <1>1, <3>2
      <4>3. <<m, d, FALSE>> \in reports => <<m, d, FALSE>> \in reports'
        BY <1>1, <3>2
      <4> QED BY <1>3, <3>1, <4>1, <4>2, <4>3 DEF Whole, TrueReports
    <3>3. CASE ~ok
      <4>1. m \in entry'.nodes[d] => m \in entry.nodes[d] /\ <<m, d>> # <<n, c>>
        BY <2>1, <2>2, <3>3
      <4>2. <<m, d>> # <<n, c>> /\ <<m, d, FALSE>> \in reports => <<m, d, FALSE>> \in reports'
        BY <1>1
      <4> QED BY <1>3, <3>1, <4>1, <4>2 DEF Whole, TrueReports
    <3> QED BY <3>2, <3>3
  <2>5. Copied'
    BY <1>1, <1>3, <2>1 DEF Whole, Copied
  <2>6. CountInv'
    <3> SUFFICES ASSUME entry'.count > 0 PROVE entry'.count <= Cardinality(Owed')
      BY <2>1 DEF CountInv
    <3>1. entry.pending /\ entry.count <= Cardinality(Owed)
      <4>1. entry.pending
        BY <1>3, <2>1, <2>2, EntryOK
      <4> QED BY <1>3, <4>1 DEF Whole, CountInv
    <3>2. Owed \ {c} \subseteq Owed'
      <4>1. ASSUME NEW d \in Chunk \ {c} PROVE entry.nodes[d] = {} => entry'.nodes[d] = {}
        BY <2>1, <2>2, <4>1
      <4>2. ASSUME NEW d \in Chunk \ {c}, NEW m \in Node, <<m, d, TRUE>> \in reports
            PROVE  <<m, d, TRUE>> \in reports'
        BY <1>1, <4>2
      <4> QED BY <1>1, <2>1, <4>1, <4>2 DEF Owed
    <3>3. Owed \in SUBSET Chunk /\ Owed' \in SUBSET Chunk
      BY DEF Owed
    <3>4. Cardinality(Owed) \in Nat /\ Cardinality(Owed') \in Nat /\ IsFiniteSet(Owed)
      BY <3>3, ChunkSets
    <3>5. CASE ok /\ entry.nodes[c] = {}
      <4>1. c \in Owed
        BY <1>1, <3>5 DEF Owed
      <4>2. Cardinality(Owed \ {c}) = Cardinality(Owed) - 1
        BY <3>4, <4>1, FS_RemoveElement
      <4>3. Cardinality(Owed \ {c}) <= Cardinality(Owed')
        BY <3>2, <3>3, ChunkSets
      <4>4. entry'.count = entry.count - 1
        BY <2>1, <3>1, <3>5
      <4> QED BY <2>2, <3>1, <3>4, <4>2, <4>3, <4>4
    <3>6. CASE ~(ok /\ entry.nodes[c] = {})
      <4>1. Owed \subseteq Owed'
        <5>1. CASE ok
          <6>1. c \notin Owed
            BY <3>6, <5>1 DEF Owed
          <6> QED BY <3>2, <6>1
        <5>2. CASE ~ok
          <6>1. entry.nodes[c] = {} => entry'.nodes[c] = {}
            BY <2>1, <2>2, <5>2
          <6>2. \A m \in Node : <<m, c, TRUE>> \in reports => <<m, c, TRUE>> \in reports'
            BY <1>1, <5>2
          <6>3. c \in Owed => c \in Owed'
            BY <1>1, <2>1, <6>1, <6>2 DEF Owed
          <6> QED BY <3>2, <6>3
        <5> QED BY <5>1, <5>2
      <4>2. Cardinality(Owed) <= Cardinality(Owed')
        BY <3>3, <4>1, ChunkSets
      <4>3. entry'.count = entry.count
        BY <2>1, <3>6
      <4> QED BY <2>2, <3>1, <3>4, <4>2, <4>3
    <3> QED BY <3>5, <3>6
  <2>7. Standing'
    BY <1>1, <1>3, <2>1 DEF Whole, Standing
  <2> QED BY <2>3, <2>4, <2>5, <2>6, <2>7 DEF Whole
<1> QED BY <1>2, <1>3
\* The name goes while nobody relies on it: the pending file's client has
\* failed, since what a complete client stored has been counted once the
\* reports are in; or the file is deleted.
LEMMA WholeDrop ==
  ASSUME TypeInv, Whole, Sweep \/ Delete
  PROVE  Whole'
<1>1. entry # None /\ entry' = None
  BY DEF Sweep, Delete, Drop
<1>2. Standing'
  <2> SUFFICES ASSUME NEW v \in Upload,
                      client'[v].at \in {"storing", "complete"}, ~client'[v].deleted
               PROVE  FALSE
    BY DEF Standing
  <2>1. CASE Delete
    <3>1. client' = [client EXCEPT ![entry.of].deleted = TRUE]
      BY <2>1 DEF Delete
    <3>2. client \in [Upload -> Client] /\ entry.of \in Upload
      BY <1>1, EntryOK DEF TypeInv, TypeOK
    <3>3. v # entry.of
      BY <3>1, <3>2 DEF Client
    <3>4. client'[v] = client[v]
      BY <3>1, <3>2, <3>3
    <3> QED BY <3>3, <3>4 DEF Whole, Standing
  <2>2. CASE Sweep
    <3>1. client[v].at \in {"storing", "complete"} /\ ~client[v].deleted
      BY <2>2 DEF Sweep
    <3>2. entry.of = v
      BY <3>1 DEF Whole, Standing
    <3>3. client[v].kept = Chunk
      BY <2>2, <3>1, <3>2 DEF Sweep, TypeInv, Progress
    <3>4. Owed = {}
      BY <2>2, <3>2, <3>3 DEF Sweep, Owed
    <3>5. entry.count <= 0
      <4>1. Cardinality(Owed) = 0
        BY <3>4, FS_EmptySet
      <4>2. entry.pending
        BY <2>2 DEF Sweep
      <4> QED BY <1>1, <4>1, <4>2 DEF Whole, CountInv
    <3>6. entry.count > 0
      BY <1>1, <2>2, EntryOK DEF Sweep, TypeInv
    <3>7. entry.count \in Nat
      BY <1>1, EntryOK DEF TypeInv
    <3> QED BY <3>5, <3>6, <3>7
  <2> QED BY <2>1, <2>2
<1> QED BY <1>1, <1>2 DEF Whole, OneUpload, TrueReports, Copied, CountInv

\* A GET is given true locations and copies true chunks.
LEMMA WholeGet ==
  ASSUME TypeInv, Whole,
         \/ GetLocations \/ GetEnds
         \/ \E c \in Chunk, n \in Node : GetChunk(c, n)
  PROVE  Whole'
<1>1. UNCHANGED <<entry, disk, client, reports, commands, tasks>>
  BY DEF GetLocations, GetEnds, GetChunk
<1>2. Copied'
  <2>1. CASE GetEnds
    BY <2>1 DEF GetEnds, Copied, NoGet
  <2>2. CASE GetLocations
    <3>1. /\ get = NoGet /\ entry # None
          /\ get' = [get EXCEPT !.at = "copying", !.of = entry.of, !.from = entry.nodes]
      BY <2>2 DEF GetLocations, TypeInv, Progress
    <3>2. /\ get'.at = "copying" /\ get'.of = entry.of /\ get'.from = entry.nodes
          /\ get'.got = [c \in Chunk |-> None]
      BY <3>1 DEF NoGet
    <3>3. \A c \in Chunk : \A n \in entry.nodes[c] : disk[n, c] \in {entry.of, None}
      <4>1. entry.nodes \in [Chunk -> SUBSET Node]
        BY <3>1, EntryOK DEF TypeInv
      <4> QED BY <3>1, <4>1 DEF Whole, TrueReports
    <3> QED BY <1>1, <3>2, <3>3 DEF Copied
  <2>3. ASSUME NEW c \in Chunk, NEW n \in Node, GetChunk(c, n) PROVE Copied'
    <3> SUFFICES ASSUME entry # None, get'.at # "idle", entry.of = get'.of, NEW d \in Chunk
                 PROVE  /\ \A m \in get'.from[d] : disk[m, d] \in {get'.of, None}
                        /\ get'.got[d] \in {get'.of, None}
                        /\ get'.at = "complete" => get'.got[d] # None
      BY <1>1 DEF Copied
    <3>1. /\ get \in Get /\ get.at = "copying" /\ n \in get.from[c] /\ disk[n, c] # None
          /\ get' = [get EXCEPT !.got[c] = disk[n, c],
                                !.at = IF \A e \in Chunk \ {c} : get.got[e] # None
                                       THEN "complete" ELSE @]
      BY <2>3 DEF GetChunk, TypeInv, TypeOK
    <3>2. /\ get'.from = get.from /\ get'.of = get.of
          /\ get'.got = [get.got EXCEPT ![c] = disk[n, c]]
          /\ get'.at = "complete" => \A e \in Chunk \ {c} : get.got[e] # None
      BY <3>1 DEF Get
    <3>3. \A e \in Chunk : /\ \A m \in get.from[e] : disk[m, e] \in {get.of, None}
                           /\ get.got[e] \in {get.of, None}
      BY <3>1, <3>2 DEF Whole, Copied
    <3>4. get'.got[d] = IF d = c THEN disk[n, c] ELSE get.got[d]
      BY <3>1, <3>2 DEF Get
    <3>6. \A m \in get'.from[d] : disk[m, d] \in {get'.of, None}
      BY <3>2, <3>3
    <3>7. disk[n, c] = get.of
      BY <3>1, <3>3
    <3>8. get'.got[d] \in {get'.of, None}
      BY <3>2, <3>3, <3>4, <3>7
    <3>9. get'.at = "complete" => get'.got[d] # None
      BY <3>1, <3>2, <3>4
    <3> QED BY <3>6, <3>8, <3>9
  <2> QED BY <2>1, <2>2, <2>3
<1>3. OneUpload' /\ TrueReports' /\ Standing'
  BY <1>1 DEF Whole, OneUpload, TrueReports, Standing
<1>4. CountInv'
  <2>1. Owed' = Owed
    BY <1>1 DEF Owed
  <2> QED BY <1>1, <2>1 DEF Whole, CountInv
<1> QED BY <1>2, <1>3, <1>4 DEF Whole
\* No step breaks the invariant, unless it loses a report or makes the lists
\* stale.
LEMMA WholeNext == TypeInv /\ [Next]_vars /\ ~stale' /\ Whole => Whole' \/ lost'
<1> SUFFICES ASSUME TypeInv, [Next]_vars, ~stale', Whole, ~lost' PROVE Whole'
  OBVIOUS
<1>a. /\ TypeOK /\ client \in [Upload -> Client] /\ tasks \subseteq Task
      /\ \A u \in Upload : client[u] \in Client
  BY DEF TypeInv, TypeOK
<1>b. ASSUME NEW u \in Upload, client[u].at = "storing", entry # None PROVE u = entry.of
  BY <1>b DEF Whole, OneUpload
<1>c. ASSUME NEW t \in tasks, entry # None PROVE t.of = entry.of
  BY <1>c DEF Whole, OneUpload
<1>d. ASSUME NEW t \in tasks, NEW s, Becomes(t, s), s.of = t.of
      PROVE  \A r \in tasks' : r \in tasks \/ (entry # None => r.of = entry.of)
  BY <1>c, <1>d DEF Becomes
<1>e. ASSUME NEW t \in tasks, NEW n, Missed(t, n)
      PROVE  \A r \in tasks' : r \in tasks \/ (entry # None => r.of = entry.of)
  <2>1. t \in Task
    BY <1>a
  <2>2. [t EXCEPT !.targets = @ \ {n}].of = t.of
    BY <2>1 DEF Task
  <2> QED BY <1>d, <1>e, <2>2 DEF Missed
<1>1. ASSUME NEW u \in Upload, Put(u) PROVE Whole'
  BY <1>1, WholePut
<1>2. ASSUME NEW u \in Upload, PutFatal(u) PROVE Whole'
  <2>1. UNCHANGED <<entry, get, commands, disk, reports, tasks>>
    BY <1>2 DEF PutFatal
  <2>2. \A v \in Upload :
           /\ client'[v].deleted = client[v].deleted /\ client'[v].kept = client[v].kept
           /\ client'[v].at \in {"storing", "complete"} => client'[v].at = client[v].at
    <3>1. client' = [client EXCEPT ![u].at = "fatal"]
      BY <1>2 DEF PutFatal
    <3> QED BY <3>1, <1>a DEF Client
  <2> QED BY <1>a, <2>1, <2>2, WholeQuiet
<1>3. ASSUME NEW u \in Upload, NEW c \in Chunk, NEW n \in Node, Original(u, c, n),
             client[u].at = "storing"
      PROVE  /\ entry # None => disk'[n, c] = entry.of
             /\ \A m \in Node, d \in Chunk : <<m, d>> # <<n, c>> => disk'[m, d] = disk[m, d]
             /\ reports' = reports \cup {<<n, c, TRUE>>}
             /\ \A r \in tasks' : r \in tasks \/ (entry # None => r.of = entry.of)
  <2>1. entry # None => u = entry.of
    BY <1>b, <1>3
  <2>2. /\ disk'[n, c] = u
        /\ \A m \in Node, d \in Chunk : <<m, d>> # <<n, c>> => disk'[m, d] = disk[m, d]
        /\ reports' = reports \cup {<<n, c, TRUE>>}
        /\ \A r \in tasks' \ tasks : r.of = u
    <3>1. TypeOK /\ Original(u, c, n)
      BY <1>a, <1>3
    <3>2. disk'[n, c] = u /\ reports' = reports \cup {<<n, c, TRUE>>}
      BY <3>1, OriginalOK
    <3>3. \A m \in Node, d \in Chunk : <<m, d>> # <<n, c>> => disk'[m, d] = disk[m, d]
      <4>1. disk' = [disk EXCEPT ![<<n, c>>] = u]
        BY <3>1 DEF Original
      <4>2. disk \in [Node \X Chunk -> Upload \cup {None}]
        BY <3>1 DEF TypeOK
      <4> QED BY <4>1, <4>2
    <3>4. \A r \in tasks' \ tasks : r.of = u
      BY <3>1, OriginalOK
    <3> QED BY <3>2, <3>3, <3>4
  <2> QED BY <2>1, <2>2
<1>4. ASSUME NEW u \in Upload, NEW c \in Chunk, NEW n \in Node, Store(u, c, n) PROVE Whole'
  <2>1. /\ UNCHANGED <<entry, get, commands>> /\ client[u].at = "storing"
        /\ Original(u, c, n) /\ Kept(u, c)
    BY <1>4 DEF Store, Storing
  <2>2. \A v \in Upload :
           /\ client'[v].deleted = client[v].deleted
           /\ client'[v].kept \subseteq client[v].kept \cup {c}
           /\ client'[v].at = "storing" => client[v].at = "storing"
           /\ client'[v].at \in {"storing", "complete"} =>
                 client[v].at \in {"storing", "complete"}
    <3>1. /\ \A v \in Upload \ {u} : client'[v] = client[v]
          /\ client'[u].at \in {"storing", "complete"}
          /\ client'[u].kept = client[u].kept \cup {c}
          /\ client'[u].deleted = client[u].deleted
      BY <2>1, KeptOK
    <3> QED BY <2>1, <3>1
  <2>3. /\ entry # None => disk'[n, c] = entry.of
        /\ \A m \in Node, d \in Chunk : <<m, d>> # <<n, c>> => disk'[m, d] = disk[m, d]
        /\ reports' = reports \cup {<<n, c, TRUE>>}
        /\ \A r \in tasks' : r \in tasks \/ (entry # None => r.of = entry.of)
    BY <1>3, <2>1
  <2> QED BY <1>a, <2>1, <2>2, <2>3, WholeWrite
<1>5. ASSUME NEW u \in Upload, NEW c \in Chunk, NEW n \in Node, StoreFails(u, c, n) PROVE Whole'
  <2>1. UNCHANGED <<entry, get, commands>> /\ client[u].at = "storing"
    BY <1>5 DEF StoreFails, Storing
  <2>2. \A v \in Upload :
           /\ client'[v].deleted = client[v].deleted /\ client'[v].kept = client[v].kept
           /\ client'[v].at = client[v].at
    <3>1. client' = [client EXCEPT ![u].left[c] = @ \ {n}]
      BY <1>5 DEF StoreFails
    <3>2. client[u] \in Client /\ client \in [Upload -> Client]
      BY <1>a
    <3>3. ASSUME NEW v \in Upload, v # u PROVE client'[v] = client[v]
      BY <3>1, <3>2, <3>3
    <3> DEFINE i == [client[u] EXCEPT !.left = [client[u].left EXCEPT ![c] = client[u].left[c] \ {n}]]
    <3>6. client' = [client EXCEPT ![u] = i]
      BY <3>1
    <3>4. client'[u] = i
      BY <3>2, <3>6
    <3>5. /\ client'[u].deleted = client[u].deleted /\ client'[u].kept = client[u].kept
          /\ client'[u].at = client[u].at
      BY <3>2, <3>4 DEF Client
    <3> QED BY <3>3, <3>5
  <2>3. CASE UNCHANGED <<disk, reports, tasks, stale>>
    BY <1>a, <2>1, <2>2, <2>3, WholeQuiet
  <2>4. CASE Spoil(n, c) /\ UNCHANGED tasks
    BY <1>a, <2>1, <2>2, <2>4, WholeRemove
  <2>5. CASE Original(u, c, n)
    <3>1. /\ entry # None => disk'[n, c] = entry.of
          /\ \A m \in Node, d \in Chunk : <<m, d>> # <<n, c>> => disk'[m, d] = disk[m, d]
          /\ reports' = reports \cup {<<n, c, TRUE>>}
          /\ \A r \in tasks' : r \in tasks \/ (entry # None => r.of = entry.of)
      BY <1>3, <2>1, <2>5
    <3> QED BY <1>a, <2>1, <2>2, <3>1, WholeWrite
  <2> QED BY <1>5, <2>3, <2>4, <2>5 DEF StoreFails
<1>6. ASSUME NEW n \in Node, NEW c \in Chunk, NEW ok \in BOOLEAN, Report(n, c, ok) \/ ReportLost(n, c, ok)
      PROVE  Whole'
  <2>1. ~ReportLost(n, c, ok)
    BY DEF ReportLost
  <2> QED BY <1>6, <2>1, WholeReport
<1>7. CASE Sweep \/ Delete
  BY <1>7, WholeDrop
<1>8. ASSUME NEW n \in Node, Command(n) PROVE Whole'
  <2>1. n \in commands /\ UNCHANGED <<entry, client>>
    BY <1>8 DEF Command
  <2>2. entry = None
    BY <2>1 DEF Whole, OneUpload
  <2> QED BY <2>1, <2>2 DEF Whole, OneUpload, TrueReports, Copied, CountInv, Standing
<1>9. ASSUME NEW t \in tasks, Ask(t) PROVE Whole'
  <2>1. PICK T : Becomes(t, [t EXCEPT !.targets = T])
    BY <1>9 DEF Ask
  <2>2. [t EXCEPT !.targets = T].of = t.of
    BY <1>a DEF Task
  <2>3. UNCHANGED <<entry, get, commands, disk, reports, client>>
    BY <1>9 DEF Ask
  <2> QED BY <1>a, <1>d, <2>1, <2>2, <2>3, WholeQuiet
<1>10. ASSUME NEW t \in tasks, ReplicateToSelf(t) PROVE Whole'
  <2>1. /\ UNCHANGED <<entry, get, commands, client>>
        /\ Spoil(t.src, t.chunk) /\ Missed(t, t.src)
    BY <1>10 DEF ReplicateToSelf
  <2>2. t.src \in Node /\ t.chunk \in Chunk
    BY <1>a DEF Task
  <2> QED BY <1>a, <1>e, <2>1, <2>2, WholeRemove
<1>11. ASSUME NEW t \in tasks, NEW n \in Node, Replicate(t, n) PROVE Whole'
  <2>1. /\ UNCHANGED <<entry, get, commands, client>>
        /\ reports' = reports \cup {<<n, t.chunk, TRUE>>}
        /\ disk' = [disk EXCEPT ![<<n, t.chunk>>] = t.of]
    BY <1>11 DEF Replicate
  <2>2. t.chunk \in Chunk
    BY <1>a DEF Task
  <2>3. /\ entry # None => disk'[n, t.chunk] = entry.of
        /\ \A m \in Node, d \in Chunk : <<m, d>> # <<n, t.chunk>> => disk'[m, d] = disk[m, d]
    <3>1. disk \in [Node \X Chunk -> Upload \cup {None}]
      BY <1>a DEF TypeOK
    <3> QED BY <1>c, <2>1, <2>2, <3>1
  <2>4. \A r \in tasks' : r \in tasks \/ (entry # None => r.of = entry.of)
    <3>1. [t EXCEPT !.need = @ - 1, !.targets = @ \ {n}].of = t.of
      BY <1>a DEF Task
    <3> QED BY <1>11, <1>d, <3>1 DEF Replicate
  <2> QED BY <1>a, <2>1, <2>2, <2>3, <2>4, WholeWrite
<1>12. ASSUME NEW t \in tasks, NEW n \in Node, ReplicateFails(t, n) PROVE Whole'
  <2>1. UNCHANGED <<entry, get, commands, client>> /\ Missed(t, n)
    BY <1>12 DEF ReplicateFails
  <2>2. t.chunk \in Chunk
    BY <1>a DEF Task
  <2>3. CASE UNCHANGED <<disk, reports, stale>>
    BY <1>a, <1>e, <2>1, <2>3, WholeQuiet
  <2>4. CASE Spoil(n, t.chunk)
    BY <1>a, <1>e, <2>1, <2>2, <2>4, WholeRemove
  <2> QED BY <1>12, <2>3, <2>4 DEF ReplicateFails
<1>13. ASSUME NEW n \in Node, NEW c \in Chunk, Dispatch(n, c) PROVE Whole'
  <2>1. /\ UNCHANGED <<entry, get, commands, disk, reports, client>>
        /\ entry # None /\ n \in entry.nodes[c] /\ disk[n, c] # None
    BY <1>13 DEF Dispatch
  <2>2. disk[n, c] = entry.of
    BY <2>1 DEF Whole, TrueReports
  <2> DEFINE t == [src |-> n, chunk |-> c, of |-> disk[n, c], targets |-> {},
                   need |-> ReplicationFactor - Cardinality(entry.nodes[c])]
  <2>3. tasks' = tasks \cup {t} /\ t.of = disk[n, c]
    BY <1>13 DEF Dispatch
  <2> HIDE DEF t
  <2> QED BY <1>a, <2>1, <2>2, <2>3, WholeQuiet
<1>14. CASE GetLocations \/ GetEnds \/ \E c \in Chunk, n \in Node : GetChunk(c, n)
  BY <1>14, WholeGet
<1>15. CASE UNCHANGED vars
  BY <1>15, <1>a, WholeQuiet DEF vars
<1> QED
  BY <1>1, <1>2, <1>4, <1>5, <1>6, <1>7, <1>8, <1>9, <1>10, <1>11, <1>12, <1>13, <1>14, <1>15
  DEF Next

LEMMA WholeInit == Init => Whole
BY DEF Init, Whole, OneUpload, TrueReports, Copied, CountInv, Standing

LEMMA Invariance == Spec => [](TypeInv /\ TransferInv)
<1>1. Init => TransferInv
  BY WholeInit DEF TransferInv, Whole
<1>2. TypeInv /\ TransferInv /\ [Next]_vars => TransferInv'
  BY WholeNext, Grows DEF TransferInv, Whole
<1> QED BY <1>1, <1>2, TypeInvInit, TypeInvNext, PTL DEF Spec
-----------------------------------------------------------------------------
(* What the readers of the name may rely on.                               *)

\* A node the controller lists for a chunk has the content of the upload the
\* name stands for, or its report that it has not is on its way, whatever
\* has failed, as long as no report, delete command or replication of an
\* earlier upload met the name.
THEOREM ListsAreTrue == Spec => []ListsTrue
<1>1. TypeInv /\ TransferInv => ListsTrue
  <2> SUFFICES ASSUME TypeInv, TransferInv, ~stale, ~lost, entry # None,
                      NEW c \in Chunk, NEW n \in entry.nodes[c]
               PROVE  disk[n, c] = entry.of \/ <<n, c, FALSE>> \in reports
    BY DEF ListsTrue
  <2>1. n \in Node
    BY EntryOK DEF TypeInv
  <2> QED BY <2>1 DEF TransferInv, TrueReports
<1> QED BY <1>1, Invariance, PTL

\* A GET that completes while the name stands for the upload it was given the
\* locations of has that upload's content and no other's.
THEOREM GetsAreExact == Spec => []GetExact
<1>1. TypeInv /\ TransferInv => GetExact
  BY DEF GetExact, TransferInv, Copied
<1> QED BY <1>1, Invariance, PTL

\* "Storage complete!" means the file is committed once the reports are in,
\* and only a delete command takes it away.
THEOREM CompleteIsCommitted == Spec => []CompleteCommits
<1>1. TypeInv /\ TransferInv => CompleteCommits
  <2> SUFFICES ASSUME TypeInv, TransferInv, ~stale, ~lost, reports = {}, NEW u \in Upload,
                      client[u].at = "complete", ~client[u].deleted
               PROVE  entry # None /\ entry.of = u /\ ~entry.pending
    BY DEF CompleteCommits
  <2>1. entry # None /\ entry.of = u
    BY DEF TransferInv, Standing
  <2>2. Owed = {}
    BY <2>1 DEF Owed, TypeInv, Progress
  <2>3. entry.pending => entry.count <= 0
    <3>1. Cardinality(Owed) = 0
      BY <2>2, FS_EmptySet
    <3> QED BY <2>1, <3>1 DEF TransferInv, CountInv
  <2>4. entry.count \in Nat /\ (entry.pending <=> entry.count > 0)
    BY <2>1, EntryOK DEF TypeInv
  <2> QED BY <2>1, <2>3, <2>4
<1> QED BY <1>1, Invariance, PTL
=============================================================================

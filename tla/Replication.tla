---------------------------- MODULE Replication -----------------------------
(***************************************************************************)
(* How one chunk gets and keeps its replicas: the goroutines that run      *)
(* manageReplication on storage nodes, the transfers they make (replicate  *)
(* at the source, handleStoreChunk at the target), the status reports on   *)
(* connections of their own, the controller's list of the chunk's nodes    *)
(* and the node selection that excludes them, maintenance's dispatch of    *)
(* further replication, and the repair of damaged copies.                  *)
(*                                                                         *)
(* All nodes are running, registered and have room (Membership has the     *)
(* rest); the file has this one chunk and is not deleted.  Transfers of    *)
(* several goroutines to one node write the same path.                     *)
(***************************************************************************)
EXTENDS Integers, SequencesExt

CONSTANTS
    Node,              \* storage nodes
    None,              \* no goroutine, no writer
    Worker,            \* bound: goroutines that run manageReplication
    ReplicationFactor, \* copies wanted
    MaxFaults,         \* bound: lost reports, failed transfers, rotten copies
    MaxRepairs         \* bound: damaged copies found and repaired

ASSUME ReplicationAssumption ==
    /\ IsFiniteSet(Node)
    /\ ReplicationFactor \in Nat \ {0, 1}
    /\ MaxFaults \in Nat
    /\ MaxRepairs \in Nat
    /\ Node \cap Worker = {}
    /\ None \notin Node \cup Worker

VARIABLES
    disk,     \* per node, the chunk file: none, short, rotten or whole
    owner,    \* per node: who opened the chunk file last and is writing it
    active,   \* nodes whose activeWrites has the chunk's path
    listed,   \* chunk.nodes at the controller
    reports,  \* status reports on their way; equal ones arrive as one
    worker,   \* per goroutine: manageReplication
    repair,   \* per node: repairChunk (bound: one at a time on a node)
    repairs,  \* repairs begun
    faults    \* reports lost, transfers failed and copies rotten so far

vars == <<disk, owner, active, listed, reports, worker, repair, repairs, faults>>

\* need: replicas still to make; whole: the size it was given is the chunk's;
\* targets: nodes of the last response not tried yet; to: the target of the
\* transfer under way; sound: the source's file was whole when it began.
WorkerState ==
    [at : {"ask", "send", "copy"}, src : Node, whole : BOOLEAN,
     need : 1..ReplicationFactor,
     targets : SUBSET Node, to : Node, sound : BOOLEAN]

RepairState ==
    [at : {"report", "pull", "copy"}, peers : Seq(Node)]

ASSUME NoneAssumption == None \notin WorkerState \cup RepairState

\* chunk.nodes never names a node twice.
TypeOK ==
    /\ disk \in [Node -> {"none", "short", "rotten", "whole"}]
    /\ owner \in [Node -> Worker \cup Node \cup {None}]
    /\ active \subseteq Node
    /\ listed \in Seq(Node) /\ IsInjective(listed)
    /\ reports \subseteq Node \X BOOLEAN
    /\ worker \in [Worker -> WorkerState \cup {None}]
    /\ repair \in [Node -> RepairState \cup {None}]
    /\ repairs \in 0..MaxRepairs
    /\ faults \in 0..MaxFaults

\* The listed nodes without n, which is listed at most once (TypeOK).
Others(n) ==
    IF n \notin Range(listed) THEN listed
    ELSE RemoveAt(listed, CHOOSE i \in DOMAIN listed : listed[i] = n)

Start(n, k) ==
    [at |-> "ask", src |-> n, whole |-> disk[n] # "short", need |-> k,
     targets |-> {}, to |-> n, sound |-> FALSE]

\* The client's chunk has just been stored: its report is on the way, and
\* handleStoreChunk has started manageReplication.
Init ==
    \E n \in Node, w \in Worker :
        /\ disk = [m \in Node |-> IF m = n THEN "whole" ELSE "none"]
        /\ owner = [m \in Node |-> None]
        /\ active = {}
        /\ listed = <<>>
        /\ reports = {<<n, TRUE>>}
        /\ worker = [v \in Worker |->
               IF v # w THEN None
               ELSE [at |-> "ask", src |-> n, whole |-> TRUE,
                     need |-> ReplicationFactor - 1,
                     targets |-> {}, to |-> n, sound |-> FALSE]]
        /\ repair = [m \in Node |-> None]
        /\ repairs = 0
        /\ faults = 0
-----------------------------------------------------------------------------
\* A step fails by itself, or because of one fault more.
FailsIf(cause) == \/ cause /\ faults' = faults
                  \/ faults < MaxFaults /\ faults' = faults + 1

\* Mutant: a handler that does not look whether the node is listed already.
DeliverReportTwice(r) ==
    /\ r \in reports
    /\ reports' = reports \ {r}
    /\ listed' = IF r[2] THEN Append(listed, r[1]) ELSE Others(r[1])
    /\ UNCHANGED <<disk, owner, active, worker, repair, repairs, faults>>

\* handleChunkStatusReport, for this chunk.
DeliverReport(r) ==
    /\ r \in reports
    /\ reports' = reports \ {r}
    /\ listed' = IF ~r[2] THEN Others(r[1])
                 ELSE IF r[1] \in Range(listed) THEN listed ELSE Append(listed, r[1])
    /\ UNCHANGED <<disk, owner, active, worker, repair, repairs, faults>>

\* reportStatus cannot reach the controller and gives up.
LoseReport(r) ==
    /\ r \in reports
    /\ FailsIf(FALSE)
    /\ reports' = reports \ {r}
    /\ UNCHANGED <<disk, owner, active, listed, worker, repair, repairs>>

\* handleReplicaNodes and selectNodes: any k of the nodes not listed for the
\* chunk, all of them if there are fewer.
Selection(k) ==
    LET candidates == Node \ Range(listed) IN
    {T \in SUBSET candidates :
        Cardinality(T) = k \/ (Cardinality(T) < k /\ T = candidates)}

\* manageReplication asks for nodes; when there are none it sleeps and asks
\* again, which changes nothing.
AskNodes(w) ==
    /\ worker[w] # None /\ worker[w].at = "ask"
    /\ \E T \in Selection(worker[w].need) \ {{}} :
           worker' = [worker EXCEPT ![w].at = "send", ![w].targets = T]
    /\ UNCHANGED <<disk, owner, active, listed, reports, repair, repairs, faults>>

Sending(w, t) == worker[w] # None /\ worker[w].at = "send" /\ t \in worker[w].targets

Copying(w) == worker[w] # None /\ worker[w].at = "copy"

\* replicate opens the source's chunk file, then handleStoreChunk opens the
\* target's with O_TRUNC, whatever is there and even if it is the same file.
SendStart(w, t) ==
    /\ Sending(w, t)
    /\ disk[worker[w].src] # "none"
    /\ disk' = [disk EXCEPT ![t] = "short"]
    /\ owner' = [owner EXCEPT ![t] = w]
    /\ active' = active \cup {t}
    /\ worker' = [worker EXCEPT ![w].at = "copy", ![w].to = t, ![w].targets = @ \ {t},
           ![w].sound = worker[w].whole /\ disk'[worker[w].src] = "whole"]
    /\ UNCHANGED <<listed, reports, repair, repairs, faults>>

\* After one target: the next one, another request, or the end.
Continue(s, k) ==
    IF k = 0 THEN None
    ELSE [s EXCEPT !.need = k, !.at = IF s.targets = {} THEN "ask" ELSE "send",
                   !.to = s.src, !.sound = FALSE]

\* The source's chunk file is gone; the target cannot be reached; or the
\* target cannot create the file, refuses and reports a failure.
SendRefused(w, t) ==
    /\ Sending(w, t)
    /\ worker' = [worker EXCEPT ![w] =
           Continue([worker[w] EXCEPT !.targets = @ \ {t}], worker[w].need)]
    /\ FailsIf(disk[worker[w].src] = "none")
    /\ \/ UNCHANGED reports
       \/ disk[worker[w].src] # "none" /\ reports' = reports \cup {<<t, FALSE>>}
    /\ UNCHANGED <<disk, owner, active, listed, repair, repairs>>

\* The writer of n's chunk file is done and has written all of it.  The path
\* names that file only if nobody has removed it or opened it since.
Written(n, who) == IF owner[n] = who THEN "whole" ELSE disk[n]

\* The target has the whole chunk and its checksum matches: it answers and
\* reports.  Deferred, the path leaves activeWrites.
SendStored(w) ==
    /\ Copying(w) /\ worker[w].sound
    /\ LET s == worker[w] IN
       /\ disk' = [disk EXCEPT ![s.to] = Written(s.to, w)]
       /\ owner' = [owner EXCEPT ![s.to] = IF @ = w THEN None ELSE @]
       /\ active' = active \ {s.to}
       /\ reports' = reports \cup {<<s.to, TRUE>>}
       /\ worker' = [worker EXCEPT ![w] = Continue(s, s.need - 1)]
    /\ UNCHANGED <<listed, repair, repairs, faults>>

\* Mutant: the target leaves what it has written.
SendFailedKeeps(w) ==
    /\ Copying(w)
    /\ LET s == worker[w] IN
       /\ FailsIf(~s.sound \/ disk[s.src] # "whole")
       /\ owner' = [owner EXCEPT ![s.to] = None]
       /\ active' = active \ {s.to}
       /\ reports' = reports \cup {<<s.to, FALSE>>}
       /\ worker' = [worker EXCEPT ![w] = Continue(s, s.need)]
    /\ UNCHANGED <<disk, listed, repair, repairs>>

\* The transfer breaks off, or what arrived does not match the checksum: the
\* target removes whatever file the path names and reports a failure.
SendFailed(w) ==
    /\ Copying(w)
    /\ LET s == worker[w] IN
       /\ FailsIf(~s.sound \/ disk[s.src] # "whole")
       /\ disk' = [disk EXCEPT ![s.to] = "none"]
       /\ owner' = [owner EXCEPT ![s.to] = None]
       /\ active' = active \ {s.to}
       /\ reports' = reports \cup {<<s.to, FALSE>>}
       /\ worker' = [worker EXCEPT ![w] = Continue(s, s.need)]
    /\ UNCHANGED <<listed, repair, repairs>>

\* Mutant: the test for under-replication is one copy off.
DispatchLate(w) ==
    /\ worker[w] = None
    /\ Len(listed) \in 1..ReplicationFactor - 2
    /\ disk[Head(listed)] # "none"
    /\ worker' = [worker EXCEPT ![w] =
           Start(Head(listed), ReplicationFactor - Len(listed))]
    /\ UNCHANGED <<disk, owner, active, listed, reports, repair, repairs, faults>>

\* processReplication finds the chunk under-replicated and dispatches its
\* first node; handleDispatchReplicaTask needs the chunk file and takes the
\* size it has now.
Dispatch(w) ==
    /\ worker[w] = None
    /\ Len(listed) \in 1..ReplicationFactor - 1
    /\ disk[Head(listed)] # "none"
    /\ worker' = [worker EXCEPT ![w] =
           Start(Head(listed), ReplicationFactor - Len(listed))]
    /\ UNCHANGED <<disk, owner, active, listed, reports, repair, repairs, faults>>
-----------------------------------------------------------------------------
\* A copy rots on disk.
Rot(n) ==
    /\ disk[n] = "whole"
    /\ FailsIf(FALSE)
    /\ disk' = [disk EXCEPT ![n] = "rotten"]
    /\ UNCHANGED <<owner, active, listed, reports, worker, repair, repairs>>

\* verifyChunkIntegrity fails for a copy that activeWrites does not protect.
Damaged(n) == disk[n] # "whole" /\ n \notin active /\ repair[n] = None

Reporting == [at |-> "report", peers |-> <<>>]

\* One repair more begins.
Counted == repairs < MaxRepairs /\ repairs' = repairs + 1

\* The scrubber reads every chunk file it finds.
Scrub(n) ==
    /\ Damaged(n) /\ disk[n] # "none"
    /\ Counted
    /\ repair' = [repair EXCEPT ![n] = Reporting]
    /\ UNCHANGED <<disk, owner, active, listed, reports, worker, faults>>

\* A client retrieves the chunk from a node it is listed on.
Retrieve(n) ==
    /\ Damaged(n) /\ n \in Range(listed)
    /\ Counted
    /\ repair' = [repair EXCEPT ![n] = Reporting]
    /\ UNCHANGED <<disk, owner, active, listed, reports, worker, faults>>

\* repairChunk's failure report and its GetFile request share a connection:
\* the controller has unlisted the node when it answers with the others.
RepairReport(n) ==
    /\ repair[n] # None /\ repair[n].at = "report"
    /\ listed' = Others(n)
    /\ repair' = [repair EXCEPT ![n] =
           IF Others(n) = <<>> THEN None ELSE [at |-> "pull", peers |-> Others(n)]]
    /\ UNCHANGED <<disk, owner, active, reports, worker, repairs, faults>>

\* repairChunk goes on to the next peer or ends; at its end the deferred
\* deletions take the path out of activeWrites.
NextPeer(n) ==
    IF Len(repair[n].peers) = 1 THEN None
    ELSE [at |-> "pull", peers |-> Tail(repair[n].peers)]

\* The peer does not answer, or its handleRetrieveChunk refuses; if that was
\* for damage, the peer starts a repair of its own.
PeerRefuses(n) ==
    /\ repair[n] # None /\ repair[n].at = "pull"
    /\ LET p == Head(repair[n].peers)
           refuses == p \in active \/ disk[p] # "whole"
       IN
       \/ /\ FailsIf(refuses /\ ~(Damaged(p) /\ repairs < MaxRepairs))
          /\ repair' = [repair EXCEPT ![n] = NextPeer(n)]
          /\ UNCHANGED repairs
       \/ /\ Damaged(p)
          /\ Counted
          /\ repair' = [repair EXCEPT ![n] = NextPeer(n), ![p] = Reporting]
          /\ UNCHANGED faults
    /\ active' = IF NextPeer(n) = None THEN active \ {n} ELSE active
    /\ UNCHANGED <<disk, owner, listed, reports, worker>>

\* The peer sends its copy; the local chunk file is opened with O_TRUNC.
PeerSends(n) ==
    /\ repair[n] # None /\ repair[n].at = "pull"
    /\ Head(repair[n].peers) \notin active /\ disk[Head(repair[n].peers)] = "whole"
    /\ disk' = [disk EXCEPT ![n] = "short"]
    /\ owner' = [owner EXCEPT ![n] = n]
    /\ active' = active \cup {n}
    /\ repair' = [repair EXCEPT ![n].at = "copy"]
    /\ UNCHANGED <<listed, reports, worker, repairs, faults>>

RepairStored(n) ==
    /\ repair[n] # None /\ repair[n].at = "copy"
    /\ disk' = [disk EXCEPT ![n] = Written(n, n)]
    /\ owner' = [owner EXCEPT ![n] = IF @ = n THEN None ELSE @]
    /\ active' = active \ {n}
    /\ reports' = reports \cup {<<n, TRUE>>}
    /\ repair' = [repair EXCEPT ![n] = None]
    /\ UNCHANGED <<listed, worker, repairs, faults>>

\* The transfer breaks off or does not match: the file is removed.  If the
\* peer's file became shorter meanwhile, neither happens until the connection
\* breaks: the repair waits for the missing bytes (Exchange has this).
RepairFailed(n) ==
    /\ repair[n] # None /\ repair[n].at = "copy"
    /\ FailsIf(disk[Head(repair[n].peers)] = "rotten")
    /\ disk' = [disk EXCEPT ![n] = "none"]
    /\ owner' = [owner EXCEPT ![n] = None]
    /\ active' = IF NextPeer(n) = None THEN active \ {n} ELSE active
    /\ repair' = [repair EXCEPT ![n] = NextPeer(n)]
    /\ UNCHANGED <<listed, reports, worker, repairs>>
-----------------------------------------------------------------------------
Next ==
    \/ \E r \in reports : DeliverReport(r)
    \/ \E r \in reports : LoseReport(r)
    \/ \E w \in Worker : AskNodes(w)
    \/ \E w \in Worker, t \in Node : SendStart(w, t)
    \/ \E w \in Worker, t \in Node : SendRefused(w, t)
    \/ \E w \in Worker : SendStored(w)
    \/ \E w \in Worker : SendFailed(w)
    \/ \E w \in Worker : Dispatch(w)
    \/ \E n \in Node : Rot(n)
    \/ \E n \in Node : Scrub(n)
    \/ \E n \in Node : Retrieve(n)
    \/ \E n \in Node : RepairReport(n)
    \/ \E n \in Node : PeerRefuses(n)
    \/ \E n \in Node : PeerSends(n)
    \/ \E n \in Node : RepairStored(n)
    \/ \E n \in Node : RepairFailed(n)

Spec == Init /\ [][Next]_vars

\* Goroutines and requests go on, reports arrive and maintenance keeps
\* running.  Nothing is asked of the scrubber, of repairs or of clients, nor
\* that anything succeeds: a step may fail until the faults are over.
Fairness ==
    /\ \A n \in Node, b \in BOOLEAN :
           WF_vars(DeliverReport(<<n, b>>) \/ LoseReport(<<n, b>>))
    /\ \A w \in Worker :
        /\ WF_vars(AskNodes(w))
        /\ WF_vars(\E t \in Node : SendStart(w, t) \/ SendRefused(w, t))
        /\ WF_vars(SendStored(w) \/ SendFailed(w))
    /\ WF_vars(\E w \in Worker : Dispatch(w))

FairSpec == Spec /\ Fairness
-----------------------------------------------------------------------------
\* The node maintenance would dispatch and the nodes that replicate have the
\* whole chunk.
SoundSources ==
    /\ listed # <<>> /\ disk[Head(listed)] = "whole"
    /\ \A w \in Worker : worker[w] # None =>
           worker[w].whole /\ disk[worker[w].src] = "whole"

\* A chunk file that is short has a writer at work on it, which completes it
\* or removes it: however transfers and repairs of one path overlap, none of
\* them leaves part of a chunk behind.
NoneLeftShort == \A n \in Node : disk[n] = "short" =>
    \/ \E w \in Worker : owner[n] = w /\ Copying(w) /\ worker[w].to = n
    \/ owner[n] = n /\ repair[n] # None /\ repair[n].at = "copy"

\* Once the faults are over and the nodes that replicate the chunk stop
\* losing it, the chunk comes to its replication factor and stays there:
\* processReplication and manageReplication make up for the reports that were
\* lost or came late or in another order, for transfers that failed, for
\* replicas counted twice and for repairs that run meanwhile.
Heals == <>[]SoundSources => <>[](Len(listed) >= ReplicationFactor)
=============================================================================

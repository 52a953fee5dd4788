------------------------------ MODULE Transfer ------------------------------
(***************************************************************************)
(* One file name from end to end: the clients that upload different        *)
(* contents under it one after the other, the controller's entry for the   *)
(* name, the chunk files on the storage nodes, and a client that gets the  *)
(* file.  Status reports, delete commands and the work of                  *)
(* manageReplication name a file and a chunk, never an upload: they may    *)
(* be still on their way when the next upload of the name begins.          *)
(*                                                                         *)
(* The parts are those of other modules, coarser: a chunk's transfer is    *)
(* one step (Exchange has its steps), a handler of the controller is one   *)
(* critical section (Namespace has theirs), copies do not rot              *)
(* (Replication), and nodes and the controller stay up (Membership,        *)
(* WalFile).                                                               *)
(***************************************************************************)
EXTENDS Integers, FiniteSets

CONSTANTS
    Node,              \* storage nodes
    Chunk,             \* chunk ids of the file
    Upload,            \* uploads of the name; each has its own content
    None,              \* no content, no entry
    ReplicationFactor,
    MaxTask,           \* bound: manageReplication goroutines at a time
    MaxFail            \* bound: connections that fail

\* of: the upload it was made for; count: pendingChunks; in pendingFiles or,
\* once committed, in files.
Entry == [of : Upload, pending : BOOLEAN, count : 0..Cardinality(Chunk),
          nodes : [Chunk -> SUBSET Node]]

ASSUME TransferAssumption ==
    /\ IsFiniteSet(Node) /\ IsFiniteSet(Chunk) /\ Chunk # {}
    /\ None \notin Upload /\ None \notin Entry
    /\ ReplicationFactor \in 1..Cardinality(Node)
    /\ MaxTask \in Nat /\ MaxFail \in Nat

VARIABLES
    entry,    \* the controller's metadata for the name
    disk,     \* per node and chunk: the upload whose content is stored there
    client,   \* per upload: the client that puts it
    reports,  \* status reports on their way; equal ones arrive as one
    commands, \* nodes a delete command is on its way to
    tasks,    \* manageReplication goroutines
    get,      \* a client that gets the file
    fails,    \* connections that have failed
    lost,     \* history: a status report was lost
    stale     \* history: something met the name of a later upload, or one of
              \* the other events that make the controller's lists untrue

vars == <<entry, disk, client, reports, commands, tasks, get, fails, lost, stale>>

\* left: candidates a chunk has not been offered to; kept: chunks stored;
\* complete: put has printed "Storage complete!"; fatal: it has ended early.
Client == [at : {"idle", "storing", "complete", "fatal"},
           left : [Chunk -> SUBSET Node], kept : SUBSET Chunk, deleted : BOOLEAN]

\* of: the content whose checksum the goroutine was given.
Task == [src : Node, chunk : Chunk, of : Upload,
         need : 1..ReplicationFactor, targets : SUBSET Node]

\* from: the nodes it was given per chunk.
Get == [at : {"idle", "copying", "complete"}, of : Upload \cup {None},
        from : [Chunk -> SUBSET Node], got : [Chunk -> Upload \cup {None}]]

TypeOK ==
    /\ entry \in Entry \cup {None}
    /\ disk \in [Node \X Chunk -> Upload \cup {None}]
    /\ client \in [Upload -> Client]
    /\ reports \subseteq Node \X Chunk \X BOOLEAN
    /\ commands \subseteq Node
    /\ tasks \subseteq Task
    /\ get \in Get
    /\ fails \in 0..MaxFail
    /\ lost \in BOOLEAN /\ stale \in BOOLEAN
    /\ entry # None => (entry.pending <=> entry.count > 0)

Nobody == [c \in Chunk |-> {}]

NoGet == [at |-> "idle", of |-> None, from |-> Nobody, got |-> [c \in Chunk |-> None]]

Init ==
    /\ entry = None
    /\ disk = [p \in Node \X Chunk |-> None]
    /\ client = [u \in Upload |->
           [at |-> "idle", left |-> Nobody, kept |-> {}, deleted |-> FALSE]]
    /\ reports = {} /\ commands = {} /\ tasks = {}
    /\ get = NoGet
    /\ fails = 0
    /\ lost = FALSE /\ stale = FALSE

Fail == fails < MaxFail /\ fails' = fails + 1
-----------------------------------------------------------------------------
(* Uploads.                                                                *)

\* What an earlier upload of the name has left under way.
Leftovers ==
    \/ reports # {} \/ commands # {} \/ tasks # {}
    \/ \E u \in Upload : client[u].at = "storing"

\* handlePutFile accepts: the name is neither committed nor pending.
Put(u) ==
    /\ client[u].at = "idle" /\ entry = None
    /\ \E alloc \in [Chunk -> {T \in SUBSET Node : Cardinality(T) = ReplicationFactor}] :
          client' = [client EXCEPT ![u].at = "storing", ![u].left = alloc]
    /\ entry' = [of |-> u, pending |-> TRUE, count |-> Cardinality(Chunk), nodes |-> Nobody]
    /\ stale' = (stale \/ Leftovers)
    /\ UNCHANGED <<disk, reports, commands, tasks, get, fails, lost>>

\* put's goroutine for chunk c, with one of the candidates left for it.
Storing(u, c, n) ==
    /\ client[u].at = "storing" /\ c \notin client[u].kept
    /\ n \in client[u].left[c]

\* What handleStoreChunk does for a client's chunk.
Original(u, c, n) ==
    /\ Cardinality(tasks) < MaxTask
    /\ disk' = [disk EXCEPT ![<<n, c>>] = u]
    /\ reports' = reports \cup {<<n, c, TRUE>>}
    /\ tasks' = IF ReplicationFactor = 1 THEN tasks ELSE tasks \cup
           {[src |-> n, chunk |-> c, of |-> u, need |-> ReplicationFactor - 1, targets |-> {}]}

\* The chunk is stored; wg.Wait returns when all are.
Kept(u, c) ==
    client' = [client EXCEPT ![u].kept = @ \cup {c},
                             ![u].at = IF client[u].kept \cup {c} = Chunk THEN "complete" ELSE @]

Store(u, c, n) ==
    /\ Storing(u, c, n)
    /\ Original(u, c, n)
    /\ Kept(u, c)
    /\ UNCHANGED <<entry, commands, get, fails, lost, stale>>

\* Mutant: the node reports before it has verified what it received.
SpoilReported(n, c) ==
    /\ reports' = reports \cup {<<n, c, TRUE>>}
    /\ UNCHANGED <<disk, stale>>

\* A transfer to n of chunk c that fails at n removes the file there and
\* reports.  A success report of n that is still on its way may come after
\* that one.
Spoil(n, c) ==
    /\ disk' = [disk EXCEPT ![<<n, c>>] = None]
    /\ reports' = reports \cup {<<n, c, FALSE>>}
    /\ stale' = (stale \/ <<n, c, TRUE>> \in reports)

\* The candidate cannot be reached, the transfer breaks, or the chunk is
\* stored and the answer lost: put goes on to the next candidate.
StoreFails(u, c, n) ==
    /\ Storing(u, c, n) /\ Fail
    /\ client' = [client EXCEPT ![u].left[c] = @ \ {n}]
    /\ \/ UNCHANGED <<disk, reports, tasks, stale>>
       \/ Spoil(n, c) /\ UNCHANGED tasks
       \/ Original(u, c, n) /\ UNCHANGED stale
    /\ UNCHANGED <<entry, commands, get, lost>>

\* All candidates of a chunk have failed, or the client is stopped.
PutFatal(u) ==
    /\ client[u].at = "storing"
    /\ \/ (\E c \in Chunk \ client[u].kept : client[u].left[c] = {}) /\ UNCHANGED fails
       \/ Fail
    /\ client' = [client EXCEPT ![u].at = "fatal"]
    /\ UNCHANGED <<entry, disk, reports, commands, tasks, get, lost, stale>>
-----------------------------------------------------------------------------
(* The controller.                                                         *)

\* Mutant: chunks of a committed file are counted too.
ListingCommitted(n, c) ==
    LET count == IF entry.nodes[c] = {} THEN entry.count - 1 ELSE entry.count
    IN [entry EXCEPT !.nodes[c] = @ \cup {n}, !.count = count, !.pending = count > 0]

\* A success report lists the node; the first node of a pending chunk counts
\* it as stored, and the last chunk counted commits the file.
Listing(n, c) ==
    LET first == entry.nodes[c] = {}
        count == IF entry.pending /\ first THEN entry.count - 1 ELSE entry.count
    IN [entry EXCEPT !.nodes[c] = @ \cup {n}, !.count = count, !.pending = count > 0]

\* Mutant: a damaged copy stays listed.
ReportIgnored(n, c, ok) ==
    /\ <<n, c, ok>> \in reports
    /\ reports' = reports \ {<<n, c, ok>>}
    /\ entry' = IF entry = None \/ ~ok THEN entry ELSE Listing(n, c)
    /\ UNCHANGED <<disk, client, commands, tasks, get, fails, lost, stale>>

Report(n, c, ok) ==
    /\ <<n, c, ok>> \in reports
    /\ reports' = reports \ {<<n, c, ok>>}
    /\ entry' = IF entry = None THEN None
                ELSE IF ok THEN Listing(n, c)
                ELSE [entry EXCEPT !.nodes[c] = @ \ {n}]
    /\ UNCHANGED <<disk, client, commands, tasks, get, fails, lost, stale>>

\* reportStatus cannot reach the controller.
ReportLost(n, c, ok) ==
    /\ <<n, c, ok>> \in reports /\ Fail
    /\ reports' = reports \ {<<n, c, ok>>}
    /\ lost' = TRUE
    /\ UNCHANGED <<entry, disk, client, commands, tasks, get, stale>>

\* The name is free at once; the commands are sent after that.
Drop ==
    /\ entry' = None
    /\ commands' = commands \cup UNION {entry.nodes[c] : c \in Chunk}

\* Mutant: monitorLeases does not care for renewals.
SweepRenewed ==
    /\ entry # None /\ entry.pending
    /\ Drop
    /\ UNCHANGED <<disk, client, reports, tasks, get, fails, lost, stale>>

\* monitorLeases finds the lease of the pending file expired: its client does
\* not renew it any more, and 30 seconds are enough for status reports.
Sweep ==
    /\ entry # None /\ entry.pending
    /\ client[entry.of].at # "storing" /\ reports = {}
    /\ Drop
    /\ UNCHANGED <<disk, client, reports, tasks, get, fails, lost, stale>>

\* handleDeleteFile, for a committed file.
Delete ==
    /\ entry # None /\ ~entry.pending
    /\ Drop
    /\ client' = [client EXCEPT ![entry.of].deleted = TRUE]
    /\ UNCHANGED <<disk, reports, tasks, get, fails, lost, stale>>

\* A node's handleDeleteFile removes the directory, or cannot be reached.
Command(n) ==
    /\ n \in commands
    /\ commands' = commands \ {n}
    /\ \/ disk' = [p \in Node \X Chunk |-> IF p[1] = n THEN None ELSE disk[p]] /\ UNCHANGED fails
       \/ UNCHANGED disk /\ Fail
    /\ UNCHANGED <<entry, client, reports, tasks, get, lost, stale>>
-----------------------------------------------------------------------------
(* manageReplication.                                                      *)

\* Nodes not listed for the chunk; none is if the name is unknown.
Unlisted(c) == IF entry = None THEN Node ELSE Node \ entry.nodes[c]

Becomes(t, s) == tasks' = (tasks \ {t}) \cup {s}

\* handleReplicaNodes picks as many as are needed, if there are.
Ask(t) ==
    /\ t \in tasks /\ t.targets = {}
    /\ \E T \in SUBSET Unlisted(t.chunk) \ {{}} :
          /\ Cardinality(T) = t.need \/ (Cardinality(T) < t.need /\ T = Unlisted(t.chunk))
          /\ Becomes(t, [t EXCEPT !.targets = T])
    /\ UNCHANGED <<entry, disk, client, reports, commands, get, fails, lost, stale>>

Missed(t, n) == Becomes(t, [t EXCEPT !.targets = @ \ {n}])

\* replicate copies the chunk, and the target keeps it if it is what the
\* checksum is of.  Chunk file and target are not the same.
Replicate(t, n) ==
    /\ t \in tasks /\ n \in t.targets /\ n # t.src
    /\ disk[t.src, t.chunk] = t.of
    /\ disk' = [disk EXCEPT ![<<n, t.chunk>>] = t.of]
    /\ reports' = reports \cup {<<n, t.chunk, TRUE>>}
    /\ IF t.need = 1 THEN tasks' = tasks \ {t}
       ELSE Becomes(t, [t EXCEPT !.need = @ - 1, !.targets = @ \ {n}])
    /\ UNCHANGED <<entry, client, commands, get, fails, lost, stale>>

\* The source has no chunk file, so nothing is sent; or it has another
\* upload's, which the target refuses after it has received it; or the
\* connection fails, before or after the target has opened its file.
ReplicateFails(t, n) ==
    /\ t \in tasks /\ n \in t.targets /\ Missed(t, n)
    /\ \/ disk[t.src, t.chunk] = None /\ UNCHANGED <<disk, reports, stale, fails>>
       \/ disk[t.src, t.chunk] \notin {t.of, None} /\ Spoil(n, t.chunk) /\ UNCHANGED fails
       \/ Fail /\ UNCHANGED <<disk, reports, stale>>
       \/ disk[t.src, t.chunk] # None /\ Fail /\ Spoil(n, t.chunk)
    /\ UNCHANGED <<entry, client, commands, get, lost>>

\* The source has not been listed yet and was chosen as its own target:
\* handleStoreChunk truncates what replicate would send.
ReplicateToSelf(t) ==
    /\ t \in tasks /\ t.src \in t.targets /\ Missed(t, t.src)
    /\ disk[t.src, t.chunk] # None
    /\ Spoil(t.src, t.chunk)
    /\ UNCHANGED <<entry, client, commands, get, fails, lost>>

\* Maintenance dispatches a listed node of an under-replicated chunk.
Dispatch(n, c) ==
    /\ entry # None /\ ~entry.pending
    /\ n \in entry.nodes[c] /\ Cardinality(entry.nodes[c]) < ReplicationFactor
    /\ Cardinality(tasks) < MaxTask
    /\ disk[n, c] # None
    /\ tasks' = tasks \cup {[src |-> n, chunk |-> c, of |-> disk[n, c], targets |-> {},
                             need |-> ReplicationFactor - Cardinality(entry.nodes[c])]}
    /\ UNCHANGED <<entry, disk, client, reports, commands, get, fails, lost, stale>>
-----------------------------------------------------------------------------
(* get.                                                                    *)

\* handleGetFile answers with the nodes listed now.
GetLocations ==
    /\ get.at = "idle"
    /\ entry # None /\ ~entry.pending
    /\ get' = [get EXCEPT !.at = "copying", !.of = entry.of, !.from = entry.nodes]
    /\ UNCHANGED <<entry, disk, client, reports, commands, tasks, fails, lost, stale>>

\* getChunk succeeds with any content that matches the node's own checksum;
\* when every part is there mergeChunks puts them together.
GetChunk(c, n) ==
    /\ get.at = "copying" /\ get.got[c] = None
    /\ n \in get.from[c] /\ disk[n, c] # None
    /\ get' = [get EXCEPT !.got[c] = disk[n, c],
                          !.at = IF \A d \in Chunk \ {c} : get.got[d] # None
                                 THEN "complete" ELSE @]
    /\ UNCHANGED <<entry, disk, client, reports, commands, tasks, fails, lost, stale>>

\* No node sends a chunk (nodes may refuse, be out of reach or too slow), and
\* the client gives up; or it is done.  There may be another.
GetEnds ==
    /\ get.at # "idle"
    /\ get' = NoGet
    /\ UNCHANGED <<entry, disk, client, reports, commands, tasks, fails, lost, stale>>
-----------------------------------------------------------------------------
Next ==
    \/ \E u \in Upload : Put(u) \/ PutFatal(u)
    \/ \E u \in Upload, c \in Chunk, n \in Node : Store(u, c, n) \/ StoreFails(u, c, n)
    \/ \E n \in Node, c \in Chunk, ok \in BOOLEAN : Report(n, c, ok) \/ ReportLost(n, c, ok)
    \/ Sweep \/ Delete
    \/ \E n \in Node : Command(n)
    \/ \E t \in tasks : Ask(t) \/ ReplicateToSelf(t)
    \/ \E t \in tasks, n \in Node : Replicate(t, n) \/ ReplicateFails(t, n)
    \/ \E n \in Node, c \in Chunk : Dispatch(n, c)
    \/ \E c \in Chunk, n \in Node : GetChunk(c, n)
    \/ GetLocations \/ GetEnds

Spec == Init /\ [][Next]_vars
-----------------------------------------------------------------------------
\* A node the controller lists for a chunk has the content of the upload the
\* name stands for, or its report that it has not is on its way.  That holds
\* unless an upload began while something of an earlier one was still under
\* way, a copy was removed while its own success report was still on its way,
\* or a report was lost: no report, delete command or replication carries
\* more than the name.
ListsTrue ==
    ~stale /\ ~lost /\ entry # None =>
        \A c \in Chunk : \A n \in entry.nodes[c] :
            disk[n, c] = entry.of \/ <<n, c, FALSE>> \in reports

\* A GET that completes has one upload's content, that of the file whose
\* locations it was given, as long as the name still stands for it.  (Once
\* the name is deleted and put again, a GET may mix two uploads.)
GetExact ==
    ~stale /\ ~lost /\ get.at = "complete" /\ entry # None /\ entry.of = get.of =>
        \A c \in Chunk : get.got[c] = get.of

\* An upload whose client was told it is complete is committed once the
\* reports are in, and stays until it is deleted.
CompleteCommits ==
    \A u \in Upload :
        ~lost /\ ~stale /\ client[u].at = "complete" /\ ~client[u].deleted /\ reports = {} =>
            entry # None /\ entry.of = u /\ ~entry.pending
=============================================================================

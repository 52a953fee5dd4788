# Verification of dfs-mapreduce

TLA+ models of the distributed file system (`dfs/`) and of the MapReduce
engine (`mapreduce/`) of this repository, TLC configurations that check them on
small instances, and TLAPS proofs of the most important results for all
instances. `PROJECT.json` has the line-by-line map from definitions to source,
the runs, the theorems, the hazards and the findings.

Source paths below are relative to the repository.

## 1. The system

| Component | State | Operations | Interacts with |
|---|---|---|---|
| Controller, name space (`dfs/controller/controller.go`) | `files`, `pendingFiles`, `pendingChunks`, lease expiry | PUT, GET, LIST, DELETE, lease renewal, chunk status reports, lease sweep | clients and nodes over TCP, one goroutine per connection; log; three mutexes |
| Controller, metadata log (`dfs/controller/wal.go`) | log file, temporary file, `walCount` | append, compact, recover | called under `filesMutex` |
| Controller, membership (`controller.go`) | `nodes`, last heartbeats | register, heartbeat, monitor, maintenance (evict, dispatch replication) | nodes; rewrites `files` |
| Storage node (`dfs/server/server.go`) | chunk and checksum files, `activeWrites` | store, retrieve, delete, replicate, scrub, repair, heartbeat | controller, other nodes, clients |
| DFS client (`dfs/client/client.go`) | none between commands | cut into chunks, put (with lease renewal), get, delete, list, nodes | controller, nodes |
| MapReduce master (`mapreduce/master/master.go`) | worker table, jobs | submit, assign with retries, two phases | workers, DFS controller, client |
| MapReduce worker (`mapreduce/worker/worker.go`) | spill, intermediate, fetched and result files | map, spill, merge, fetch, shuffle, reduce, upload | master, other workers, DFS client |
| External sort (`mapreduce/util/sort.go`) | files to merge, temporary files, a heap of scanners | merge in batches and levels | shuffle |
| Messages (`*/messages`) | a connection's two streams | framing, read deadlines | everything |
| Utilities, tools, plugins, `cluster.sh` | none | conversions, printing, starting and stopping | |

What is hard:

* **Concurrency.** Every connection has a goroutine; several handlers look at
  state under one lock, release it and act under another (`handlePutFile`,
  `handleChunkStatusReport`, `processReplication`, `assignMapTask`).
* **Ordering.** Reports and requests of one node travel on different
  connections and are handled in any order.
* **Crashes.** The controller must come back from its log whatever was being
  written; nodes and workers stop and come back; the master retries tasks whose
  earlier execution may still run.
* **Timeouts.** Leases (30 s, renewed to 60 s), heartbeats (15 s), five attempts
  per task.
* **Names, not identities.** Reports, delete commands and replication tasks name
  a file and a chunk number; a name may have been deleted and uploaded again.
* **Streams.** Messages and chunk bytes share a connection; only the order of
  the two ends' steps says which is which, also when one of them gives up.
* **Disks.** Storage nodes may fail to write in the middle of a chunk, and workers
  do not check most of their writes, copies and opens.
* **Limits.** 10 MB log lines, 16 MiB records, a `uint64` counter that is
  decremented, `uint32` chunk sizes, uploads of zero chunks.

What makes each part correct: the log rebuilds the map exactly; a name is
committed or pending, and is committed when every chunk has a copy; an
abandoned upload goes away; running nodes are registered and dead ones are
evicted; a chunk gets back to three replicas and is not lost by being
replicated; a transfer that succeeds has delivered the chunk and one that fails
leaves nothing behind; a GET returns the content that was put; a job ends, its
results have the records of all its map tasks, and they are what reducing the
grouped output of Map over the input file gives.

## 2. Modules

| Module | Models | Read next |
|---|---|---|
| `DurableFiles` | what the log promises: a map whose changes are durable when they end | |
| `WalFile` | `wal.go`: append, compaction, recovery, crashes, torn and failed writes | `DurableFiles` |
| `WalFile_proofs` | theorems on `WalFile` | |
| `Namespace` | `controller.go`: PUT, status reports, leases, deletion, pruning, restart, lock by lock | |
| `Namespace_proofs` | theorems on `Namespace` | |
| `Membership` | registration, heartbeats, monitoring, eviction, node and controller restarts | |
| `Membership_proofs` | theorems on `Membership` | |
| `Replication` | one chunk: replication, reports, dispatch, scrubber, repair | |
| `Replication_proofs` | theorems on `Replication` | |
| `Exchange`, `MCExchange` | one chunk over one connection, byte by byte: client and node ends of put, get, replicate and repair | `Replication` |
| `Exchange_proofs` | theorems on `Exchange` | |
| `Transfer`, `MCTransfer` | one name, several uploads of it: clients, controller, disks, delete commands, replication, a GET | `Namespace`, `Exchange` |
| `Transfer_proofs` | theorems on `Transfer` | |
| `JobMaster`, `MCJobMaster` | one MapReduce job: assignment, retries, phases, the files of tasks | |
| `JobMaster_proofs` | theorems on `JobMaster` | |
| `Pipeline`, `MCPipeline` | the data of a job: chunking, map, spill, merge, shuffle, external sort, reduce | `JobMaster` |
| `Pipeline_proofs` | theorems on `Pipeline` | |

`Transfer` is the composition: it has every party of an upload, with the
interleavings between parties and not those inside one. `Exchange` justifies
its taking a transfer for one step, `Namespace` its taking a handler for one.

Every module has a few operators marked *Mutant*. They are deliberately wrong
variants of the operator that follows them (a dropped guard, a missing reset,
an off-by-one) and are used by no specification: putting one in the place of
its original makes the property it belongs to fail, which shows that the
property says something about the code. `PROJECT.json` lists the pairs.

### WalFile

`files` is the map in memory, `wal` the lines of the log, `eol` whether it ends
in a newline, `tmp` the compaction file, `pc` the place in `appendWalRecord` or
`compactWAL` a change has reached, or `"recover"` while `recoverWAL`'s loop goes
through the log, `read` lines so far. `filesMutex` is held throughout each of
these, so there is one at a time and only a crash interrupts it. `Recover` is what
a log stands for, stated without the loop. A line is a record, or
`Torn` (does not parse), or `Overlong` (does not fit the scanner's 10 MB). A
write may be cut before the first byte, inside the JSON or before the newline;
what is appended next continues that line. `Errors` and `Tears` choose which
cuts a failing write and a crash may leave.

Mutations are any PUT of any metadata and the DELETE of an existing file, which
is what the callers of `appendWalRecord` do. Not modelled: a failing `Sync`, a
machine crash that loses a synced rename, JSON details.

### Namespace

One action is one critical section. `put[p]` and `report[r]` hold a handler
between two of its locks. `files` changes atomically and durably; `WalFile`
justifies that for whole writes. `Restart` loses everything else. Storage nodes
and clients are the environment: any node may report any chunk stored or
damaged at any time, which includes late reports about an earlier file of the
same name. `emptied` is auxiliary: it counts how often a failure report took
the last node from a chunk of the upload in progress. `todo # {}` means that
`processReplication` holds `filesMutex`.

### Membership

`nodes` is the controller's table, `silent` its entries older than 15 seconds,
`session` what the node's goroutine is doing, `listed` the locations of one
chunk, `maint` where `runMaintenance` is (in its sleep of 30 s, or in
`processReplication`), `snapshot` the addresses `processReplication` collected
before it took `filesMutex`. `fresh` is a history variable: the running nodes
that have started since the last sleep began. `PromptBeats` says whether a
running node's heartbeats are always in time. If they are, a sleep of 30 s is
long enough for every node that has been running since it began to have been
heard of, or to have been rejected and to have registered again (nodes beat
every 5 s, `server.go:70`): `MaintWake` waits for that. If they are not, it may
come at any time.

### Replication

`disk` is the chunk file per node, `owner` who opened it last (a file that was
removed or truncated by another writer meanwhile is not the one the path names),
`active` the `activeWrites` entry, `reports` the status reports on their way,
`worker` the `manageReplication` goroutines, `repair` the `repairChunk` of a
node. A target is opened with O_TRUNC whatever is there, also when it is the
source. The controller's loop that filters a chunk's nodes drops at most one of
them, because no node is listed twice, and is modelled as that (`Others`).
`Dispatch` is maintenance, which sends the task to the first node of the list
and takes the size the file has at that time. Selection picks any of the nodes
not listed: space and load only order them. Lost reports, failed transfers and
rot are faults, each of which `FailsIf` or `Rot` counts; a step whose own state
makes it fail needs none. A repair whose source is cut short under it fails
here; `Exchange` has the case that it hangs.

### Exchange

One requester (`role`: put, replicate, get or repair) and the nodes it is given,
tried in order (`req.left`). `conn[n]` is the connection to a node: `up` and
`down` are what has been sent and not read, in order, messages and bytes alike,
with a flag per end that is open. `handler[n]` is the node's `handleClient`;
`at` says whether it is in `Receive` or where it is in `handleStoreChunk` or
`handleRetrieveChunk`. `file` and `sum` are the chunk and checksum files,
`active` the `activeWrites` entry. `Break` cuts a connection at any step;
`Truncate`, `Rewrite`, `Rot` and `Delete` are what another store, disk damage
and a delete command do to the file a transfer reads, at any step between its
verification and its last byte. `verifyChunkIntegrity` is two steps, the size
and the checksum. With `Full`, a disk may be short of space or fail at any byte
(`StoreBroken`, `CopyFails`, `CopyRefused`). A store that fails in the middle of
a chunk sends no answer and goes back to `Receive`, where the rest of the chunk
is still coming: the handler is `"astray"`, and `Misread` takes the bytes for a
length and a message, until the connection or the handler ends. A checksum is
the content it is computed from, so that collisions are not considered.

### Transfer

`entry` is the controller's record of one name, `client[u]` the client that
puts upload `u`, `disk` the upload whose content a node has for a chunk,
`reports`, `commands` and `tasks` what is under way: status reports, delete
commands, `manageReplication` goroutines. None of these has more than the name
and the chunk in it. Two history variables say when an event has happened for
which the code has no answer: `lost`, a status report that was not delivered,
and `stale`, an upload that began while something of an earlier one was under
way, or a copy removed while its own success report was. The properties except
them, and say by that what the code relies on; section 3 lists what happens
after them.

`Sweep` waits until no report is on its way, for a client that stopped more
than 30 s ago. A file's size and the number of its chunks are constants.

### JobMaster

`run[j]` is the goroutine that assigns task `j`: choosing a worker, dialling,
waiting for the report. `exec` holds the executions on workers, which go on
when the master has lost the connection. `inter` and `spills` are the files a
map task leaves on a worker; they stay when the worker process stops. A result
is the set of map tasks whose data it has. Which workers have room is left open
at each selection (the load comes from heartbeats and is arbitrary).

A fault belongs to a worker and is of one of three kinds (`FaultKind`): it
stops, a connection to it breaks (or is silent for 15 s), or one of its reads or
writes fails. The worker checks that it can create its spill, intermediate and
result files (`Spill`, `CreateFails`, `Fail`); every other error of `spill`,
`mergeSpills`, `shuffle` and `runReduce` goes unnoticed: the task goes on and
reports success, and the data is `"lacking"` (`Written`, `Fetch`, `Put`). The
index of spill `n` of task `f-0` and the index of task `f-0-n`, which is chunk
`n` of a file `f-0`, are one file: `Clash` says between which tasks this
happens, `SpoilSpills` and `SpoilInter` what it does. `Local[w]` are the workers
whose address starts with the host name of `w`, which `shuffle` takes for itself
(`worker.go:434`), so that it looks for their data on its own disk (`Source`).

### Pipeline

Bytes are numbers, a record is a pair of key and value. `at` and `now` say which
step of which task runs; the steps are the loops of `calculateChunks`, `runMap`,
`mergeSpills`, `shuffle`, `ExternalSort` and `runReduce`. `heap` is what the
scanners of a merge have left to read (a scanner with nothing left is not on the
code's heap), `out` the file it writes. Every scanner ends at its first line
that is too long, and nobody asks a `KVScanner` why it ended (`Readable`: the
spills and batches that are merged, the sorted file that `shuffle` scans, the
merged file that `runReduce` scans, whose lines count with key and tab). What
the code leaves open is a choice: the order of equal keys in a sort and of equal
heads in the heap, the order in which partitions are fetched, and whether an
empty one is local. `ResultExact` compares the result with a definition that
knows nothing of chunks or merges: it reads the file, calls Map for each line
and takes, for each key of the partition, the values of its records
(`ValuesOf`). `CutOff` says which records an overlong one may take with it.

Assumed of Map (`OneLine`): no record has a newline in it and no value ends in a
carriage return, which a scanner would take off; either is a record that is not
the line it was written as.

## 3. Runs

Passing runs:

| Run | Shows | Bounds |
|---|---|---|
| `wal_clean` | `RecoveryExact`, `CountExact`, `ImplementsDurableFiles` with crashes anywhere and whole writes | 2 files, 2 metadata values, compaction at 3 records, no change begun with 4 lines in the log |
| `wal_faults` | `CompactionHeals` with every torn and failed write and with overlong records; `RecoverIsReplay`: the code's loop ends with what the log stands for | same |
| `namespace` | `CountTracksCopies`, `CommitMissesEmptied`, `DeletedStaysDeleted`, `AbandonedUploadEnds` | 1 name, 2 nodes, 2 PUT handlers, 1 report handler, up to 2 chunks |
| `membership` | `RunningNodeRejoins`, `DeadNodeEvicted` with late heartbeats, node and controller restarts | 3 nodes |
| `membership_restart` | `NotEvictedWhileRunning`: after a restart of the controller, maintenance finds the running nodes registered again | 3 nodes, heartbeats in time |
| `replication_heals` | `Heals`, `NoneLeftShort` with lost reports, failing transfers, rotten copies | 3 nodes, 3 copies wanted, 1 goroutine, 2 faults, 1 repair |
| `exchange` | `Framed`, `Delivered`, `NothingPartial`, `StoredOnce`, `ExchangeEnds` for all four requesters, with disks that are full or fail at any byte | chunk of 2 bytes, 2 nodes, 1 break, 2 disturbances of the file that is read |
| `transfer` | `ListsTrue`, `GetExact`, `CompleteCommits` over an upload, its deletion and a second upload | 2 nodes, 2 chunks, 2 uploads, 2 copies wanted, 1 goroutine, 1 failed connection |
| `pipeline` | `ChunksAreFile`, `MergesSorted`, `RecordsKept`, `KeyReducedOnce`, `ResultExact`, `PipelineEnds` | all files of up to 5 bytes over 4 letters and 5 longer ones, chunks of 2 bytes, 2 reducers, spills and batches of 2, lines of 5, sizes modulo 8 |
| `job` | `ReportedDataKept`, `ResultsWhole`, `RetriesAreSafe`, `JobEnds` with task failures and one fault, a worker that stops, a connection that breaks or a disk that fails unnoticed; the index names of the two map tasks clash, and one host name is a prefix of the other | 2 map tasks, 1 reduce task, 2 workers, 3 attempts |

Why the bounds are enough for what they show:

* Log: two files and two values distinguish old from new and one file's record
  from another's, and four lines leave room for a torn line, a record glued to
  it, and a compaction begun from either.
* Name space: names do not interact except through `filesMutex`, so one name
  has all races between handlers; two nodes are one whose copy is reported and
  one whose copy fails. Its safety properties are theorems for any number of
  everything (section 5), so the instance is sized for the liveness property.
* Membership: three nodes are one that maintenance works with, one that is in
  question and one that comes and goes. `NotEvictedWhileRunning` is a theorem
  for any number.
* Replication: with three copies on three nodes the goroutine has two to make, so
  that it can choose a node again whose report has not been handled, count it
  twice and end one short. `Heals` is checked with one goroutine: after it has
  ended, a dispatch starts it again, on whichever node is first in the list. Two
  goroutines at a time are beyond the run; the safety properties are
  theorems for any number of nodes and goroutines.
* Exchange: with two bytes a prefix, a rotten copy, the chunk and the empty file
  all differ; with two nodes there is one to go on to after every failure.
* Transfer: two chunks have "one stored, one not"; two uploads have a
  predecessor with everything under way when the second begins. States after
  `lost` or `stale` are not explored further, since every property excepts them
  from there on.
* Pipeline: the exhaustive files have every position of a newline at, before and
  after the end of a chunk. The longer ones make three levels of `ExternalSort`,
  a merged line that is too long, a record that is too long in the second of two
  chunks, lines that end in a carriage return, and a chunk whose size does not
  fit. Chunking, the order of merges, and that no record is lost and no key
  reduced twice, are theorems for every size.
* Job: three attempts include one that prefers the chunk's hosts and one that
  does not. One fault is enough for each of the losses the properties attribute;
  they are theorems for any number.

Runs that show where the code does not do what it says (each is a finding in
`PROJECT.json`, with the quotation):

| Run | Counterexample |
|---|---|
| `wal_torn_append` | crash inside a write, restart, a change is acknowledged, restart: the change is gone, since it was appended to the torn line |
| `job_lost_worker` | a worker stops after its report; the job completes with no task skipped and its records missing |

Behaviours of the code that the models also have, and that are not given a run
of their own:

* A change whose log write failed is acknowledged and lost by a restart
  (`wal.go:152`); a record over 10 MB stops recovery there (`wal.go:102`). This
  is why `RecoveryIsExact` assumes `WholeWrites`.
* PUT sees the name uncommitted, the upload of another PUT commits, PUT sees the
  name not pending: a committed name is uploaded again (`controller.go:233`).
* A file may be committed without a copy of a chunk whose only copy was
  reported damaged during the upload (`controller.go:366`):
  `CommitMissesEmptied` says exactly when. A failure report that handles `files`
  before a commit and `pendingFiles` after it removes its node from neither
  (`controller.go:354`).
* An upload without chunks is never committed (`controller.go:414`).
* `manageReplication` may count a node twice (`server.go:276`) and end with fewer
  replicas than asked; `Heals` shows that maintenance makes up for it, as long
  as the sources stay sound. It may be its own target, if its own report
  has not been handled: the node truncates what it is sending and removes it
  (`server.go:235`, `ReplicateToSelf`); the failure report takes it from the
  list again.
* Delete commands, late reports and goroutines of an upload that is over meet
  the next upload of the same name (`controller.go:475`, `server.go:249`): what
  the controller lists is then not what the disks have. `Transfer` records it
  in `stale`.
* A success report that is lost is not sent again (`server.go:174`): the upload
  is swept after the client was told "Storage complete!" (`lost`).
* A GET whose file is deleted and put again meanwhile mixes two uploads: each
  chunk is only compared with the checksum of the node that sends it
  (`client.go:306`). `GetExact` holds as long as the name stands for the same
  upload.
* With heartbeats that are late for 15 s (`PromptBeats` false), a controller that
  restarts evicts a running node that has not registered when the first sleep of
  `runMaintenance` ends, as soon as any other has (`controller.go:595`). With
  prompt ones it does not: `NotEvictedWhileRunning`.
* A repair whose peer's file is truncated after it was verified waits for ever,
  and so does the peer (`server.go:525`). A put or replicate whose node failed
  to write in mid-chunk waits for ever for an answer, while that node takes the
  rest of the chunk for a message (`server.go:207`). `ExchangeEnds` names these
  two states (`Stalled`) as the only ones in which a transfer does not end, and
  `Framed` that handler as the only one that misreads.
* The keys from the first merged line over 16 MiB on are missing from a result
  (`worker.go:641`). A single record over 16 MiB (key, tab and value) silently
  ends the scanner of its spill (`sort.go:28`), and what follows it there is
  missing too. `RecordsKept` bounds that loss: only records of the same map task
  and reducer, with the same or a later key. `ResultExact` says which keys
  before the first overlong record are reduced, and that these have all their
  values; of what is left out from that key on it says nothing. Values with
  commas reach Reduce as several (`worker.go:633`).
* A worker with a full disk reports tasks as successful whose data is missing
  (`worker.go:266`, `worker.go:347`, `worker.go:469`, `worker.go:515`,
  `worker.go:637`), and two tasks of files named `f` and `f-0` overwrite each
  other's indexes (`worker.go:241`). `ReportedDataKept` and `ResultsWhole` say
  that data is missing only where this, a stop or a broken connection explains
  it.
* A text line of nearly 4 GiB wraps the size of its chunk; at zero
  `calculateChunks` does not end (`client.go:98`). `ShortLines` excludes it.
* A reduce task whose worker stops between upload and report is retried, the
  DFS refuses the name, and the task ends as skipped (`worker.go:649`):
  `RetriesAreSafe` says that it takes such a fault.
* A worker deleted between its selection and its lookup is a nil dereference in
  the master (`master.go:344`); `JobEnds` counts it as an end of the job.

## 4. Fairness

The liveness properties assume, in each module's `FairSpec` (in `Pipeline`,
`Spec`):

* `Namespace`: `monitorLeases` loops for ever, and each of its sends ends
  (dial, send, close: no reply is awaited); a lease that nobody renews runs out.
* `Membership`: goroutines of running processes take their next step and time
  passes. Nothing is assumed about stops and starts.
* `Replication`: weak fairness for goroutines, maintenance and reports
  (delivered or lost). That anything succeeds is not assumed: the faults are
  bounded, so what is tried again after the last one is not made to fail.
  Nothing is assumed of the scrubber, of repairs and of clients. `Heals` speaks
  of chunks whose sources are sound from some time on: a goroutine whose source
  file is gone loops for ever (`server.go:249`), and a dispatch that always goes
  to a first node without the file achieves nothing.
* `JobMaster`: the master's goroutines and tasks that have started take their
  next step. Workers may stop for good and heartbeats need not come.
* `Exchange`: the requester and the handlers take their next step, and `get`'s
  read deadline passes (weak fairness each). Nothing is assumed of other stores
  of the chunk, nor that a connection breaks.
* `Pipeline`: the program goes on.

`CHECK_DEADLOCK FALSE` is set where the system may come to rest: `Replication`
(fully replicated, no reports), `Exchange` (transfer over), `Transfer` (all
uploads deleted), `Pipeline` (file processed) and `JobMaster` (job over).

## 5. Proofs

All constants are arbitrary within the modules' assumptions.

`WalFile_proofs`:

* `WalTyping`: type correctness. `LatestExists` is the lemma that makes
  `Recover` well defined: a non-empty finite set of positions has a last one.
* `HealedByCompaction`: `CompactionHeals` with every kind of torn, failed and
  overlong write, whenever the metadata being copied is itself readable. The
  inductive part is `CopyInv`: while `compactWAL` copies, `tmp` holds only
  records, rebuilds the map without the files still to be copied, and has one
  line for each copied file. It does not depend on the old log.
* `RecoveryIsReplay`: for every log, `recoverWAL`'s loop ends with what `Recover`
  and `Parsed` say of it. `ReplayInv` says it of the lines passed so far;
  `RecoverOneMore` is one turn of the loop, `RecoverStops` its end at an overlong
  line.
* `RecoveryIsExact`, `CountIsExact`: assume `WholeWrites` (a write that was cut
  left nothing, no write errors, no overlong metadata); each part of it is
  needed (section 3). `RecoveryExact` alone is not inductive: between the change
  of the map and the write, the log rebuilds the map *before* the change, so
  `ExactInv` says for every `pc` what the log rebuilds. `RecoverAppend`:
  appending a record to a clean log changes the recovered map at that name only.
* `LogImplementsDurableFiles`: the refinement, from the same invariant. Recovery
  changes nothing there; writing and compaction's rename are the abstract
  `Persist` (or change nothing), `Count` and `Reopen` its `End`, crashes its
  `Crash`.

`Namespace_proofs`:

* `NamespaceTyping`, `UploadsCanFinish`, `CommitIsWhole`, `DeletedStays`, for
  any number of files, nodes, chunks and handlers. `pendingChunks \in Nat` is
  itself a claim (the code's counter is unsigned) and needs the counting
  invariant. `CountOK` says per upload that `pendingChunks` plus `emptied` is
  the number of chunks without a node; `PruneInv` that files
  `processReplication` has still to prune are committed. Lemmas say how
  `AddNode` and `RemoveNode` change the set of uncopied chunks.

`Membership_proofs`:

* `MembershipTyping`. Its content is that a node that `monitorHeartbeats` has
  removed is not still on record as silent, and that both are forgotten together
  when the controller stops.
* `RunningNodesStay`: `NotEvictedWhileRunning`. The inductive part, `Heard`, is
  that from the end of the sleep on, the nodes that have been running since
  it began are registered and not silent, and in the snapshot once it is taken.
  That this is so at the end of the sleep is what `MaintWake` assumes of prompt
  heartbeats; that it stays so needs every other step.

`Replication_proofs`:

* `ReplicationTyped`: type correctness, whose content is that `chunk.nodes` names
  no node twice (`OthersTyped`: nor after a node is removed from it), and that a
  repair never takes the first of no peers (`Pulling`).
* `ShortHasWriter`: `NoneLeftShort`. The inductive form, `Writing`, says that a
  chunk file is short while, and only while, it has a writer on record, and that
  the one on record is in the middle of the transfer to that node.

`Transfer_proofs`:

* `TransferTyping`, `ListsAreTrue`, `GetsAreExact`, `CompleteIsCommitted`: all
  safety properties of the module, for any nodes, chunks, uploads, goroutines and
  failures. None of them is inductive, because nothing under way says which
  upload it belongs to. `TransferInv` says what each of these things stands for
  as long as `stale` and `lost` are false: no delete command is on its way while
  the name is taken, the client and every goroutine belong to the entry's upload
  (`OneUpload`); a success report on its way is true, and a listed node without
  the content has nothing and a failure report on its way (`TrueReports`); a GET
  of this upload has copied, and can copy, nothing else (`Copied`);
  `pendingChunks` is at most the number of chunks that are not stored yet, or
  are reported and not listed (`CountInv`); an upload that goes on or is complete
  has the entry (`Standing`). `CountInv` is what makes the lease sweep safe: when
  the client is complete and no report is on its way, no chunk is owed, so the
  counter is zero and the file is committed.
* The steps are grouped by what they do to a chunk (write it, remove it, neither:
  `WholeWrite`, `WholeRemove`, `WholeQuiet`), so that the client's, the
  goroutines' and the maintenance's steps share their proofs.

`Exchange_proofs`:

* `ExchangeTyped`, `StreamsFramed`, `SuccessDelivers`, `NothingPartialLeft`,
  `OneStores`: all safety properties of the module, for any nodes, chunk, number
  of broken connections and of disturbances. What the code relies on without
  saying it is how far the two ends can be apart: `ExchangeInv` states it and
  was checked by TLC, part by part, before it was proved. `Handling` says for
  each place of a handler what can still be on its way to it (nothing, the
  opening request, or a `Flow`: bytes that continue what it has); `Dialogue`
  says for each place of the requester where the handler can be and what is on
  its way back (nothing, one answer that agrees with what the handler has
  reported or will, or the announcement and a `Flow`); `Turn` that the nodes not
  tried yet are untouched and only the current one is connected; `Filed` that a
  file is a `Piece`, every byte of which is the chunk's or the rotten one at
  that position, and is complete unless somebody is writing it; `Marked` who is
  in `activeWrites`; `Through` what a success rests on; `Single`, while no
  connection broke, that a store is either Peer's or short of bytes that will
  not come. `Framed` is proved for what the property says: a handler that is not
  astray; `Astray` is what a requester can meet then, a connection on which
  nothing comes back. `Delivered` needs all of them: the bytes that were read at
  different times from a file that changes are a `Piece`, and the checksum makes
  it the chunk.
* Steps are grouped: a handler's step (`LocalStep`), the requester's steps that
  keep its connection (`StayStep`) or leave it (`LeaveStep`), and what disturbs a
  file (`DisturbStep`).

`JobMaster_proofs`:

* `JobTyping`: type correctness, with `Limit` attempts per task as a claim.
* `DataIsKept`. `Numbered` and `Attended`: a task has an execution that nobody
  waits for only after a connection to that worker broke, so that on any other
  nothing is left that could write into the files of a reported map task.
  `Working` and `Done` follow these files through spill, merge and report on a
  worker that is `Sound`: no broken connection, no disk error, no clash of
  names.
* `ResultsAreWhole`. `Gathered`: what a reduce execution has passed over, or
  lost in its sort or scan, is `Excused` by a fault of the worker that has the
  data or of its own disk, and stays so; `Uploaded` that a result in the DFS is
  the one that was reported. Faults are not excluded: the theorem says for each
  missing map task which of the two workers explains it.
* `RetriesNeedFaults`: `LostInv` says that while no worker stops and no connection
  breaks, the master knows every worker, and only a reported or running task
  has its result in the DFS. Disk errors are allowed.

`Pipeline_proofs`:

* `PipelineTyped`, `MergesAreSorted`, `ChunksMakeFile`, `RecordsAreKept`,
  `KeysReducedOnce`, `ResultsAreExact`: for any files, any Map and Partition
  (what Map returns for a line that a scanner takes are pairs, each one line of
  a file, of any length), any number of reducers and all sizes of chunks,
  spills, batches and lines.
* `PipelineInv` has four parts. `FileInv`: what has been cut is a prefix of the
  file. `FilesInv`: spill files, fetched and temporary files are sorted, and what
  the index of an intermediate file calls a partition is inside the file and
  sorted (`InterFile`), which is what makes a reducer's fetch a sorted run.
  `MergeInv`: no record that a merge has left comes before one it has written;
  without it `MergesSorted` is not inductive. `Progress`: every finished map task
  has an intermediate file with all of its index.
* `ChunksMakeFile` needs more (`LinesInv`): the bytes cut so far end with a
  newline, and the lines of the chunks are the lines of these bytes. `LinesConcat`
  is why it goes on (a text behind a newline adds its own lines only), and
  `RunInLine` why the size of a chunk is not cut to 32 bits when the lines are
  short (the bytes searched for a newline are all in one line).
* `RecordsAreKept` needs to know at every step where the records of a partition
  are (`RecordsInv`): of a map task in its spills or still to spill
  (`SpillCount`), in what a merge has left or has written (`MergeCount`), where
  the index says (`InterCount`); of a reducer in the files that `ExternalSort`
  has left, in the temporary files, in its scanners or in the file it writes
  (`SortCount`). Where scanners read (`ReadCount`) there may be less of a record
  than Map gave, never more, and less only if an overlong record of the same map
  task cuts it off. What has passed `mergeSpills` has no overlong record any
  more, so that the scanners of `ExternalSort` and of `shuffle` lose nothing.
  Each is a sum of occurrences, and `OccConcat`, `OccPartition` and `LeftExcept`
  say how a sum changes when files are joined, sorted or read.
* `KeysReducedOnce` (`ResultInv`) puts the others together: the file that
  `Merged` groups is sorted, so that each line has a greater key than the one
  before (`MergedOnce`), and it has records of the reducer's partition only,
  because Map gave no others for it.
* `ResultsAreExact` is what the others are for. `ExactInv` says that a finished
  reducer's result is what `Reduced` makes of `Merged(o)` for some sorted `o`
  that has the partition's share of the records of all chunks, for every key
  before the first with an overlong record (`ReducedFrom`, `Shared`,
  `SoundFor`). Five facts take it to the lines of the file. `MergedExact`: the
  value of a line of `Merged` is its key's values joined with commas, so that
  `runReduce`'s split gives the split of each of them in turn (`SplitJoined`).
  `SpreadAlike`: two sequences with the same elements, in whatever order, give
  the same values equally often, which makes the order of ties, spills and
  fetches immaterial. `SpelledAlike`: they also give lines of equal length, so
  that the scanner of `runReduce` stops at the same key whatever the order was.
  `ScannedAll`: when no line is too long, `runMap`'s scanner loses none.
  `AllMappedLines` (from `LinesInv`): mapping the chunks one by one is mapping
  the lines of the file. `ReducedResult` puts them together.
* Recursion: `FlattenSeq`, `Split` and `Merged` are recursive functions. What
  they compute is reached by `SetInduction`, induction for a *set* of numbers,
  which follows from the library's `WFMin` without an operator as parameter;
  `RecursionExists` and `RecursionUnique` say from it that such a function
  exists and is determined by its steps.

Only model-checked: the liveness properties (`AbandonedUploadEnds`,
`RunningNodeRejoins`, `DeadNodeEvicted`, `Heals`, `ExchangeEnds`,
`PipelineEnds`, `JobEnds`), because fairness is beyond the prover. Every safety
property of a passing run, the refinement included, is a theorem.

## 6. Not modelled

Protobuf and the bytes of a length prefix (a message is one item of a stream or
the connection breaks), collisions of the checksum function, the amounts of disk
space (a node is short of it or not), the read-only queries, the command-line
tools, plugins, statistics and `cluster.sh`. A repair whose checksum file cannot
be written, which the code does not check. Two executions of one reduce task on
one worker that share their fetched and merged files. Records that Map returns
with a newline in them or with a carriage return at the end. A delete command
that removes a directory in part. `handleGetFile` and `handleReplicaNodes` read
a chunk's node list after they have released its lock (`controller.go:306`), a
data race: here a handler sees the list as it was at one time.

## 7. Plan

Done: the log, name space, membership, replication, master; `Exchange`,
`Transfer` and `Pipeline`; proofs of all their safety properties. What is left:

* `Replication` with two goroutines at a time, for `Heals`, as far as TLC reaches.
* In `JobMaster`, the files that two executions of one reduce task share.

----------------------------- MODULE JobMaster ------------------------------
(***************************************************************************)
(* One MapReduce job: the master's worker table, the goroutine that        *)
(* assigns each map and reduce task and retries it (assignMapTask,         *)
(* assignReduceTask), the two phases of runJob, and what a task does to    *)
(* the files of the worker it runs on: spill files and the intermediate    *)
(* file of a map task, the fetches and the upload of a reduce task.        *)
(*                                                                         *)
(* Data is a set of map tasks: a result file holds the records of the map  *)
(* tasks whose intermediate data was fetched whole (which records a merge  *)
(* or a scan keeps is in Pipeline).  The worker checks that it can create  *)
(* its spill files, the intermediate file and the result file; a write, a  *)
(* copy or an open that fails elsewhere goes unnoticed, the data is        *)
(* lacking and the task is reported all the same.  Retries of a task on    *)
(* one worker use the same intermediate file, which is modelled; that two  *)
(* executions of one reduce task on one worker also share their fetched    *)
(* and merged files is not.                                                *)
(***************************************************************************)
EXTENDS Integers, FiniteSets

CONSTANTS
    Task,      \* map tasks: the chunks of the input files
    Reducer,   \* reduce tasks
    Worker,    \* workers
    Hosts,     \* per map task: workers on the hosts that store its chunk
    None,      \* no value
    Limit,     \* attempts per task (limit, 5 in the code)
    Clash,     \* <<s, t>>: the index of a spill of s has the name of t's index,
               \* as for chunk 0 of a file f and any chunk of a file f-0
    Local,     \* per worker: those whose address starts with its host name
    Kinds,     \* the kinds of faults there may be
    MaxFaults  \* bound: faults

Job == Task \cup Reducer

\* A worker stops; a connection to it breaks, or is silent for too long,
\* though it runs; one of its reads or writes of a file fails.
FaultKind == {"stop", "cut", "disk"}

ASSUME JobAssumption ==
    /\ IsFiniteSet(Job) /\ IsFiniteSet(Worker)
    /\ Task \cap Reducer = {}
    /\ Hosts \in [Task -> SUBSET Worker]
    /\ None \notin Worker /\ \A S \in SUBSET Task : S # None
    /\ Limit \in Nat \ {0}
    /\ Clash \subseteq Task \X Task /\ \A t \in Task : <<t, t>> \notin Clash
    /\ Local \in [Worker -> SUBSET Worker]
    /\ \A w \in Worker : w \in Local[w]
    /\ Kinds \subseteq FaultKind
    /\ MaxFaults \in Nat

VARIABLES
    up,        \* workers running
    workers,   \* m.workers: workers the master knows
    phase,     \* the job, or the end of the master process
    run,       \* per task: the goroutine that assigns it
    exec,      \* executions of tasks on workers
    spills,    \* per worker and task: the spill files and their indexes
    inter,     \* per worker and task: the intermediate file and its index
    dfs,       \* per reducer: the map tasks in its result in the DFS, or None
    faults,    \* <<worker, kind>>: who has had which faults
    times,     \* how many faults there have been
    clashed    \* workers on which one index has overwritten another

faultVars == <<faults, times>>

vars == <<up, workers, phase, run, exec, spills, inter, dfs, faultVars, clashed>>

\* retry: attempts used up; on: worker chosen, in the end NodeAddr.
Run == [at : {"idle", "choose", "dial", "wait", "done", "skipped"},
        retry : 0..Limit, on : Worker \cup {None}]

\* attempt: the master's retry when it was assigned; left: map tasks still to
\* fetch; got: map tasks fetched.
Exec == [job : Job, on : Worker, attempt : 0..Limit - 1,
         at : {"map", "create", "merge", "fetch", "put", "report"},
         left : SUBSET Task, got : SUBSET Task, ok : BOOLEAN]

TypeOK ==
    /\ up \subseteq Worker
    /\ workers \subseteq Worker
    /\ phase \in {"idle", "rejected", "map", "reduce", "completed", "panic"}
    /\ run \in [Job -> Run]
    /\ exec \subseteq Exec
    /\ spills \in [Worker \X Task -> {"none", "lacking", "whole"}]
    /\ inter \in [Worker \X Task -> {"none", "part", "lacking", "spoiled", "whole"}]
    /\ dfs \in [Reducer -> (SUBSET Task) \cup {None}]
    /\ faults \subseteq Worker \X Kinds
    /\ times \in 0..MaxFaults
    /\ clashed \subseteq Worker

Init ==
    /\ up = Worker
    /\ workers = {}
    /\ phase = "idle"
    /\ run = [j \in Job |-> [at |-> "idle", retry |-> 0, on |-> None]]
    /\ exec = {}
    /\ spills = [p \in Worker \X Task |-> "none"]
    /\ inter = [p \in Worker \X Task |-> "none"]
    /\ dfs = [r \in Reducer |-> None]
    /\ faults = {}
    /\ times = 0
    /\ clashed = {}
-----------------------------------------------------------------------------
(* The worker table.                                                       *)

Alive == phase # "panic"

\* Worker w has a fault of the kind.
Fault(w, kind) ==
    /\ kind \in Kinds
    /\ times < MaxFaults
    /\ times' = times + 1
    /\ faults' = faults \cup {<<w, kind>>}

\* startHeartbeats and handleWorkerHeartbeat.
Heartbeat(w) ==
    /\ Alive
    /\ w \in up \ workers
    /\ workers' = workers \cup {w}
    /\ UNCHANGED <<up, phase, run, exec, spills, inter, dfs, faultVars, clashed>>

\* monitorWorkers deletes a worker not heard of for 15 seconds.
MonitorWorkers(w) ==
    /\ Alive
    /\ w \in workers
    /\ (w \notin up /\ UNCHANGED faultVars) \/ (w \in up /\ Fault(w, "cut"))
    /\ workers' = workers \ {w}
    /\ UNCHANGED <<up, phase, run, exec, spills, inter, dfs, clashed>>

\* A worker process stops; its files stay on its disk.
WorkerStop(w) ==
    /\ w \in up
    /\ Fault(w, "stop")
    /\ up' = up \ {w}
    /\ exec' = {e \in exec : e.on # w}
    /\ UNCHANGED <<workers, phase, run, spills, inter, dfs, clashed>>

WorkerStart(w) ==
    /\ w \notin up
    /\ up' = up \cup {w}
    /\ UNCHANGED <<workers, phase, run, exec, spills, inter, dfs, faultVars, clashed>>
-----------------------------------------------------------------------------
(* runJob.                                                                 *)

Begin(S) == [j \in Job |-> IF j \in S THEN [run[j] EXCEPT !.at = "choose"] ELSE run[j]]

Over(S) == \A j \in S : run[j].at \in {"done", "skipped"}

\* handleJobSubmission: the DFS knows the input files or the job is refused.
Submit ==
    /\ phase = "idle"
    /\ \/ phase' = "map" /\ run' = Begin(Task)
       \/ phase' = "rejected" /\ UNCHANGED run
    /\ UNCHANGED <<up, workers, exec, spills, inter, dfs, faultVars, clashed>>

\* Mutant: a barrier that does not wait for the map tasks.
StartReduceEarly ==
    /\ phase = "map"
    /\ phase' = "reduce" /\ run' = Begin(Reducer)
    /\ UNCHANGED <<up, workers, exec, spills, inter, dfs, faultVars, clashed>>

\* wg.Wait between the phases, and at the end.
StartReduce ==
    /\ phase = "map" /\ Over(Task)
    /\ phase' = "reduce" /\ run' = Begin(Reducer)
    /\ UNCHANGED <<up, workers, exec, spills, inter, dfs, faultVars, clashed>>

Complete ==
    /\ phase = "reduce" /\ Over(Reducer)
    /\ phase' = "completed"
    /\ UNCHANGED <<up, workers, run, exec, spills, inter, dfs, faultVars, clashed>>
-----------------------------------------------------------------------------
(* assignMapTask and assignReduceTask.                                     *)

Retry(j) == [run EXCEPT ![j] = [at |-> "choose", retry |-> @.retry + 1, on |-> None]]

\* selectWorker, when the workers in room are under the load thresholds: one
\* on a host of the task's chunk; only in the later attempts, or when the
\* chunk has no hosts, may it be another.
LocalFirst(t, room) ==
    IF Hosts[t] \cap room # {} THEN Hosts[t] \cap room
    ELSE IF run[t].retry <= Limit \div 2 /\ Hosts[t] # {} THEN {}
    ELSE room

\* selectReduceWorker takes the one of room with most data; the amounts are
\* left open.
Selectable(j, room) == IF j \in Task THEN LocalFirst(j, room) ELSE room

\* Mutants: one more attempt than Limit; a wait that is not counted.
SelectOnceMore(j) ==
    /\ Alive
    /\ run[j].at = "choose" /\ run[j].retry <= Limit
    /\ \E room \in SUBSET workers :
          \/ \E w \in Selectable(j, room) :
                run' = [run EXCEPT ![j].at = "dial", ![j].on = w]
          \/ Selectable(j, room) = {} /\ run' = Retry(j)
    /\ UNCHANGED <<up, workers, phase, exec, spills, inter, dfs, faultVars, clashed>>

SelectUncounted(j) ==
    /\ Alive
    /\ run[j].at = "choose" /\ run[j].retry < Limit
    /\ \E room \in SUBSET workers : \E w \in Selectable(j, room) :
          run' = [run EXCEPT ![j].at = "dial", ![j].on = w]
    /\ UNCHANGED <<up, workers, phase, exec, spills, inter, dfs, faultVars, clashed>>

\* With no worker to be had, the goroutine sleeps and has used an attempt.
Select(j) ==
    /\ Alive
    /\ run[j].at = "choose" /\ run[j].retry < Limit
    /\ \E room \in SUBSET workers :
          \/ \E w \in Selectable(j, room) :
                run' = [run EXCEPT ![j].at = "dial", ![j].on = w]
          \/ Selectable(j, room) = {} /\ run' = Retry(j)
    /\ UNCHANGED <<up, workers, phase, exec, spills, inter, dfs, faultVars, clashed>>

\* After Limit attempts the task is skipped.
Skip(j) ==
    /\ Alive
    /\ run[j].at = "choose" /\ run[j].retry = Limit
    /\ run' = [run EXCEPT ![j].at = "skipped"]
    /\ UNCHANGED <<up, workers, phase, exec, spills, inter, dfs, faultVars, clashed>>

\* The worker selected has been deleted from the table meanwhile: the master
\* dereferences nil and panics.
DialDeleted(j) ==
    /\ Alive
    /\ run[j].at = "dial" /\ run[j].on \notin workers
    /\ phase' = "panic"
    /\ UNCHANGED <<up, workers, run, exec, spills, inter, dfs, faultVars, clashed>>

Assigned(j) ==
    [job |-> j, on |-> run[j].on, attempt |-> run[j].retry,
     at |-> IF j \in Task THEN "map" ELSE "fetch",
     left |-> IF j \in Task THEN {} ELSE Task, got |-> {}, ok |-> FALSE]

\* The worker cannot be reached, or it gets the assignment.
Dial(j) ==
    /\ Alive
    /\ run[j].at = "dial" /\ run[j].on \in workers
    /\ \/ /\ \/ run[j].on \notin up /\ UNCHANGED faultVars
             \/ run[j].on \in up /\ Fault(run[j].on, "cut")
          /\ run' = Retry(j)
          /\ UNCHANGED exec
       \/ /\ run[j].on \in up
          /\ run' = [run EXCEPT ![j].at = "wait"]
          /\ exec' = exec \cup {Assigned(j)}
          /\ UNCHANGED faultVars
    /\ UNCHANGED <<up, workers, phase, spills, inter, dfs, clashed>>

\* The execution whose connection the goroutine of j reads.
Awaited(j) == {e \in exec : e.job = j /\ e.attempt = run[j].retry}

\* Mutant: a receive that gives up on a worker that is slow to report.
ConnLostEarly(j) ==
    /\ Alive
    /\ run[j].at = "wait"
    /\ run' = Retry(j)
    /\ UNCHANGED <<up, workers, phase, exec, spills, inter, dfs, faultVars, clashed>>

\* Receive fails: the worker has stopped, or the connection broke.
ConnLost(j) ==
    /\ Alive
    /\ run[j].at = "wait"
    /\ \/ Awaited(j) = {} /\ UNCHANGED faultVars
       \/ Awaited(j) # {} /\ Fault(run[j].on, "cut")
    /\ run' = Retry(j)
    /\ UNCHANGED <<up, workers, phase, exec, spills, inter, dfs, clashed>>

\* The report arrives, if its connection is still there.
Report(e) ==
    /\ e \in exec /\ e.at = "report"
    /\ exec' = exec \ {e}
    /\ run' = IF Alive /\ run[e.job].at = "wait" /\ run[e.job].retry = e.attempt
              THEN IF e.ok THEN [run EXCEPT ![e.job].at = "done"] ELSE Retry(e.job)
              ELSE run
    /\ UNCHANGED <<up, workers, phase, spills, inter, dfs, faultVars, clashed>>
-----------------------------------------------------------------------------
(* handleTask on a worker.                                                 *)

Goes(e, to) == exec' = (exec \ {e}) \cup {to}

\* What is written or copied on w is whole, or lacking after an error that
\* nobody checks.
Written(w, data) ==
    \/ data = "whole" /\ UNCHANGED faultVars
    \/ data = "lacking" /\ Fault(w, "disk")

\* The index of a spill of s on w is written or removed: it was another's
\* index.
SpoilInter(w, s) ==
    [p \in Worker \X Task |->
        IF p[1] = w /\ <<s, p[2]>> \in Clash /\ inter[p] # "none" THEN "spoiled" ELSE inter[p]]

\* The index of t on w is written: it was that of another's spill.
SpoilSpills(w, t) ==
    [p \in Worker \X Task |->
        IF p[1] = w /\ <<p[2], t>> \in Clash /\ spills[p] # "none" THEN "lacking" ELSE spills[p]]

\* Whether task t on w, with those files, has overwritten another's.
Clashes(w, t) ==
    clashed' = IF \E u \in Task : \/ <<t, u>> \in Clash /\ inter[w, u] # "none"
                                  \/ <<u, t>> \in Clash /\ spills[w, u] # "none"
               THEN clashed \cup {w} ELSE clashed

\* A task fails: no chunk, no plugin, a file of a reduce task that cannot be
\* created, no upload.
Fail(e) ==
    /\ e \in exec /\ e.at \in {"map", "put"}
    /\ Goes(e, [e EXCEPT !.at = "report", !.left = {}, !.got = {}])
    /\ UNCHANGED <<up, workers, phase, run, spills, inter, dfs, faultVars, clashed>>

\* runMap scans the chunk and spills the sorted partitions; spill gives up
\* when it cannot create a file.
Spill(e) ==
    /\ e \in exec /\ e.at = "map"
    /\ \E data \in {"whole", "lacking"} :
          /\ Written(e.on, data)
          /\ spills' = [spills EXCEPT ![<<e.on, e.job>>] = data]
          /\ \/ Goes(e, [e EXCEPT !.at = "create"])
             \/ data = "lacking" /\ Goes(e, [e EXCEPT !.at = "report"])
    /\ inter' = SpoilInter(e.on, e.job)
    /\ Clashes(e.on, e.job)
    /\ UNCHANGED <<up, workers, phase, run, dfs>>

\* mergeSpills creates, so truncates, the intermediate file and its index.
CreateInter(e) ==
    /\ e \in exec /\ e.at = "create"
    /\ inter' = [inter EXCEPT ![<<e.on, e.job>>] = "part"]
    /\ spills' = SpoilSpills(e.on, e.job)
    /\ Clashes(e.on, e.job)
    /\ Goes(e, [e EXCEPT !.at = "merge"])
    /\ UNCHANGED <<up, workers, phase, run, dfs, faultVars>>

\* It gives up when it cannot create one of them.
CreateFails(e) ==
    /\ e \in exec /\ e.at = "create"
    /\ Fault(e.on, "disk")
    /\ inter' \in {inter, [inter EXCEPT ![<<e.on, e.job>>] = "part"]}
    /\ Goes(e, [e EXCEPT !.at = "report"])
    /\ UNCHANGED <<up, workers, phase, run, spills, dfs, clashed>>

\* mergeSpills merges the spill files it finds, passing over those it cannot
\* open, and removes them.
MergeSpills(e) ==
    /\ e \in exec /\ e.at = "merge"
    /\ \E data \in {"whole", "lacking"} :
          /\ Written(e.on, data)
          /\ inter' = [SpoilInter(e.on, e.job) EXCEPT ![<<e.on, e.job>>] =
                 IF @ = "spoiled" THEN @
                 ELSE IF spills[e.on, e.job] = "whole" THEN data ELSE "lacking"]
    /\ spills' = [SpoilSpills(e.on, e.job) EXCEPT ![<<e.on, e.job>>] = "none"]
    /\ Clashes(e.on, e.job)
    /\ Goes(e, [e EXCEPT !.at = "report", !.ok = TRUE])
    /\ UNCHANGED <<up, workers, phase, run, dfs>>

\* Where a reducer on a worker looks for the data of t: among its own files
\* when the address that reported t starts with the name of its host.
Source(t, on) == IF run[t].on \in Local[on] THEN on ELSE run[t].on

\* t was reported and its data is there: the files are the reducer's own, or
\* their worker runs and its handleFetchIntermediate finds them.
Fetchable(t, on) ==
    /\ run[t].at = "done"
    /\ Source(t, on) = on \/ Source(t, on) \in up
    /\ inter[Source(t, on), t] = "whole"

\* shuffle takes one map task's data; what cannot be had, read, sent or
\* written is passed over.
Fetch(e) ==
    /\ e \in exec /\ e.at = "fetch"
    /\ \E t \in e.left, got \in SUBSET Task :
          /\ \/ got = e.got \cup {t} /\ Fetchable(t, e.on) /\ UNCHANGED faultVars
             \/ got = e.got /\ ~Fetchable(t, e.on) /\ UNCHANGED faultVars
             \/ /\ got = e.got /\ Fetchable(t, e.on) /\ Source(t, e.on) # e.on
                /\ Fault(Source(t, e.on), "cut")
             \/ /\ got = e.got /\ Fetchable(t, e.on)
                /\ \E w \in {e.on, Source(t, e.on)} : Fault(w, "disk")
          /\ Goes(e, [e EXCEPT !.left = @ \ {t}, !.got = got,
                               !.at = IF e.left = {t} THEN "put" ELSE @])
    /\ UNCHANGED <<up, workers, phase, run, spills, inter, dfs, clashed>>

\* shuffle merges what it has and runReduce reduces it, which may lose some
\* of it unnoticed, and puts the result under the name the job and the
\* reducer give it; the DFS refuses a name it has.
Put(e) ==
    /\ e \in exec /\ e.at = "put"
    /\ \E got \in SUBSET e.got :
          /\ \/ got = e.got /\ UNCHANGED faultVars
             \/ got # e.got /\ Fault(e.on, "disk")
          /\ dfs' = [dfs EXCEPT ![e.job] = IF @ = None THEN got ELSE @]
    /\ Goes(e, [e EXCEPT !.at = "report", !.ok = dfs[e.job] = None, !.got = {}])
    /\ UNCHANGED <<up, workers, phase, run, spills, inter, clashed>>
-----------------------------------------------------------------------------
Execute(e) ==
    \/ Report(e) \/ Fail(e) \/ Spill(e) \/ CreateInter(e) \/ CreateFails(e)
    \/ MergeSpills(e) \/ Fetch(e) \/ Put(e)

Assign(j) ==
    Select(j) \/ Skip(j) \/ DialDeleted(j) \/ Dial(j) \/ ConnLost(j)

Next ==
    \/ \E w \in Worker : Heartbeat(w) \/ MonitorWorkers(w) \/ WorkerStop(w) \/ WorkerStart(w)
    \/ Submit \/ StartReduce \/ Complete
    \/ \E j \in Job : Assign(j)
    \/ \E e \in exec : Execute(e)

Spec == Init /\ [][Next]_vars

\* The master's goroutines go on and a task that runs ends.  Workers may stop
\* for good, and nobody need send a heartbeat.
Fairness ==
    /\ WF_vars(StartReduce) /\ WF_vars(Complete)
    /\ \A j \in Job : WF_vars(Assign(j))
    /\ WF_vars(\E e \in exec : Execute(e))

FairSpec == Spec /\ Fairness
-----------------------------------------------------------------------------
\* A job that was accepted ends, whatever workers and connections do: every
\* task is reported or given up after Limit attempts.
JobEnds == (phase = "map") ~> (phase \in {"completed", "panic"})

\* The worker has had a fault of one of the kinds.
Had(w, kinds) == \E k \in kinds : <<w, k>> \in faults

\* The data of a map task that was reported stays whole on the worker that
\* reported it, however often workers stop and tasks fail: no other execution
\* of the task writes there later.  It takes a fault of that very worker: a
\* broken connection, after which two executions of one task may run on it and
\* share their files, a write that failed unnoticed, or index files of the
\* same name.
ReportedDataKept ==
    \A t \in Task : run[t].at = "done" /\ inter[run[t].on, t] # "whole" =>
        Had(run[t].on, {"cut", "disk"}) \/ run[t].on \in clashed

\* What may keep the data of t, reported, from a reducer on a worker.
Excused(t, on) ==
    \/ Had(run[t].on, FaultKind) \/ run[t].on \in clashed
    \/ Had(on, {"disk"})
    \/ run[t].on # on /\ run[t].on \in Local[on]

\* A result that is reported has records only of map tasks that were reported,
\* and where it lacks those of one, the worker that reported that task had a
\* fault, or the one that reported the result a failed write: the result is
\* never one that an earlier execution on another worker left behind.
ResultsWhole ==
    \A r \in Reducer : run[r].at = "done" =>
        /\ dfs[r] # None
        /\ dfs[r] \subseteq {t \in Task : run[t].at = "done"}
        /\ \A t \in Task \ dfs[r] : run[t].at = "done" => Excused(t, run[r].on)

\* What a retry cannot repair needs a fault: while no worker has stopped and
\* no connection has broken, no worker is deleted between its selection and
\* its lookup (the master would panic), and no reduce task is run again, or
\* skipped, after its result is in the DFS (which refuses the name).
RetriesAreSafe ==
    (\A w \in Worker : ~Had(w, {"stop", "cut"})) =>
        /\ phase # "panic"
        /\ \A r \in Reducer : dfs[r] # None =>
               run[r].at = "done" \/ \E e \in Awaited(r) : e.at = "report" /\ e.ok

\* A job that "completed successfully" with no task skipped, so with no error
\* sent to the client, has all records in its results.
SuccessIsWhole ==
    phase = "completed" /\ (\A j \in Job : run[j].at = "done") =>
        \A r \in Reducer : dfs[r] = Task
=============================================================================

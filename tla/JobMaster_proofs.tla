-------------------------- MODULE JobMaster_proofs --------------------------
(***************************************************************************)
(* Proofs about JobMaster, for every set of map tasks, reduce tasks and    *)
(* workers, every placement of chunks and every number of attempts.        *)
(***************************************************************************)
EXTENDS JobMaster, TLAPS

-----------------------------------------------------------------------------
(* The invariants: typing and the phases, the executions and who waits for  *)
(* them, the files of map tasks, the results, and what holds while no       *)
(* worker stops and no connection breaks.                                   *)

\* A goroutine that has chosen a worker has attempts left.
RunOK ==
    \A j \in Job :
        /\ run[j].at \in {"dial", "wait", "done"} => run[j].on \in Worker
        /\ run[j].at \in {"dial", "wait"} => run[j].retry < Limit

\* An execution is where tasks of its kind can be, and has succeeded only
\* when it reports.
ExecOK ==
    \A e \in exec :
        /\ e.at \in {"map", "create", "merge"} => e.job \in Task
        /\ e.at \in {"fetch", "put"} => e.job \in Reducer
        /\ e.at # "report" => ~e.ok

\* Which goroutines a phase has started, and which have ended with it.
Stage ==
    /\ phase \in {"idle", "rejected"} => \A j \in Job : run[j].at = "idle"
    /\ \A r \in Reducer : run[r].at # "idle" => Over(Task)
    /\ phase = "map" => \A r \in Reducer : run[r].at = "idle"
    /\ phase \in {"reduce", "completed"} => Over(Task)

TypeInv == TypeOK /\ RunOK /\ ExecOK /\ Stage

\* The executions of a job have numbers of their own, and the goroutine of the
\* job waits for the latest or has gone on.
Numbered ==
    /\ \A e \in exec :
          /\ run[e.job].at # "idle"
          /\ e.attempt <= run[e.job].retry
          /\ e.attempt = run[e.job].retry => run[e.job].at = "wait" /\ run[e.job].on = e.on
    /\ \A e, f \in exec : e.job = f.job /\ e.attempt = f.attempt => e = f

\* Nobody waits for an execution only after a connection to its worker broke.
Attended ==
    \A e \in exec : <<e.on, "cut">> \notin faults => e.attempt = run[e.job].retry

\* A worker that does not run has stopped.
Down == \A w \in Worker \ up : <<w, "stop">> \in faults

OrderInv == Numbered /\ Attended /\ Down

\* A worker whose files are as its tasks have left them.
Sound(w) == ~Had(w, {"cut", "disk"}) /\ w \notin clashed

\* The files of a map task on the worker that executes it.
Working ==
    \A e \in exec : Sound(e.on) =>
        /\ e.at \in {"create", "merge"} => spills[e.on, e.job] = "whole"
        /\ e.at = "merge" => inter[e.on, e.job] = "part"
        /\ e.job \in Task /\ e.ok => inter[e.on, e.job] = "whole"

Done == \A t \in Task : run[t].at = "done" /\ Sound(run[t].on) => inter[run[t].on, t] = "whole"

FilesInv == Working /\ Done

Reported == {t \in Task : run[t].at = "done"}

\* A result from worker w that lacks nothing without an excuse.
Result(r, w) ==
    /\ dfs[r] # None
    /\ dfs[r] \subseteq Reported
    /\ \A t \in Reported \ dfs[r] : Excused(t, w)

\* What a reduce task has fetched, and what it has put into the DFS.
Gathered ==
    \A e \in exec : e.job \in Reducer =>
        /\ e.at \in {"fetch", "put"} =>
              /\ e.got \subseteq Reported
              /\ \A t \in Reported \ (e.left \cup e.got) : Excused(t, e.on)
        /\ e.at = "put" => e.left = {}
        /\ e.ok => Result(e.job, e.on)

Uploaded == \A r \in Reducer : run[r].at = "done" => Result(r, run[r].on)

ResultInv == Gathered /\ Uploaded

\* Workers known to the master stay known.
Known ==
    /\ up = Worker
    /\ phase # "panic"
    /\ \A j \in Job : run[j].at \in {"dial", "wait"} => run[j].on \in workers

\* A result in the DFS is reported, or will be to a goroutine that waits.
Unique ==
    \A r \in Reducer : dfs[r] # None =>
        run[r].at = "done" \/ \E e \in exec : e.job = r /\ e.at = "report" /\ e.ok

NoneLost == \A w \in Worker : ~Had(w, {"stop", "cut"})

LostInv == NoneLost => Known /\ Unique
-----------------------------------------------------------------------------
-----------------------------------------------------------------------------
(* Typing.                                                                 *)

LEMMA SelectableRoom ==
  ASSUME NEW j \in Job, NEW room
  PROVE  Selectable(j, room) \subseteq room
BY DEF Selectable, LocalFirst

\* Retrying a goroutine that has attempts left leaves it ready to choose.
LEMMA RetryOK ==
  ASSUME run \in [Job -> Run], NEW j \in Job, run[j].retry < Limit
  PROVE  /\ Retry(j) \in [Job -> Run]
         /\ Retry(j)[j].at = "choose"
         /\ \A i \in Job \ {j} : Retry(j)[i] = run[i]
<1>1. Limit \in Nat /\ run[j].retry \in 0..Limit
  BY JobAssumption DEF Run
<1>2. [at |-> "choose", retry |-> run[j].retry + 1, on |-> None] \in Run
  BY <1>1 DEF Run
<1> QED BY <1>2 DEF Retry

LEMMA AssignedOK ==
  ASSUME TypeInv, NEW j \in Job, run[j].at = "dial"
  PROVE  /\ Assigned(j) \in Exec
         /\ Assigned(j).job = j /\ Assigned(j).on = run[j].on
         /\ Assigned(j).attempt = run[j].retry
         /\ Assigned(j).at = IF j \in Task THEN "map" ELSE "fetch"
         /\ Assigned(j).left = IF j \in Task THEN {} ELSE Task
         /\ Assigned(j).got = {} /\ ~Assigned(j).ok
<1>1. run[j] \in Run /\ run[j].on \in Worker /\ run[j].retry < Limit
  BY DEF TypeInv, TypeOK, RunOK
<1>2. run[j].retry \in 0..Limit - 1
  BY <1>1, JobAssumption DEF Run
<1> QED BY <1>1, <1>2 DEF Assigned, Exec

FaultOK ==
    /\ faults \subseteq Worker \X Kinds
    /\ times \in 0..MaxFaults

LEMMA FaultTyped ==
  ASSUME FaultOK, NEW w \in Worker, NEW kind, UNCHANGED faultVars \/ Fault(w, kind)
  PROVE  FaultOK'
BY JobAssumption DEF FaultOK, faultVars, Fault

\* Spoiling leaves the types of the files alone.
LEMMA SpoiledTyped ==
  ASSUME TypeOK, NEW w \in Worker, NEW t \in Task, Clashes(w, t)
  PROVE  /\ SpoilInter(w, t) \in [Worker \X Task -> {"none", "part", "lacking", "spoiled", "whole"}]
         /\ SpoilSpills(w, t) \in [Worker \X Task -> {"none", "lacking", "whole"}]
         /\ clashed' \subseteq Worker
BY DEF TypeOK, Clashes, SpoilInter, SpoilSpills

LEMMA TypeInvInit == Init => TypeInv
<1> SUFFICES ASSUME Init PROVE TypeInv
  OBVIOUS
<1>1. [at |-> "idle", retry |-> 0, on |-> None] \in Run
  BY JobAssumption DEF Run
<1>2. TypeOK
  BY <1>1, JobAssumption DEF Init, TypeOK, Job
<1> QED BY <1>2 DEF Init, TypeInv, RunOK, ExecOK, Stage, Job

\* The invariant is kept by every step: one case per action.
LEMMA TypeInvNext == TypeInv /\ [Next]_vars => TypeInv'
<1> SUFFICES ASSUME TypeInv, [Next]_vars PROVE TypeInv'
  OBVIOUS
<1> USE DEF TypeInv, faultVars
<1>a. /\ Limit \in Nat \ {0}
      /\ Task \subseteq Job /\ Reducer \subseteq Job /\ Task \cap Reducer = {}
  BY JobAssumption DEF TypeOK, Job
<1>b. \A j \in Job : run[j] \in Run
  BY DEF TypeOK
<1>f. FaultOK
  BY DEF FaultOK, TypeOK
<1>1. ASSUME NEW w \in Worker, Heartbeat(w) PROVE TypeInv'
  BY <1>1 DEF faultVars, Heartbeat, TypeOK, RunOK, ExecOK, Stage, Over
<1>2. ASSUME NEW w \in Worker, MonitorWorkers(w) PROVE TypeInv'
  <2>1. FaultOK'
    BY <1>2, <1>f, FaultTyped DEF MonitorWorkers
  <2> QED BY <1>2, <2>1 DEF MonitorWorkers, TypeOK, FaultOK, RunOK, ExecOK, Stage, Over
<1>3. ASSUME NEW w \in Worker, WorkerStop(w) PROVE TypeInv'
  <2>1. FaultOK'
    BY <1>3, <1>f, FaultTyped DEF WorkerStop
  <2>2. exec' \subseteq exec
    BY <1>3 DEF WorkerStop
  <2>3. TypeOK'
    BY <1>3, <2>1, <2>2 DEF WorkerStop, TypeOK, FaultOK
  <2> QED BY <1>3, <2>2, <2>3 DEF WorkerStop, RunOK, ExecOK, Stage, Over
<1>4. ASSUME NEW w \in Worker, WorkerStart(w) PROVE TypeInv'
  BY <1>4 DEF WorkerStart, TypeOK, RunOK, ExecOK, Stage, Over
<1>5. CASE Submit
  <2>1. \A j \in Job : [run[j] EXCEPT !.at = "choose"] \in Run
    BY <1>b DEF Run
  <2>2. CASE phase' = "map" /\ run' = Begin(Task)
    <3>1. run' \in [Job -> Run]
      BY <2>1, <2>2, <1>b DEF Begin
    <3>2. TypeOK'
      BY <1>5, <2>2, <3>1 DEF Submit, TypeOK
    <3>3. /\ \A j \in Task : run'[j].at = "choose"
          /\ \A r \in Reducer : run'[r].at = "idle"
      BY <1>5, <2>2, <1>a, <1>b DEF Submit, Begin, Stage, Run
    <3>4. RunOK'
      BY <3>3 DEF RunOK, Job
    <3> QED BY <1>5, <2>2, <3>2, <3>3, <3>4 DEF Submit, ExecOK, Stage
  <2>3. CASE phase' = "rejected" /\ UNCHANGED run
    BY <1>5, <2>3 DEF Submit, TypeOK, RunOK, ExecOK, Stage, Over
  <2> QED BY <1>5, <2>2, <2>3 DEF Submit
<1>6. CASE StartReduce
  <2>1. \A j \in Job : [run[j] EXCEPT !.at = "choose"] \in Run
    BY <1>b DEF Run
  <2>2. run' \in [Job -> Run]
    BY <1>6, <2>1, <1>b DEF StartReduce, Begin
  <2>3. TypeOK'
    BY <1>6, <2>2 DEF StartReduce, TypeOK
  <2>4. /\ \A t \in Task : run'[t] = run[t]
        /\ \A r \in Reducer : run'[r].at = "choose"
    BY <1>6, <1>a, <1>b DEF StartReduce, Begin, Run
  <2>5. RunOK'
    BY <2>4 DEF RunOK, Job
  <2> QED BY <1>6, <2>3, <2>4, <2>5 DEF StartReduce, ExecOK, Stage, Over
<1>7. CASE Complete
  BY <1>7 DEF Complete, TypeOK, RunOK, ExecOK, Stage, Over
<1>8. ASSUME NEW j \in Job, NEW i \in Run,
             run[j].at \in {"choose", "dial", "wait"},
             run' = [run EXCEPT ![j] = i],
             i.at # "idle",
             i.at \in {"dial", "wait", "done"} => i.on \in Worker,
             i.at \in {"dial", "wait"} => i.retry < Limit,
             phase' = phase
      PROVE  run' \in [Job -> Run] /\ RunOK' /\ Stage'
  <2>1. run' \in [Job -> Run]
    BY <1>8 DEF TypeOK
  <2>2. RunOK'
    BY <1>8, <1>b DEF RunOK, TypeOK
  <2>3. Stage'
    BY <1>8, <1>a DEF Stage, Over, TypeOK
  <2> QED BY <2>1, <2>2, <2>3
<1>9. ASSUME NEW j \in Job, run[j].at \in {"choose", "dial", "wait"}, run[j].retry < Limit,
             run' = Retry(j), phase' = phase
      PROVE  run' \in [Job -> Run] /\ RunOK' /\ Stage'
  <2> DEFINE i == [at |-> "choose", retry |-> run[j].retry + 1, on |-> None]
  <2>1. run[j].retry \in 0..Limit
    BY <1>b DEF Run
  <2>2. i \in Run
    BY <2>1, <1>9, <1>a DEF Run
  <2>3. run' = [run EXCEPT ![j] = i]
    BY <1>9 DEF Retry
  <2>4. i.at = "choose"
    OBVIOUS
  <2> QED BY <1>8, <1>9, <2>2, <2>3, <2>4
<1>10. ASSUME NEW j \in Job, Select(j) PROVE TypeInv'
  <2>1. PICK room \in SUBSET workers :
           \/ \E w \in Selectable(j, room) :
                 run' = [run EXCEPT ![j].at = "dial", ![j].on = w]
           \/ Selectable(j, room) = {} /\ run' = Retry(j)
    BY <1>10 DEF Select
  <2>2. run' \in [Job -> Run] /\ RunOK' /\ Stage'
    <3>1. ASSUME NEW w \in Selectable(j, room),
                 run' = [run EXCEPT ![j].at = "dial", ![j].on = w]
          PROVE  run' \in [Job -> Run] /\ RunOK' /\ Stage'
      <4>1. w \in Worker
        BY SelectableRoom DEF TypeOK
      <4> DEFINE i == [run[j] EXCEPT !.at = "dial", !.on = w]
      <4>2. i \in Run /\ i.at = "dial" /\ i.on = w /\ i.retry = run[j].retry
        BY <4>1, <1>b DEF Run
      <4>3. run' = [run EXCEPT ![j] = i]
        BY <3>1 DEF TypeOK
      <4>4. run[j].at = "choose" /\ run[j].retry < Limit /\ phase' = phase
        BY <1>10 DEF Select
      <4> HIDE DEF i
      <4> QED BY <1>8, <4>1, <4>2, <4>3, <4>4
    <3>2. CASE run' = Retry(j)
      BY <1>9, <1>10, <3>2 DEF Select
    <3> QED BY <2>1, <3>1, <3>2
  <2> QED BY <1>10, <2>2 DEF Select, TypeOK, ExecOK
<1>11. ASSUME NEW j \in Job, Skip(j) PROVE TypeInv'
  <2> DEFINE i == [run[j] EXCEPT !.at = "skipped"]
  <2>1. i \in Run /\ i.at = "skipped"
    BY <1>b DEF Run
  <2>2. run' = [run EXCEPT ![j] = i] /\ run[j].at = "choose" /\ phase' = phase
    BY <1>11 DEF Skip, TypeOK
  <2> HIDE DEF i
  <2>3. run' \in [Job -> Run] /\ RunOK' /\ Stage'
    BY <1>8, <2>1, <2>2
  <2> QED BY <1>11, <2>3 DEF Skip, TypeOK, ExecOK
<1>12. ASSUME NEW j \in Job, DialDeleted(j) PROVE TypeInv'
  BY <1>12 DEF DialDeleted, TypeOK, RunOK, ExecOK, Stage, Over
<1>13. ASSUME NEW j \in Job, Dial(j) PROVE TypeInv'
  <2>1. run[j].at = "dial" /\ run[j].retry < Limit /\ run[j].on \in Worker /\ phase' = phase
    BY <1>13 DEF Dial, RunOK
  <2>2. CASE run' = Retry(j) /\ UNCHANGED exec
             /\ (UNCHANGED faultVars \/ Fault(run[j].on, "cut"))
    <3>1. FaultOK'
      BY <2>1, <2>2, <1>f, FaultTyped
    <3>2. run' \in [Job -> Run] /\ RunOK' /\ Stage'
      BY <1>9, <2>1, <2>2
    <3> QED BY <1>13, <2>2, <3>1, <3>2 DEF Dial, TypeOK, FaultOK, ExecOK
  <2>3. CASE /\ run' = [run EXCEPT ![j].at = "wait"]
             /\ exec' = exec \cup {Assigned(j)} /\ UNCHANGED faultVars
    <3> DEFINE i == [run[j] EXCEPT !.at = "wait"]
    <3>1. i \in Run /\ i.at = "wait" /\ i.on = run[j].on /\ i.retry = run[j].retry
      BY <1>b DEF Run
    <3>2. run' = [run EXCEPT ![j] = i]
      BY <2>3 DEF TypeOK
    <3> HIDE DEF i
    <3>3. run' \in [Job -> Run] /\ RunOK' /\ Stage'
      BY <1>8, <2>1, <3>1, <3>2
    <3>4. TypeOK'
      BY <1>13, <2>1, <2>3, <3>3, AssignedOK DEF Dial, TypeOK
    <3>5. ExecOK'
      BY <2>1, <2>3, AssignedOK DEF ExecOK, Job
    <3> QED BY <3>3, <3>4, <3>5
  <2> QED BY <1>13, <2>2, <2>3 DEF Dial
<1>14. ASSUME NEW j \in Job, ConnLost(j) PROVE TypeInv'
  <2>1. run[j].at = "wait" /\ run[j].retry < Limit /\ run' = Retry(j) /\ phase' = phase
    BY <1>14 DEF ConnLost, RunOK
  <2>2. FaultOK'
    BY <1>14, <2>1, <1>f, FaultTyped DEF ConnLost, RunOK
  <2>3. run' \in [Job -> Run] /\ RunOK' /\ Stage'
    BY <1>9, <2>1
  <2> QED BY <1>14, <2>2, <2>3 DEF ConnLost, TypeOK, FaultOK, ExecOK
<1>15. ASSUME NEW e \in exec, Report(e) PROVE TypeInv'
  <2>1. e \in Exec /\ e.job \in Job /\ e.attempt < Limit
    BY <1>a DEF TypeOK, Exec
  <2>2. run' \in [Job -> Run] /\ RunOK' /\ Stage'
    <3>1. CASE Alive /\ run[e.job].at = "wait" /\ run[e.job].retry = e.attempt /\ e.ok
      <4> DEFINE i == [run[e.job] EXCEPT !.at = "done"]
      <4>1. i \in Run /\ i.at = "done" /\ i.on = run[e.job].on
        BY <2>1, <1>b DEF Run
      <4>2. run' = [run EXCEPT ![e.job] = i]
        BY <1>15, <3>1, <2>1 DEF Report, TypeOK
      <4>3. i.on \in Worker /\ phase' = phase
        BY <1>15, <3>1, <2>1, <4>1 DEF RunOK, Report
      <4> HIDE DEF i
      <4> QED BY <1>8, <2>1, <3>1, <4>1, <4>2, <4>3
    <3>2. CASE Alive /\ run[e.job].at = "wait" /\ run[e.job].retry = e.attempt /\ ~e.ok
      <4>1. run' = Retry(e.job) /\ phase' = phase
        BY <1>15, <3>2 DEF Report
      <4> QED BY <1>9, <2>1, <3>2, <4>1
    <3>3. CASE ~(Alive /\ run[e.job].at = "wait" /\ run[e.job].retry = e.attempt)
      <4>1. run' = run /\ phase' = phase
        BY <1>15, <3>3 DEF Report
      <4> QED BY <4>1 DEF TypeOK, RunOK, Stage, Over
    <3> QED BY <3>1, <3>2, <3>3
  <2> QED BY <1>15, <2>2 DEF Report, TypeOK, ExecOK
<1>16. ASSUME NEW e \in exec, NEW f \in Exec, Goes(e, f), UNCHANGED <<phase, run>>,
              f.at \in {"map", "create", "merge"} => f.job \in Task,
              f.at \in {"fetch", "put"} => f.job \in Reducer,
              f.at # "report" => ~f.ok
       PROVE  exec' \subseteq Exec /\ RunOK' /\ ExecOK' /\ Stage'
  BY <1>16 DEF Goes, TypeOK, RunOK, ExecOK, Stage, Over
<1>17. ASSUME NEW e \in exec, Fail(e) PROVE TypeInv'
  <2> DEFINE f == [e EXCEPT !.at = "report", !.left = {}, !.got = {}]
  <2>1. f \in Exec /\ f.at = "report"
    BY DEF TypeOK, Exec
  <2>2. Goes(e, f) /\ UNCHANGED <<phase, run>>
    BY <1>17 DEF Fail
  <2> HIDE DEF f
  <2>3. exec' \subseteq Exec /\ RunOK' /\ ExecOK' /\ Stage'
    BY <1>16, <2>1, <2>2
  <2> QED BY <1>17, <2>3 DEF Fail, TypeOK
<1>m. ASSUME NEW e \in exec, e.job \in Task
      PROVE  /\ e \in Exec /\ e.on \in Worker /\ <<e.on, e.job>> \in Worker \X Task
             /\ [e EXCEPT !.at = "report"] \in Exec /\ [e EXCEPT !.at = "report"].at = "report"
  BY <1>m DEF TypeOK, Exec
<1>18. ASSUME NEW e \in exec, Spill(e) PROVE TypeInv'
  <2>1. e.at = "map" /\ e.job \in Task /\ ~e.ok
    BY <1>18 DEF Spill, ExecOK
  <2>2. PICK data \in {"whole", "lacking"} :
           /\ Written(e.on, data)
           /\ spills' = [spills EXCEPT ![<<e.on, e.job>>] = data]
           /\ \/ Goes(e, [e EXCEPT !.at = "create"])
              \/ data = "lacking" /\ Goes(e, [e EXCEPT !.at = "report"])
    BY <1>18 DEF Spill
  <2>3. UNCHANGED <<up, workers, phase, run, dfs>> /\ inter' = SpoilInter(e.on, e.job)
        /\ Clashes(e.on, e.job)
    BY <1>18 DEF Spill
  <2>4. exec' \subseteq Exec /\ RunOK' /\ ExecOK' /\ Stage'
    <3>1. ASSUME NEW f \in Exec, Goes(e, f), f.job = e.job, f.ok = e.ok,
                 f.at \in {"create", "report"}
          PROVE  exec' \subseteq Exec /\ RunOK' /\ ExecOK' /\ Stage'
      BY <1>16, <2>1, <2>3, <3>1
    <3>2. CASE Goes(e, [e EXCEPT !.at = "create"])
      <4> DEFINE f == [e EXCEPT !.at = "create"]
      <4>1. f \in Exec /\ f.at = "create" /\ f.job = e.job /\ f.ok = e.ok
        BY <1>m, <2>1 DEF Exec
      <4>2. Goes(e, f)
        BY <3>2
      <4> HIDE DEF f
      <4> QED BY <3>1, <4>1, <4>2
    <3>3. CASE Goes(e, [e EXCEPT !.at = "report"])
      <4> DEFINE f == [e EXCEPT !.at = "report"]
      <4>1. f \in Exec /\ f.at = "report" /\ f.job = e.job /\ f.ok = e.ok
        BY <1>m, <2>1 DEF Exec
      <4>2. Goes(e, f)
        BY <3>3
      <4> HIDE DEF f
      <4> QED BY <3>1, <4>1, <4>2
    <3> QED BY <2>2, <3>2, <3>3
  <2>5. FaultOK'
    BY <1>m, <2>1, <2>2, <1>f, FaultTyped DEF Written
  <2>6. spills' \in [Worker \X Task -> {"none", "lacking", "whole"}]
    BY <2>2 DEF TypeOK
  <2> QED BY <1>m, <2>1, <2>3, <2>4, <2>5, <2>6, SpoiledTyped DEF TypeOK, FaultOK
<1>19. ASSUME NEW e \in exec, CreateInter(e) PROVE TypeInv'
  <2> DEFINE f == [e EXCEPT !.at = "merge"]
  <2>1. e \in Exec /\ e.job \in Task /\ ~e.ok
    BY <1>19 DEF CreateInter, ExecOK, TypeOK
  <2>2. f \in Exec /\ f.at = "merge" /\ f.job = e.job /\ f.ok = e.ok
    BY <2>1 DEF Exec
  <2>3. Goes(e, f) /\ UNCHANGED <<phase, run>>
    BY <1>19 DEF CreateInter
  <2> HIDE DEF f
  <2>4. exec' \subseteq Exec /\ RunOK' /\ ExecOK' /\ Stage'
    BY <1>16, <2>1, <2>2, <2>3
  <2>5. inter' \in [Worker \X Task -> {"none", "part", "lacking", "spoiled", "whole"}]
    BY <1>19 DEF CreateInter, TypeOK
  <2> QED BY <1>19, <1>m, <2>1, <2>4, <2>5, SpoiledTyped DEF CreateInter, TypeOK, faultVars
<1>24. ASSUME NEW e \in exec, CreateFails(e) PROVE TypeInv'
  <2> DEFINE f == [e EXCEPT !.at = "report"]
  <2>1. e \in Exec /\ e.job \in Task /\ ~e.ok
    BY <1>24 DEF CreateFails, ExecOK, TypeOK
  <2>2. f \in Exec /\ f.at = "report"
    BY <2>1 DEF Exec
  <2>3. Goes(e, f) /\ UNCHANGED <<phase, run>>
    BY <1>24 DEF CreateFails
  <2> HIDE DEF f
  <2>4. exec' \subseteq Exec /\ RunOK' /\ ExecOK' /\ Stage'
    BY <1>16, <2>2, <2>3
  <2>5. inter' \in [Worker \X Task -> {"none", "part", "lacking", "spoiled", "whole"}]
    BY <1>24 DEF CreateFails, TypeOK
  <2>6. FaultOK'
    BY <1>24, <1>m, <1>f, <2>1, <1>f, FaultTyped DEF CreateFails
  <2> QED BY <1>24, <2>4, <2>5, <2>6 DEF CreateFails, TypeOK, FaultOK
<1>20. ASSUME NEW e \in exec, MergeSpills(e) PROVE TypeInv'
  <2> DEFINE f == [e EXCEPT !.at = "report", !.ok = TRUE]
  <2>1. f \in Exec /\ f.at = "report" /\ e.job \in Task
    BY <1>20 DEF TypeOK, Exec, MergeSpills, ExecOK
  <2>2. Goes(e, f) /\ UNCHANGED <<phase, run>> /\ Clashes(e.on, e.job)
    BY <1>20 DEF MergeSpills
  <2> HIDE DEF f
  <2>3. exec' \subseteq Exec /\ RunOK' /\ ExecOK' /\ Stage'
    BY <1>16, <2>1, <2>2
  <2>4. PICK data \in {"whole", "lacking"} :
           /\ Written(e.on, data)
           /\ inter' = [SpoilInter(e.on, e.job) EXCEPT ![<<e.on, e.job>>] =
                  IF @ = "spoiled" THEN @
                  ELSE IF spills[e.on, e.job] = "whole" THEN data ELSE "lacking"]
    BY <1>20 DEF MergeSpills
  <2>5. /\ SpoilInter(e.on, e.job) \in
              [Worker \X Task -> {"none", "part", "lacking", "spoiled", "whole"}]
        /\ SpoilSpills(e.on, e.job) \in [Worker \X Task -> {"none", "lacking", "whole"}]
        /\ clashed' \subseteq Worker
    BY <1>m, <2>1, <2>2, SpoiledTyped
  <2>6. inter' \in [Worker \X Task -> {"none", "part", "lacking", "spoiled", "whole"}]
    BY <2>4, <2>5
  <2>7. spills' \in [Worker \X Task -> {"none", "lacking", "whole"}]
    BY <1>20, <2>5 DEF MergeSpills
  <2>8. FaultOK'
    BY <1>m, <1>f, <2>1, <2>4, <1>f, FaultTyped DEF Written
  <2> QED BY <1>20, <2>3, <2>5, <2>6, <2>7, <2>8 DEF MergeSpills, TypeOK, FaultOK
<1>21. ASSUME NEW e \in exec, Fetch(e) PROVE TypeInv'
  <2>1. PICK t \in e.left, got \in SUBSET Task :
           /\ \/ UNCHANGED faultVars
              \/ Fault(Source(t, e.on), "cut") \/ Fault(Source(t, e.on), "disk")
              \/ Fault(e.on, "disk")
           /\ Goes(e, [e EXCEPT !.left = @ \ {t}, !.got = got,
                                !.at = IF e.left = {t} THEN "put" ELSE @])
           /\ UNCHANGED faultVars \/ run[t].at = "done"
    BY <1>21 DEF Fetch, Fetchable
  <2> DEFINE f == [e EXCEPT !.left = @ \ {t}, !.got = got,
                            !.at = IF e.left = {t} THEN "put" ELSE @]
  <2>2. e \in Exec /\ e.at = "fetch" /\ e.job \in Reducer /\ ~e.ok
    BY <1>21 DEF Fetch, ExecOK, TypeOK
  <2>3. f \in Exec /\ f.at \in {"fetch", "put"} /\ f.job = e.job /\ f.ok = e.ok
    BY <2>2 DEF Exec
  <2>4. Goes(e, f) /\ UNCHANGED <<phase, run>>
    BY <1>21, <2>1 DEF Fetch
  <2> HIDE DEF f
  <2>5. exec' \subseteq Exec /\ RunOK' /\ ExecOK' /\ Stage'
    BY <1>16, <2>2, <2>3, <2>4
  <2>6. FaultOK'
    <3>1. t \in Task /\ e.on \in Worker
      BY <2>2 DEF Exec
    <3>2. run[t].at = "done" => Source(t, e.on) \in Worker
      BY <3>1, <1>a DEF Source, RunOK
    <3> QED BY <2>1, <3>1, <3>2, <1>f, FaultTyped
  <2> QED BY <1>21, <2>5, <2>6 DEF Fetch, TypeOK, FaultOK
<1>22. ASSUME NEW e \in exec, Put(e) PROVE TypeInv'
  <2> DEFINE f == [e EXCEPT !.at = "report", !.ok = dfs[e.job] = None, !.got = {}]
  <2>1. f \in Exec /\ f.at = "report"
    BY DEF TypeOK, Exec
  <2>2. Goes(e, f) /\ UNCHANGED <<phase, run>>
    BY <1>22 DEF Put
  <2> HIDE DEF f
  <2>3. exec' \subseteq Exec /\ RunOK' /\ ExecOK' /\ Stage'
    BY <1>16, <2>1, <2>2
  <2>4. e.got \in SUBSET Task /\ e.on \in Worker
    BY DEF TypeOK, Exec
  <2>5. PICK got \in SUBSET e.got :
           /\ UNCHANGED faultVars \/ Fault(e.on, "disk")
           /\ dfs' = [dfs EXCEPT ![e.job] = IF @ = None THEN got ELSE @]
    BY <1>22 DEF Put
  <2>6. dfs' \in [Reducer -> (SUBSET Task) \cup {None}]
    BY <2>4, <2>5 DEF TypeOK
  <2>7. FaultOK'
    BY <2>4, <2>5, <1>f, FaultTyped
  <2> QED BY <1>22, <2>3, <2>6, <2>7 DEF Put, TypeOK, FaultOK
<1>23. CASE UNCHANGED vars
  BY <1>23 DEF vars, TypeOK, RunOK, ExecOK, Stage, Over
<1> QED
  BY <1>1, <1>2, <1>3, <1>4, <1>5, <1>6, <1>7, <1>10, <1>11, <1>12, <1>13, <1>14,
     <1>15, <1>17, <1>18, <1>19, <1>20, <1>21, <1>22, <1>24, <1>23
     DEF Next, Assign, Execute

\* Type correctness, for any tasks, workers and attempts: with it that no
\* task is assigned more than Limit times, and that the phases are kept apart.
THEOREM JobTyping == Spec => []TypeOK
<1>1. Spec => []TypeInv
  BY TypeInvInit, TypeInvNext, PTL DEF Spec
<1>2. TypeInv => TypeOK
  BY DEF TypeInv
<1> QED BY <1>1, <1>2, PTL
-----------------------------------------------------------------------------
(* Faults, and who waits for an execution.                                 *)

\* What has gone wrong stays on record.
LEMMA FaultsGrow == [Next]_vars => faults \subseteq faults' /\ clashed \subseteq clashed'
<1> SUFFICES ASSUME [Next]_vars PROVE faults \subseteq faults' /\ clashed \subseteq clashed'
  OBVIOUS
<1> USE DEF faultVars, Fault
<1>1. CASE UNCHANGED vars
  BY <1>1 DEF vars
<1>2. CASE \E j \in Job : Assign(j)
  BY <1>2 DEF Assign, Select, Skip, DialDeleted, Dial, ConnLost
<1>3. CASE \E e \in exec : Execute(e)
  <2>1. PICK e \in exec : Execute(e)
    BY <1>3
  <2>2. CASE Report(e) \/ Fail(e) \/ CreateFails(e) \/ Fetch(e) \/ Put(e)
    BY <2>2 DEF Report, Fail, CreateFails, Fetch, Put
  <2>3. CASE Spill(e) \/ CreateInter(e) \/ MergeSpills(e)
    BY <2>3 DEF Spill, CreateInter, MergeSpills, Written, Clashes
  <2> QED BY <2>1, <2>2, <2>3 DEF Execute
<1>4. CASE \E w \in Worker : Heartbeat(w) \/ MonitorWorkers(w) \/ WorkerStop(w) \/ WorkerStart(w)
  BY <1>4 DEF Heartbeat, MonitorWorkers, WorkerStop, WorkerStart
<1>5. CASE Submit \/ StartReduce \/ Complete
  BY <1>5 DEF Submit, StartReduce, Complete
<1> QED BY <1>1, <1>2, <1>3, <1>4, <1>5 DEF Next

\* Once the map tasks are over, what was reported stays reported.
LEMMA TasksRest ==
  TypeInv /\ [Next]_vars /\ Over(Task) => \A t \in Task : run'[t] = run[t]
<1> SUFFICES ASSUME TypeInv, [Next]_vars, Over(Task), NEW t \in Task PROVE run'[t] = run[t]
  OBVIOUS
<1>1. /\ run \in [Job -> Run] /\ t \in Job /\ t \notin Reducer
      /\ run[t].at \in {"done", "skipped"} /\ phase # "idle"
  BY JobAssumption DEF TypeInv, TypeOK, Job, Over, Stage
<1>2. ASSUME NEW j \in Job, run' = Retry(j), j # t PROVE run'[t] = run[t]
  BY <1>1, <1>2 DEF Retry
<1>3. CASE UNCHANGED run
  BY <1>3
<1>4. ASSUME NEW j \in Job, Assign(j) PROVE run'[t] = run[t]
  <2>1. run' = run \/ j # t
    BY <1>1, <1>4 DEF Assign, Select, Skip, DialDeleted, Dial, ConnLost
  <2>2. \A i \in Job \ {j} : run'[i] = run[i]
    BY <1>1, <1>4 DEF Assign, Select, Skip, DialDeleted, Dial, ConnLost, Retry
  <2> QED BY <1>1, <2>1, <2>2
<1>5. ASSUME NEW e \in exec, Report(e) PROVE run'[t] = run[t]
  BY <1>1, <1>5 DEF Report, Retry
<1>6. CASE StartReduce
  BY <1>1, <1>6 DEF StartReduce, Begin
<1>7. CASE Submit
  BY <1>1, <1>7 DEF Submit
<1>8. CASE \E w \in Worker : Heartbeat(w) \/ MonitorWorkers(w) \/ WorkerStop(w) \/ WorkerStart(w)
  BY <1>3, <1>8 DEF Heartbeat, MonitorWorkers, WorkerStop, WorkerStart
<1>9. CASE \E e \in exec : \/ Fail(e) \/ Spill(e) \/ CreateInter(e) \/ CreateFails(e)
                           \/ MergeSpills(e) \/ Fetch(e) \/ Put(e)
  BY <1>3, <1>9 DEF Fail, Spill, CreateInter, CreateFails, MergeSpills, Fetch, Put
<1>10. CASE UNCHANGED vars \/ Complete
  BY <1>3, <1>10 DEF vars, Complete
<1> QED BY <1>4, <1>5, <1>6, <1>7, <1>8, <1>9, <1>10 DEF Next, Execute

LEMMA Smaller == \A a, b \in Nat : a < b => a <= b /\ a # b /\ a < b + 1
OBVIOUS

\* Every step of a task moves its execution on.
LEMMA Advances ==
  ASSUME TypeInv, NEW e \in exec,
         \/ Fail(e) \/ Spill(e) \/ CreateInter(e) \/ CreateFails(e)
         \/ MergeSpills(e) \/ Fetch(e) \/ Put(e)
  PROVE  \E f : /\ f.job = e.job /\ f.on = e.on /\ f.attempt = e.attempt /\ Goes(e, f)
<1>1. e \in Exec
  BY DEF TypeInv, TypeOK
<1>2. CASE Fail(e)
  <2> DEFINE f == [e EXCEPT !.at = "report", !.left = {}, !.got = {}]
  <2>1. f.job = e.job /\ f.on = e.on /\ f.attempt = e.attempt
    BY <1>1 DEF Exec
  <2>2. Goes(e, f)
    BY <1>2 DEF Fail
  <2> QED BY <2>1, <2>2
<1>3. ASSUME NEW at, Goes(e, [e EXCEPT !.at = at])
      PROVE  \E f : f.job = e.job /\ f.on = e.on /\ f.attempt = e.attempt /\ Goes(e, f)
  <2> DEFINE f == [e EXCEPT !.at = at]
  <2>1. f.job = e.job /\ f.on = e.on /\ f.attempt = e.attempt
    BY <1>1 DEF Exec
  <2>2. Goes(e, f)
    BY <1>3
  <2> QED BY <2>1, <2>2
<1>4. CASE Spill(e) \/ CreateInter(e) \/ CreateFails(e)
  BY <1>3, <1>4 DEF Spill, CreateInter, CreateFails
<1>5. CASE MergeSpills(e)
  <2> DEFINE f == [e EXCEPT !.at = "report", !.ok = TRUE]
  <2>1. f.job = e.job /\ f.on = e.on /\ f.attempt = e.attempt
    BY <1>1 DEF Exec
  <2>2. Goes(e, f)
    BY <1>5 DEF MergeSpills
  <2> QED BY <2>1, <2>2
<1>6. CASE Fetch(e)
  <2>1. PICK t \in e.left, got \in SUBSET Task :
           Goes(e, [e EXCEPT !.left = @ \ {t}, !.got = got,
                             !.at = IF e.left = {t} THEN "put" ELSE @])
    BY <1>6 DEF Fetch
  <2> DEFINE f == [e EXCEPT !.left = @ \ {t}, !.got = got,
                            !.at = IF e.left = {t} THEN "put" ELSE @]
  <2>2. f.job = e.job /\ f.on = e.on /\ f.attempt = e.attempt
    BY <1>1 DEF Exec
  <2> QED BY <2>1, <2>2
<1>7. CASE Put(e)
  <2> DEFINE f == [e EXCEPT !.at = "report", !.ok = dfs[e.job] = None, !.got = {}]
  <2>1. f.job = e.job /\ f.on = e.on /\ f.attempt = e.attempt
    BY <1>1 DEF Exec
  <2>2. Goes(e, f)
    BY <1>7 DEF Put
  <2> QED BY <2>1, <2>2
<1> QED BY <1>2, <1>4, <1>5, <1>6, <1>7

LEMMA OrderInvInit == Init => OrderInv
<1> SUFFICES ASSUME Init PROVE OrderInv
  OBVIOUS
<1> QED BY DEF Init, OrderInv, Numbered, Attended, Down

\* An execution that is not the latest of its job, or whose goroutine has gone
\* on, was left behind by ConnLost, whose connection broke.
LEMMA OrderInvNext == TypeInv /\ OrderInv /\ [Next]_vars => OrderInv'
<1> SUFFICES ASSUME TypeInv, Numbered, Attended, Down, [Next]_vars
             PROVE  Numbered' /\ Attended' /\ Down'
  BY DEF OrderInv
<1>a. /\ run \in [Job -> Run] /\ exec \subseteq Exec
      /\ Task \subseteq Job /\ Reducer \subseteq Job /\ Task \cap Reducer = {}
      /\ RunOK /\ ExecOK /\ Stage /\ Limit \in Nat
  BY JobAssumption DEF TypeInv, TypeOK, Job
<1>b. \A e \in exec : e.job \in Job /\ e.on \in Worker /\ e.attempt \in Nat
  BY <1>a, JobAssumption DEF Exec
<1>r. \A j \in Job : run[j].retry \in Nat
  BY <1>a, JobAssumption DEF Run
<1>g. faults \subseteq faults'
  BY FaultsGrow
<1>d. ASSUME UNCHANGED up PROVE Down'
  BY <1>d, <1>g DEF Down
\* Executions go on as they are, or fewer, and nothing else.
<1>e. ASSUME exec' \subseteq exec, UNCHANGED run PROVE Numbered' /\ Attended'
  BY <1>e, <1>g DEF Numbered, Attended
\* The goroutine of j moves on, and no execution has its number.
<1>c. ASSUME NEW j \in Job, run' \in [Job -> Run], \A i \in Job \ {j} : run'[i] = run[i],
             \A e \in exec' : e.job = j => e.attempt < run[j].retry,
             run'[j].retry \in {run[j].retry, run[j].retry + 1}, run'[j].at # "idle",
             \A e \in exec' : e.job = j => <<e.on, "cut">> \in faults',
             exec' \subseteq exec
      PROVE  Numbered' /\ Attended'
  <2>1. ASSUME NEW e \in exec' PROVE /\ e.job \in Job /\ e.attempt \in Nat
                                     /\ e.job # j => run'[e.job] = run[e.job]
                                     /\ e.job = j => /\ e.attempt < run'[j].retry
                                                     /\ e.attempt <= run'[j].retry
                                                     /\ e.attempt # run'[j].retry
    <3>1. e \in exec /\ e.job \in Job /\ e.attempt \in Nat
      BY <1>c, <1>b
    <3>2. CASE e.job = j
      <4>1. e.attempt < run[j].retry /\ e.attempt < run[j].retry + 1 /\ run[j].retry \in Nat
        BY <1>c, <1>r, <3>1, <3>2, Smaller
      <4> QED BY <1>c, <3>1, <3>2, <4>1, Smaller
    <3> QED BY <1>c, <3>1, <3>2
  <2>2. Numbered'
    BY <1>c, <1>r, <2>1 DEF Numbered
  <2>3. Attended'
    BY <1>c, <1>g, <2>1 DEF Attended
  <2> QED BY <2>2, <2>3
\* An execution whose goroutine does not wait is an old one, left behind.
<1>o. ASSUME NEW j \in Job, run[j].at # "wait", NEW e \in exec, e.job = j
      PROVE  e.attempt < run[j].retry /\ <<e.on, "cut">> \in faults'
  BY <1>o, <1>b, <1>r, <1>g DEF Numbered, Attended
<1>p. ASSUME NEW j \in Job, run[j].at # "wait", UNCHANGED exec
      PROVE  /\ \A e \in exec' : e.job = j => e.attempt < run[j].retry
             /\ \A e \in exec' : e.job = j => <<e.on, "cut">> \in faults'
             /\ exec' \subseteq exec
  BY <1>o, <1>p
<1>8. ASSUME NEW j \in Job, run[j].at # "wait", run[j].retry < Limit,
             run' = Retry(j), UNCHANGED exec
      PROVE  Numbered' /\ Attended'
  <2>1. /\ run' \in [Job -> Run] /\ run'[j].at = "choose"
        /\ \A i \in Job \ {j} : run'[i] = run[i]
    BY <1>8, <1>a, RetryOK
  <2>2. run'[j].retry = run[j].retry + 1
    BY <1>8, <1>a DEF Retry
  <2>3. run'[j].at # "idle" /\ run'[j].retry \in {run[j].retry, run[j].retry + 1}
    BY <2>1, <2>2
  <2> QED BY <1>8, <2>1, <2>3, <1>c, <1>p
<1>1. ASSUME NEW w \in Worker, Heartbeat(w) PROVE Numbered' /\ Attended' /\ Down'
  BY <1>1, <1>d, <1>e DEF Heartbeat
<1>2. ASSUME NEW w \in Worker, MonitorWorkers(w) PROVE Numbered' /\ Attended' /\ Down'
  BY <1>2, <1>d, <1>e DEF MonitorWorkers
<1>3. ASSUME NEW w \in Worker, WorkerStop(w) PROVE Numbered' /\ Attended' /\ Down'
  <2>1. Numbered' /\ Attended'
    BY <1>3, <1>e DEF WorkerStop
  <2>2. Down'
    BY <1>3, <1>g DEF WorkerStop, Fault, Down
  <2> QED BY <2>1, <2>2
<1>4. ASSUME NEW w \in Worker, WorkerStart(w) PROVE Numbered' /\ Attended' /\ Down'
  <2>1. Numbered' /\ Attended'
    BY <1>4, <1>e DEF WorkerStart
  <2>2. Down'
    BY <1>4, <1>g DEF WorkerStart, Down
  <2> QED BY <2>1, <2>2
<1>5. CASE Submit
  <2>1. exec = {}
    BY <1>5, <1>a, <1>b DEF Submit, Stage, Numbered
  <2> QED BY <1>5, <2>1, <1>d DEF Submit, Numbered, Attended
<1>6. CASE StartReduce
  <2>1. \A r \in Reducer : run[r].at = "idle"
    BY <1>6, <1>a DEF StartReduce, Stage
  <2>2. \A e \in exec : e.job \in Task
    BY <2>1, <1>b DEF Numbered, Job
  <2>3. \A t \in Task : run'[t] = run[t]
    BY <1>6, <1>a DEF StartReduce, Begin
  <2>4. UNCHANGED <<exec, up>>
    BY <1>6 DEF StartReduce
  <2> QED BY <2>2, <2>3, <2>4, <1>d, <1>g DEF Numbered, Attended
<1>7. CASE Complete
  BY <1>7, <1>d, <1>e DEF Complete
<1>9. ASSUME NEW j \in Job, Select(j) PROVE Numbered' /\ Attended' /\ Down'
  <2>1. run[j].at = "choose" /\ run[j].retry < Limit /\ UNCHANGED <<exec, up>>
    BY <1>9 DEF Select
  <2>3. CASE run' = Retry(j)
    BY <2>1, <2>3, <1>8, <1>d
  <2>4. CASE \E w \in Worker : run' = [run EXCEPT ![j].at = "dial", ![j].on = w]
    <3>1. PICK w \in Worker : run' = [run EXCEPT ![j].at = "dial", ![j].on = w]
      BY <2>4
    <3>2. /\ run' \in [Job -> Run] /\ run'[j].at = "dial" /\ run'[j].retry = run[j].retry
          /\ \A i \in Job \ {j} : run'[i] = run[i]
      BY <3>1, <1>a DEF Run
    <3> QED BY <2>1, <3>2, <1>c, <1>p, <1>d
  <2>5. workers \subseteq Worker
    BY DEF TypeInv, TypeOK
  <2> QED BY <1>9, <2>3, <2>4, <2>5, SelectableRoom DEF Select
<1>10. ASSUME NEW j \in Job, Skip(j) PROVE Numbered' /\ Attended' /\ Down'
  <2>1. /\ run' \in [Job -> Run] /\ run'[j].at = "skipped" /\ run'[j].retry = run[j].retry
        /\ \A i \in Job \ {j} : run'[i] = run[i]
        /\ run[j].at = "choose" /\ UNCHANGED <<exec, up>>
    BY <1>10, <1>a DEF Skip, Run
  <2> QED BY <2>1, <1>c, <1>p, <1>d
<1>11. ASSUME NEW j \in Job, DialDeleted(j) PROVE Numbered' /\ Attended' /\ Down'
  BY <1>11, <1>d, <1>e DEF DialDeleted
<1>12. ASSUME NEW j \in Job, Dial(j) PROVE Numbered' /\ Attended' /\ Down'
  <2>1. run[j].at = "dial" /\ run[j].retry < Limit /\ UNCHANGED up
    BY <1>12, <1>a DEF Dial, RunOK
  <2>3. CASE run' = Retry(j) /\ UNCHANGED exec
    BY <2>1, <2>3, <1>8, <1>d
  <2>4. CASE run' = [run EXCEPT ![j].at = "wait"] /\ exec' = exec \cup {Assigned(j)}
    <3>1. /\ run'[j].at = "wait" /\ run'[j].on = run[j].on /\ run'[j].retry = run[j].retry
          /\ \A i \in Job \ {j} : run'[i] = run[i]
      BY <2>4, <1>a DEF Run
    <3>2. /\ Assigned(j).job = j /\ Assigned(j).on = run[j].on
          /\ Assigned(j).attempt = run[j].retry
      BY <2>1, AssignedOK
    <3>3. ASSUME NEW e \in exec, e.job = j
          PROVE  e.attempt < run[j].retry /\ <<e.on, "cut">> \in faults'
      BY <2>1, <3>3, <1>o
    <3>4. \A e \in exec' : e \in exec \/ e = Assigned(j)
      BY <2>4
    <3>5. Numbered'
      <4>1. ASSUME NEW e \in exec'
            PROVE  /\ run'[e.job].at # "idle" /\ e.attempt <= run'[e.job].retry
                   /\ e.attempt = run'[e.job].retry =>
                         run'[e.job].at = "wait" /\ run'[e.job].on = e.on
        <5>1. CASE e = Assigned(j)
          BY <5>1, <3>1, <3>2, <1>r
        <5>2. CASE e \in exec /\ e.job = j
          <6>1. e.attempt <= run[j].retry /\ e.attempt # run[j].retry
            BY <5>2, <3>3, <1>r, <1>b, Smaller
          <6> QED BY <5>2, <6>1, <3>1
        <5>3. CASE e \in exec /\ e.job # j
          BY <5>3, <3>1, <1>b DEF Numbered
        <5> QED BY <3>4, <5>1, <5>2, <5>3
      <4>2. ASSUME NEW e \in exec', NEW f \in exec', e.job = f.job, e.attempt = f.attempt
            PROVE  e = f
        <5>1. CASE e \in exec /\ f \in exec
          BY <4>2, <5>1 DEF Numbered
        <5>2. ASSUME NEW g \in exec PROVE ~(g.job = j /\ g.attempt = run[j].retry)
          BY <3>3, <5>2, <1>r, <1>b, Smaller
        <5> QED BY <3>2, <3>4, <4>2, <5>1, <5>2
      <4> QED BY <4>1, <4>2 DEF Numbered
    <3>6. Attended'
      <4> SUFFICES ASSUME NEW e \in exec', <<e.on, "cut">> \notin faults'
                   PROVE  e.attempt = run'[e.job].retry
        BY DEF Attended
      <4>1. CASE e = Assigned(j)
        BY <4>1, <3>1, <3>2
      <4>2. CASE e \in exec
        <5>1. e.job # j
          BY <3>3, <4>2
        <5> QED BY <4>2, <5>1, <3>1, <1>b, <1>g DEF Attended
      <4> QED BY <3>4, <4>1, <4>2
    <3> QED BY <2>1, <3>5, <3>6, <1>d
  <2> QED BY <1>12, <2>3, <2>4 DEF Dial
<1>13. ASSUME NEW j \in Job, ConnLost(j) PROVE Numbered' /\ Attended' /\ Down'
  <2>1. /\ run[j].at = "wait" /\ run[j].retry < Limit /\ run' = Retry(j)
        /\ Awaited(j) = {} \/ Fault(run[j].on, "cut")
    BY <1>13, <1>a DEF ConnLost, RunOK
  <2>2. /\ run' \in [Job -> Run] /\ run'[j].at = "choose" /\ run'[j].retry = run[j].retry + 1
        /\ \A i \in Job \ {j} : run'[i] = run[i]
        /\ UNCHANGED <<exec, up>>
    BY <1>13, <2>1, <1>a, RetryOK DEF Retry, ConnLost
  <2>3. ASSUME NEW e \in exec, e.job = j
        PROVE  e.attempt <= run[j].retry /\ <<e.on, "cut">> \in faults'
    <3>1. CASE e.attempt = run[j].retry
      <4>1. e \in Awaited(j) /\ e.on = run[j].on
        BY <2>3, <3>1 DEF Awaited, Numbered
      <4> QED BY <2>1, <3>1, <4>1, <1>r DEF Fault
    <3>2. CASE e.attempt # run[j].retry
      BY <2>3, <3>2, <1>g DEF Numbered, Attended
    <3> QED BY <3>1, <3>2
  <2>4. Numbered'
    <3>1. ASSUME NEW e \in exec PROVE /\ e.job \in Job /\ e.attempt \in Nat
                                      /\ e.job # j => run'[e.job] = run[e.job]
                                      /\ e.job = j => e.attempt < run'[j].retry
      <4>1. e.job \in Job /\ e.attempt \in Nat /\ run[j].retry \in Nat
        BY <1>b, <1>r
      <4>2. CASE e.job = j
        <5>1. e.attempt <= run[j].retry
          BY <2>3, <4>2
        <5>2. e.attempt < run[j].retry + 1
          BY <4>1, <5>1
        <5> QED BY <2>2, <4>1, <4>2, <5>2
      <4> QED BY <2>2, <4>1, <4>2
    <3>2. ASSUME NEW e \in exec, e.job = j PROVE /\ e.attempt <= run'[j].retry
                                                 /\ e.attempt # run'[j].retry
      <4>1. e.attempt \in Nat /\ run'[j].retry \in Nat /\ e.attempt < run'[j].retry
        BY <2>2, <3>1, <3>2, <1>r
      <4> QED BY <4>1, Smaller
    <3> QED BY <2>2, <3>1, <3>2 DEF Numbered
  <2>5. Attended'
    BY <2>2, <2>3, <1>b, <1>g DEF Attended
  <2> QED BY <2>2, <2>4, <2>5, <1>d
<1>14. ASSUME NEW e \in exec, Report(e) PROVE Numbered' /\ Attended' /\ Down'
  <2>1. e.job \in Job /\ exec' = exec \ {e} /\ UNCHANGED up
    BY <1>14, <1>b DEF Report
  <2>2. CASE run' = run
    BY <2>1, <2>2, <1>d, <1>e
  <2>3. CASE run' # run
    <3>1. /\ run[e.job].at = "wait" /\ run[e.job].retry = e.attempt /\ run[e.job].retry < Limit
          /\ run' = [run EXCEPT ![e.job].at = "done"] \/ run' = Retry(e.job)
      BY <1>14, <2>1, <2>3, <1>a DEF Report, RunOK
    <3>2. /\ run' \in [Job -> Run] /\ run'[e.job].at \in {"done", "choose"}
          /\ run'[e.job].retry \in {run[e.job].retry, run[e.job].retry + 1}
          /\ \A i \in Job \ {e.job} : run'[i] = run[i]
      <4>1. CASE run' = [run EXCEPT ![e.job].at = "done"]
        BY <2>1, <4>1, <1>a, <1>r DEF Run
      <4>2. CASE run' = Retry(e.job)
        <5>1. /\ run' \in [Job -> Run] /\ run'[e.job].at = "choose"
              /\ \A i \in Job \ {e.job} : run'[i] = run[i]
          BY <2>1, <3>1, <4>2, <1>a, RetryOK
        <5>2. run'[e.job].retry = run[e.job].retry + 1
          BY <2>1, <4>2, <1>a DEF Retry
        <5> QED BY <2>1, <5>1, <5>2, <1>r
      <4> QED BY <3>1, <4>1, <4>2
    <3>3. ASSUME NEW f \in exec', f.job = e.job
          PROVE  f.attempt < run[e.job].retry /\ <<f.on, "cut">> \in faults'
      <4>1. f \in exec /\ f # e
        BY <2>1
      <4>2. f.attempt # e.attempt
        BY <3>3, <4>1 DEF Numbered
      <4> QED BY <3>1, <3>3, <4>1, <4>2, <1>b, <1>r, <1>g DEF Numbered, Attended
    <3> QED BY <2>1, <3>2, <3>3, <1>c, <1>d
  <2> QED BY <2>2, <2>3
\* The execution e becomes f.
<1>15. ASSUME NEW e \in exec, NEW f, f.job = e.job, f.on = e.on, f.attempt = e.attempt,
             Goes(e, f), UNCHANGED <<run, up>>
      PROVE  Numbered' /\ Attended' /\ Down'
  <2>1. \A g \in exec' : g = f \/ (g \in exec /\ g # e)
    BY <1>15 DEF Goes
  <2>2. Numbered'
    BY <1>15, <2>1 DEF Numbered
  <2>3. Attended'
    BY <1>15, <2>1, <1>g DEF Attended
  <2> QED BY <1>15, <2>2, <2>3, <1>d
<1>16. ASSUME NEW e \in exec, \/ Fail(e) \/ Spill(e) \/ CreateInter(e) \/ CreateFails(e)
                              \/ MergeSpills(e) \/ Fetch(e) \/ Put(e)
       PROVE  Numbered' /\ Attended' /\ Down'
  <2>1. PICK f : f.job = e.job /\ f.on = e.on /\ f.attempt = e.attempt /\ Goes(e, f)
    BY <1>16, Advances
  <2>2. UNCHANGED <<run, up>>
    BY <1>16 DEF Fail, Spill, CreateInter, CreateFails, MergeSpills, Fetch, Put
  <2> QED BY <1>15, <2>1, <2>2
<1>17. CASE UNCHANGED vars
  BY <1>17, <1>d, <1>e DEF vars
<1> QED
  BY <1>1, <1>2, <1>3, <1>4, <1>5, <1>6, <1>7, <1>9, <1>10, <1>11, <1>12, <1>13, <1>14,
     <1>16, <1>17
     DEF Next, Assign, Execute

-----------------------------------------------------------------------------
(* The files of map tasks.                                                 *)

LEMMA SoundBefore ==
  ASSUME [Next]_vars, NEW w \in Worker, Sound(w)'
  PROVE  Sound(w)
BY FaultsGrow DEF Sound, Had

\* Whoever is sound after a task has written its files had none spoiled.
LEMMA Unspoiled ==
  ASSUME TypeInv, NEW w \in Worker, NEW t \in Task, Clashes(w, t),
         NEW v \in Worker, NEW u \in Task, v \notin clashed'
  PROVE  SpoilInter(w, t)[v, u] = inter[v, u] /\ SpoilSpills(w, t)[v, u] = spills[v, u]
<1>1. <<v, u>> \in Worker \X Task /\ <<v, u>>[1] = v /\ <<v, u>>[2] = u
  OBVIOUS
<1>2. v = w => ~(<<t, u>> \in Clash /\ inter[w, u] # "none")
               /\ ~(<<u, t>> \in Clash /\ spills[w, u] # "none")
  BY DEF Clashes
<1>3. SpoilInter(w, t)[v, u] = inter[v, u]
  BY <1>1, <1>2 DEF SpoilInter
<1>4. SpoilSpills(w, t)[v, u] = spills[v, u]
  BY <1>1, <1>2 DEF SpoilSpills
<1> QED BY <1>3, <1>4

LEMMA FilesInvInit == Init => FilesInv
<1> SUFFICES ASSUME Init PROVE Working /\ Done
  BY DEF FilesInv
<1>1. exec = {} /\ \A t \in Task : run[t].at = "idle"
  BY DEF Init, Job
<1> QED BY <1>1 DEF Working, Done

\* On a worker that is sound an execution is alone with the files of its task:
\* the goroutine that waits for it assigns no other, and no reported task has
\* an execution there.
LEMMA FilesInvNext == TypeInv /\ OrderInv /\ FilesInv /\ [Next]_vars => FilesInv'
<1> SUFFICES ASSUME TypeInv, Numbered, Attended, Working, Done, [Next]_vars
             PROVE  Working' /\ Done'
  BY DEF OrderInv, FilesInv
<1>a. /\ run \in [Job -> Run] /\ exec \subseteq Exec
      /\ Task \subseteq Job /\ Reducer \subseteq Job /\ Task \cap Reducer = {}
      /\ RunOK /\ ExecOK /\ Stage
      /\ spills \in [Worker \X Task -> {"none", "lacking", "whole"}]
      /\ inter \in [Worker \X Task -> {"none", "part", "lacking", "spoiled", "whole"}]
  BY JobAssumption DEF TypeInv, TypeOK, Job
<1>b. \A e \in exec : e.job \in Job /\ e.on \in Worker /\ e.attempt < Limit
  BY <1>a, JobAssumption DEF Exec
<1>s. \A w \in Worker : Sound(w)' => Sound(w)
  BY SoundBefore
<1>w. \A e \in exec : Sound(e.on) => /\ e.attempt = run[e.job].retry
                                    /\ run[e.job].at = "wait" /\ run[e.job].on = e.on
  BY DEF Sound, Had, Attended, Numbered
\* Executions and files stay.
<1>e. ASSUME exec' \subseteq exec, UNCHANGED <<spills, inter>> PROVE Working'
  BY <1>e, <1>b, <1>s DEF Working
\* Goroutines move on, with reports of whole data only.
<1>c. ASSUME UNCHANGED inter,
             \A t \in Task : run'[t].at = "done" /\ run'[t] # run[t] /\ Sound(run[t].on)' =>
                                inter[run'[t].on, t] = "whole"
      PROVE  Done'
  <2>1. ASSUME NEW t \in Task, run'[t].at = "done", Sound(run[t].on)', run'[t] = run[t]
        PROVE  inter[run'[t].on, t] = "whole"
    <3>1. run[t].on \in Worker
      BY <2>1, <1>a DEF RunOK
    <3>2. Sound(run[t].on)
      BY <2>1, <3>1, FaultsGrow DEF Sound, Had
    <3> QED BY <2>1, <3>2 DEF Done
  <2> QED BY <1>c, <2>1 DEF Done
<1>1. CASE \E w \in Worker : Heartbeat(w) \/ MonitorWorkers(w) \/ WorkerStop(w) \/ WorkerStart(w)
  <2>1. exec' \subseteq exec /\ UNCHANGED <<run, spills, inter>>
    BY <1>1 DEF Heartbeat, MonitorWorkers, WorkerStop, WorkerStart
  <2> QED BY <2>1, <1>c, <1>e
<1>2. CASE Submit \/ StartReduce \/ Complete \/ UNCHANGED vars
  <2>1. exec' \subseteq exec /\ UNCHANGED <<spills, inter>>
    BY <1>2 DEF Submit, StartReduce, Complete, vars
  <2>2. \A t \in Task : run'[t].at = "done" => run'[t] = run[t]
    BY <1>2, <1>a DEF Submit, StartReduce, Complete, Begin, vars, Run
  <2> QED BY <2>1, <2>2, <1>c, <1>e
<1>3. ASSUME NEW j \in Job, Assign(j) PROVE Working' /\ Done'
  <2>1. UNCHANGED <<spills, inter>> /\ \A e \in exec' : e \in exec \/ (e = Assigned(j) /\ Dial(j))
    BY <1>3 DEF Assign, Select, Skip, DialDeleted, Dial, ConnLost
  <2>2. Working'
    <3>1. ASSUME Dial(j) PROVE Assigned(j).at \notin {"create", "merge"} /\ ~Assigned(j).ok
      BY <3>1, AssignedOK DEF Dial
    <3> QED BY <2>1, <3>1, <1>b, <1>s DEF Working
  <2>3. \A t \in Task : run'[t].at = "done" => run'[t] = run[t]
    BY <1>3, <1>a DEF Assign, Select, Skip, DialDeleted, Dial, ConnLost, Retry, Run
  <2> QED BY <2>1, <2>2, <2>3, <1>c
<1>4. ASSUME NEW e \in exec, Report(e) PROVE Working' /\ Done'
  <2>1. exec' \subseteq exec /\ UNCHANGED <<spills, inter>>
    BY <1>4 DEF Report
  <2>2. ASSUME NEW t \in Task, run'[t].at = "done", run'[t] # run[t], Sound(run[t].on)'
        PROVE  inter[run'[t].on, t] = "whole"
    <3>1. /\ e.ok /\ run[e.job].at = "wait" /\ run[e.job].retry = e.attempt
          /\ t = e.job /\ run'[t].on = run[t].on
      BY <1>4, <2>2, <1>a, <1>b DEF Report, Retry, Run
    <3>2. run[t].on = e.on /\ run'[t].on = e.on
      BY <3>1 DEF Numbered
    <3>3. Sound(e.on)
      BY <2>2, <3>2, FaultsGrow DEF Sound, Had
    <3> QED BY <3>1, <3>2, <3>3 DEF Working
  <2> QED BY <2>1, <2>2, <1>c, <1>e
\* The execution e becomes f, and has written nothing but its files.
<1>5. ASSUME NEW e \in exec, NEW f, f.job = e.job, f.on = e.on, f.attempt = e.attempt,
             Goes(e, f), UNCHANGED run,
             \A v \in Worker, u \in Task : Sound(v)' /\ ~(v = e.on /\ u = e.job) =>
                 inter'[v, u] = inter[v, u] /\ spills'[v, u] = spills[v, u],
             e.job \in Task \/ UNCHANGED <<inter, spills>>,
             Sound(e.on)' =>
                 /\ f.at \in {"create", "merge"} => spills'[e.on, e.job] = "whole"
                 /\ f.at = "merge" => inter'[e.on, e.job] = "part"
                 /\ e.job \in Task /\ f.ok => inter'[e.on, e.job] = "whole"
       PROVE  Working' /\ Done'
  <2>1. \A g \in exec' : g = f \/ (g \in exec /\ g # e)
    BY <1>5 DEF Goes
  <2>2. ASSUME NEW g \in exec, g # e, Sound(g.on)', g.job \in Task
        PROVE  inter'[g.on, g.job] = inter[g.on, g.job] /\ spills'[g.on, g.job] = spills[g.on, g.job]
    <3>1. ~(g.on = e.on /\ g.job = e.job)
      BY <2>2, <1>b, <1>s, <1>w DEF Numbered
    <3> QED BY <2>2, <3>1, <1>5, <1>b
  <2>3. Working'
    <3>1. ASSUME NEW g \in exec', Sound(g.on)'
          PROVE  /\ g.at \in {"create", "merge"} => spills'[g.on, g.job] = "whole"
                 /\ g.at = "merge" => inter'[g.on, g.job] = "part"
                 /\ g.job \in Task /\ g.ok => inter'[g.on, g.job] = "whole"
      <4>1. CASE g = f
        BY <3>1, <4>1, <1>5
      <4>2. CASE g \in exec /\ g # e
        <5>1. g.at \in {"create", "merge"} => g.job \in Task
          BY <4>2, <1>a DEF ExecOK
        <5>2. Sound(g.on)
          BY <3>1, <4>2, <1>b, <1>s
        <5> QED BY <2>2, <3>1, <4>2, <5>1, <5>2 DEF Working
      <4> QED BY <2>1, <4>1, <4>2
    <3> QED BY <3>1 DEF Working
  <2>4. Done'
    <3>1. ASSUME NEW t \in Task, run[t].at = "done", Sound(run[t].on)'
          PROVE  inter'[run[t].on, t] = "whole"
      <4>1. run[t].on \in Worker
        BY <3>1, <1>a DEF RunOK
      <4>2. ~(run[t].on = e.on /\ t = e.job)
        <5>1. CASE run[t].on = e.on
          <6>1. Sound(e.on)
            BY <3>1, <5>1, <1>5, FaultsGrow DEF Sound, Had
          <6> QED BY <3>1, <6>1, <1>w
        <5> QED BY <5>1
      <4> QED BY <3>1, <4>1, <4>2, <1>5, <1>s DEF Done
    <3> QED BY <3>1, <1>5 DEF Done
  <2> QED BY <2>3, <2>4
<1>6. ASSUME NEW e \in exec, Fail(e) \/ Fetch(e) \/ Put(e) PROVE Working' /\ Done'
  <2>1. UNCHANGED <<run, spills, inter>>
    BY <1>6 DEF Fail, Fetch, Put
  <2>2. PICK f : /\ f.job = e.job /\ f.on = e.on /\ f.attempt = e.attempt /\ Goes(e, f)
                 /\ f.at \in {"report", "fetch", "put"} /\ (e.job \in Task => ~f.ok)
    <3>1. e \in Exec
      BY <1>a
    <3>2. CASE Fail(e)
      <4> DEFINE f == [e EXCEPT !.at = "report", !.left = {}, !.got = {}]
      <4>1. /\ f.job = e.job /\ f.on = e.on /\ f.attempt = e.attempt /\ f.at = "report"
            /\ ~f.ok
        BY <3>1, <3>2, <1>a DEF Exec, Fail, ExecOK
      <4>2. Goes(e, f)
        BY <3>2 DEF Fail
      <4> QED BY <4>1, <4>2
    <3>3. CASE Fetch(e)
      <4>1. PICK t \in e.left, got \in SUBSET Task :
               Goes(e, [e EXCEPT !.left = @ \ {t}, !.got = got,
                                 !.at = IF e.left = {t} THEN "put" ELSE @])
        BY <3>3 DEF Fetch
      <4> DEFINE f == [e EXCEPT !.left = @ \ {t}, !.got = got,
                                !.at = IF e.left = {t} THEN "put" ELSE @]
      <4>2. /\ f.job = e.job /\ f.on = e.on /\ f.attempt = e.attempt
            /\ f.at \in {"fetch", "put"} /\ ~f.ok
        BY <3>1, <3>3, <1>a DEF Exec, Fetch, ExecOK
      <4> QED BY <4>1, <4>2
    <3>4. CASE Put(e)
      <4> DEFINE f == [e EXCEPT !.at = "report", !.ok = dfs[e.job] = None, !.got = {}]
      <4>1. /\ f.job = e.job /\ f.on = e.on /\ f.attempt = e.attempt /\ f.at = "report"
            /\ e.job \notin Task
        BY <3>1, <3>4, <1>a DEF Exec, Put, ExecOK
      <4>2. Goes(e, f)
        BY <3>4 DEF Put
      <4> QED BY <4>1, <4>2
    <3> QED BY <1>6, <3>2, <3>3, <3>4
  <2> HIDE DEF Goes
  <2> QED BY <2>1, <2>2, <1>5
<1>u. ASSUME NEW e \in exec, e.job \in Task, Clashes(e.on, e.job),
             NEW v \in Worker, NEW u \in Task, Sound(v)'
      PROVE  /\ SpoilInter(e.on, e.job)[v, u] = inter[v, u]
             /\ SpoilSpills(e.on, e.job)[v, u] = spills[v, u]
  BY <1>u, <1>b, Unspoiled DEF Sound
<1>h. ASSUME NEW w \in Worker, NEW data \in {"whole", "lacking"}, Written(w, data), Sound(w)'
      PROVE  data = "whole"
  BY <1>h DEF Written, Fault, Sound, Had
<1>7. ASSUME NEW e \in exec, Spill(e) PROVE Working' /\ Done'
  <2>1. PICK data \in {"whole", "lacking"} :
           /\ Written(e.on, data)
           /\ spills' = [spills EXCEPT ![<<e.on, e.job>>] = data]
           /\ \/ Goes(e, [e EXCEPT !.at = "create"])
              \/ data = "lacking" /\ Goes(e, [e EXCEPT !.at = "report"])
    BY <1>7 DEF Spill
  <2>2. /\ e \in Exec /\ e.job \in Task /\ ~e.ok /\ UNCHANGED run
        /\ inter' = SpoilInter(e.on, e.job) /\ Clashes(e.on, e.job)
    BY <1>7, <1>a DEF Spill, ExecOK
  <2>3. PICK f : /\ f.job = e.job /\ f.on = e.on /\ f.attempt = e.attempt /\ Goes(e, f)
                 /\ f.at \in {"create", "report"} /\ ~f.ok
    <3>1. ASSUME NEW at \in {"create", "report"}, Goes(e, [e EXCEPT !.at = at])
          PROVE  \E f : /\ f.job = e.job /\ f.on = e.on /\ f.attempt = e.attempt /\ Goes(e, f)
                        /\ f.at \in {"create", "report"} /\ ~f.ok
      <4> DEFINE f == [e EXCEPT !.at = at]
      <4>1. /\ f.job = e.job /\ f.on = e.on /\ f.attempt = e.attempt
            /\ f.at \in {"create", "report"} /\ ~f.ok
        BY <2>2 DEF Exec
      <4> QED BY <3>1, <4>1
    <3> QED BY <2>1, <3>1
  <2>4. ASSUME NEW v \in Worker, NEW u \in Task, Sound(v)', ~(v = e.on /\ u = e.job)
        PROVE  inter'[v, u] = inter[v, u] /\ spills'[v, u] = spills[v, u]
    BY <2>1, <2>2, <2>4, <1>a, <1>u
  <2>5. Sound(e.on)' => spills'[e.on, e.job] = "whole"
    BY <2>1, <2>2, <1>a, <1>b, <1>h
  <2> QED BY <2>2, <2>3, <2>4, <2>5, <1>5
<1>8. ASSUME NEW e \in exec, CreateInter(e) PROVE Working' /\ Done'
  <2> DEFINE f == [e EXCEPT !.at = "merge"]
  <2>1. /\ f.job = e.job /\ f.on = e.on /\ f.attempt = e.attempt /\ f.at = "merge" /\ ~f.ok
        /\ Goes(e, f) /\ UNCHANGED run /\ e.at = "create" /\ e.job \in Task
        /\ inter' = [inter EXCEPT ![<<e.on, e.job>>] = "part"]
        /\ spills' = SpoilSpills(e.on, e.job) /\ Clashes(e.on, e.job)
    BY <1>8, <1>a DEF CreateInter, Exec, ExecOK
  <2> HIDE DEF f
  <2>2. ASSUME NEW v \in Worker, NEW u \in Task, Sound(v)'
        PROVE  /\ ~(v = e.on /\ u = e.job) => inter'[v, u] = inter[v, u]
               /\ spills'[v, u] = spills[v, u]
    BY <2>1, <2>2, <1>a, <1>u
  <2>3. inter'[e.on, e.job] = "part"
    BY <2>1, <1>a, <1>b
  <2>4. Sound(e.on)' => spills'[e.on, e.job] = "whole"
    BY <2>1, <2>2, <1>b, <1>s DEF Working
  <2> QED BY <2>1, <2>2, <2>3, <2>4, <1>5
<1>9. ASSUME NEW e \in exec, CreateFails(e) PROVE Working' /\ Done'
  <2> DEFINE f == [e EXCEPT !.at = "report"]
  <2>1. /\ f.job = e.job /\ f.on = e.on /\ f.attempt = e.attempt /\ f.at = "report" /\ ~f.ok
        /\ Goes(e, f) /\ UNCHANGED <<run, spills>> /\ e.job \in Task
        /\ inter' = inter \/ inter' = [inter EXCEPT ![<<e.on, e.job>>] = "part"]
        /\ Fault(e.on, "disk")
    BY <1>9, <1>a DEF CreateFails, Exec, ExecOK
  <2> HIDE DEF f
  <2>2. ASSUME NEW v \in Worker, NEW u \in Task, ~(v = e.on /\ u = e.job)
        PROVE  inter'[v, u] = inter[v, u]
    BY <2>1, <2>2, <1>a
  <2> QED BY <2>1, <2>2, <1>5
<1>10. ASSUME NEW e \in exec, MergeSpills(e) PROVE Working' /\ Done'
  <2> DEFINE f == [e EXCEPT !.at = "report", !.ok = TRUE]
  <2>1. /\ f.job = e.job /\ f.on = e.on /\ f.attempt = e.attempt /\ f.at = "report"
        /\ Goes(e, f) /\ UNCHANGED run /\ e.at = "merge" /\ e.job \in Task
        /\ spills' = [SpoilSpills(e.on, e.job) EXCEPT ![<<e.on, e.job>>] = "none"]
        /\ Clashes(e.on, e.job)
    BY <1>10, <1>a DEF MergeSpills, Exec, ExecOK
  <2> HIDE DEF f
  <2>2. PICK data \in {"whole", "lacking"} :
           /\ Written(e.on, data)
           /\ inter' = [SpoilInter(e.on, e.job) EXCEPT ![<<e.on, e.job>>] =
                  IF @ = "spoiled" THEN @
                  ELSE IF spills[e.on, e.job] = "whole" THEN data ELSE "lacking"]
    BY <1>10 DEF MergeSpills
  <2>3. /\ SpoilInter(e.on, e.job) \in
              [Worker \X Task -> {"none", "part", "lacking", "spoiled", "whole"}]
        /\ SpoilSpills(e.on, e.job) \in [Worker \X Task -> {"none", "lacking", "whole"}]
    BY <2>1, <1>b, SpoiledTyped DEF TypeInv
  <2>4. ASSUME NEW v \in Worker, NEW u \in Task, Sound(v)', ~(v = e.on /\ u = e.job)
        PROVE  inter'[v, u] = inter[v, u] /\ spills'[v, u] = spills[v, u]
    <3>1. inter'[v, u] = SpoilInter(e.on, e.job)[v, u]
      BY <2>2, <2>3, <2>4
    <3>2. spills'[v, u] = SpoilSpills(e.on, e.job)[v, u]
      BY <2>1, <2>3, <2>4
    <3> QED BY <2>1, <2>4, <3>1, <3>2, <1>u
  <2>5. ASSUME Sound(e.on)' PROVE inter'[e.on, e.job] = "whole"
    <3>1. inter[e.on, e.job] = "part" /\ spills[e.on, e.job] = "whole"
      BY <2>1, <2>5, <1>b, <1>s DEF Working
    <3>2. SpoilInter(e.on, e.job)[e.on, e.job] = "part" /\ data = "whole"
      BY <2>1, <2>2, <2>5, <3>1, <1>b, <1>h, <1>u
    <3>3. <<e.on, e.job>> \in Worker \X Task
      BY <2>1, <1>b
    <3> QED BY <2>2, <2>3, <3>1, <3>2, <3>3
  <2> QED BY <2>1, <2>4, <2>5, <1>5
<1> QED BY <1>1, <1>2, <1>3, <1>4, <1>6, <1>7, <1>8, <1>9, <1>10 DEF Next, Execute

LEMMA JobInvariant == Spec => [](TypeInv /\ OrderInv /\ FilesInv)
BY TypeInvInit, TypeInvNext, OrderInvInit, OrderInvNext, FilesInvInit, FilesInvNext,
   PTL DEF Spec

\* The intermediate data a worker has reported for a map task stays whole
\* unless that very worker had a write that failed, a broken connection or two
\* index files of one name: retries of assignMapTask never leave a second
\* execution behind that could truncate the file.
THEOREM DataIsKept == Spec => []ReportedDataKept
<1>1. TypeInv /\ FilesInv => ReportedDataKept
  BY DEF FilesInv, Done, Sound, ReportedDataKept
<1> QED BY <1>1, JobInvariant, PTL
-----------------------------------------------------------------------------
(* Results.                                                                *)

LEMMA ResultInvInit == Init => ResultInv
<1> SUFFICES ASSUME Init PROVE Gathered /\ Uploaded
  BY DEF ResultInv
<1>1. exec = {} /\ \A j \in Job : run[j].at = "idle"
  BY DEF Init, Job
<1> QED BY <1>1 DEF Gathered, Uploaded, Job

\* What a reduce task passes over it is excused from, and its result goes into
\* the DFS only when no other has.
LEMMA ResultInvNext ==
  TypeInv /\ OrderInv /\ FilesInv /\ ResultInv /\ [Next]_vars => ResultInv'
<1> SUFFICES ASSUME TypeInv, OrderInv, Numbered, Down, Done, Gathered, Uploaded, [Next]_vars
             PROVE  Gathered' /\ Uploaded'
  BY DEF OrderInv, FilesInv, ResultInv
<1>a. /\ run \in [Job -> Run] /\ exec \subseteq Exec
      /\ Task \subseteq Job /\ Reducer \subseteq Job /\ Task \cap Reducer = {}
      /\ RunOK /\ ExecOK /\ Stage /\ dfs \in [Reducer -> (SUBSET Task) \cup {None}]
      /\ TypeInv'
  BY JobAssumption, TypeInvNext DEF TypeInv, TypeOK, Job
<1>b. \A e \in exec : /\ e.job \in Job /\ e.on \in Worker
                      /\ e.left \subseteq Task /\ e.got \subseteq Task
  BY <1>a DEF Exec
<1>n. \A e \in exec' : run'[e.job].at # "idle"
  BY OrderInvNext DEF OrderInv, Numbered
\* Before the map tasks are over no reduce task is assigned.
<1>1. CASE ~Over(Task)
  <2>1. \A r \in Reducer : run[r].at = "idle"
    BY <1>1, <1>a DEF Stage
  <2>2. \A r \in Reducer : run'[r].at = "idle"
    <3>1. CASE Submit \/ StartReduce \/ Complete \/ UNCHANGED vars
      BY <2>1, <3>1, <1>1, <1>a DEF Submit, Begin, StartReduce, Complete, vars
    <3>2. CASE \E w \in Worker : Heartbeat(w) \/ MonitorWorkers(w) \/ WorkerStop(w) \/ WorkerStart(w)
      BY <2>1, <3>2 DEF Heartbeat, MonitorWorkers, WorkerStop, WorkerStart
    <3>3. ASSUME NEW j \in Job, Assign(j) PROVE \A r \in Reducer : run'[r].at = "idle"
      <4>1. run[j].at # "idle" /\ \A i \in Job \ {j} : run'[i] = run[i]
        BY <3>3, <1>a DEF Assign, Select, Skip, DialDeleted, Dial, ConnLost, Retry
      <4> QED BY <2>1, <4>1, <1>a
    <3>4. ASSUME NEW e \in exec, Report(e) PROVE \A r \in Reducer : run'[r].at = "idle"
      <4>1. run' = run \/ (run[e.job].at = "wait" /\ \A i \in Job \ {e.job} : run'[i] = run[i])
        BY <3>4, <1>a DEF Report, Retry
      <4> QED BY <2>1, <4>1, <1>a
    <3>5. CASE \E e \in exec : \/ Fail(e) \/ Spill(e) \/ CreateInter(e) \/ CreateFails(e)
                               \/ MergeSpills(e) \/ Fetch(e) \/ Put(e)
      BY <2>1, <3>5 DEF Fail, Spill, CreateInter, CreateFails, MergeSpills, Fetch, Put
    <3> QED BY <3>1, <3>2, <3>3, <3>4, <3>5 DEF Next, Execute
  <2>3. \A e \in exec' : e.job \notin Reducer
    BY <2>2, <1>n
  <2> QED BY <2>2, <2>3 DEF Gathered, Uploaded
<1>2. CASE Over(Task)
  <2>t. /\ \A t \in Task : run'[t] = run[t]
        /\ Reported' = Reported
    BY <1>2, TasksRest DEF Reported
  <2>g. /\ \A w \in Worker, K \in SUBSET FaultKind : Had(w, K) => Had(w, K)'
        /\ clashed \subseteq clashed'
    BY FaultsGrow DEF Had
  <2>x. ASSUME NEW t \in Reported, NEW w \in Worker, Excused(t, w) PROVE Excused(t, w)'
    <3>1. t \in Task /\ run'[t] = run[t] /\ run[t].on \in Worker
      BY <2>t, <1>a DEF Reported, RunOK
    <3>2. {"disk"} \in SUBSET FaultKind
      BY DEF FaultKind
    <3> QED BY <2>x, <2>g, <3>1, <3>2 DEF Excused
  \* A result stays as it is.
  <2>r. ASSUME NEW r \in Reducer, NEW w \in Worker, Result(r, w), dfs'[r] = dfs[r]
        PROVE  Result(r, w)'
    BY <2>r, <2>t, <2>x DEF Result
  \* An execution gathers no less.
  <2>o. ASSUME NEW e \in exec, e.job \in Reducer, dfs[e.job] # None => dfs'[e.job] = dfs[e.job]
        PROVE  /\ e.at \in {"fetch", "put"} =>
                     /\ e.got \subseteq Reported'
                     /\ \A t \in Reported' \ (e.left \cup e.got) : Excused(t, e.on)'
               /\ e.at = "put" => e.left = {}
               /\ e.ok => Result(e.job, e.on)'
    <3>1. e.on \in Worker
      BY <1>b
    <3>2. e.ok => Result(e.job, e.on)'
      BY <2>o, <3>1, <2>r DEF Gathered, Result
    <3> QED BY <2>o, <2>t, <2>x, <3>1, <3>2 DEF Gathered
  <2>u. ASSUME UNCHANGED dfs, exec' \subseteq exec PROVE Gathered'
    BY <2>u, <2>o DEF Gathered
  <2>d. ASSUME UNCHANGED dfs,
               \A r \in Reducer : run'[r].at = "done" => run'[r] = run[r]
        PROVE  Uploaded'
    <3>1. ASSUME NEW r \in Reducer, run'[r].at = "done"
          PROVE  Result(r, run[r].on)' /\ run'[r] = run[r]
      <4>1. run[r].on \in Worker /\ run'[r] = run[r]
        BY <2>d, <3>1, <1>a DEF RunOK
      <4> QED BY <2>d, <3>1, <4>1, <2>r DEF Uploaded
    <3> QED BY <3>1 DEF Uploaded
  <2>1. CASE \/ Submit \/ StartReduce \/ Complete \/ UNCHANGED vars
             \/ \E w \in Worker : Heartbeat(w) \/ MonitorWorkers(w) \/ WorkerStop(w) \/ WorkerStart(w)
    <3>1. exec' \subseteq exec /\ UNCHANGED dfs
      BY <2>1 DEF Submit, StartReduce, Complete, vars, Heartbeat, MonitorWorkers, WorkerStop,
         WorkerStart
    <3>2. \A r \in Reducer : run'[r].at = "done" => run'[r] = run[r]
      BY <2>1, <1>a DEF Submit, StartReduce, Complete, Begin, vars, Run, Heartbeat,
         MonitorWorkers, WorkerStop, WorkerStart
    <3> QED BY <3>1, <3>2, <2>u, <2>d
  <2>2. ASSUME NEW j \in Job, Assign(j) PROVE Gathered' /\ Uploaded'
    <3>1. UNCHANGED dfs /\ \A e \in exec' : e \in exec \/ (e = Assigned(j) /\ Dial(j))
      BY <2>2 DEF Assign, Select, Skip, DialDeleted, Dial, ConnLost
    <3>2. \A r \in Reducer : run'[r].at = "done" => run'[r] = run[r]
      BY <2>2, <1>a DEF Assign, Select, Skip, DialDeleted, Dial, ConnLost, Retry, Run
    <3>3. Gathered'
      <4>1. ASSUME Dial(j), j \in Reducer
            PROVE  /\ Assigned(j).job = j /\ Assigned(j).at = "fetch" /\ Assigned(j).left = Task
                   /\ Assigned(j).got = {} /\ ~Assigned(j).ok
        BY <4>1, <1>a, AssignedOK DEF Dial
      <4>2. Dial(j) => Assigned(j).job = j
        BY AssignedOK DEF Dial
      <4>3. Reported' \subseteq Task
        BY DEF Reported
      <4> QED BY <3>1, <4>1, <4>2, <4>3, <2>o DEF Gathered
    <3> QED BY <3>1, <3>2, <3>3, <2>d
  <2>3. ASSUME NEW e \in exec, Report(e) PROVE Gathered' /\ Uploaded'
    <3>1. exec' \subseteq exec /\ UNCHANGED dfs
      BY <2>3 DEF Report
    <3>2. ASSUME NEW r \in Reducer, run'[r].at = "done"
          PROVE  Result(r, run[r].on)' /\ run'[r].on = run[r].on
      <4>1. CASE run'[r] = run[r]
        <5>1. run[r].on \in Worker
          BY <3>2, <4>1, <1>a DEF RunOK
        <5> QED BY <3>1, <3>2, <4>1, <5>1, <2>r DEF Uploaded
      <4>2. CASE run'[r] # run[r]
        <5>1. /\ e.ok /\ run[e.job].at = "wait" /\ run[e.job].retry = e.attempt
              /\ r = e.job /\ run'[r].on = run[r].on
          BY <2>3, <3>2, <4>2, <1>a, <1>b DEF Report, Retry, Run
        <5>2. run[r].on = e.on
          BY <5>1 DEF Numbered
        <5>3. Result(r, e.on)
          BY <5>1, <3>2 DEF Gathered
        <5> QED BY <3>1, <5>1, <5>2, <5>3, <1>b, <2>r
      <4> QED BY <4>1, <4>2
    <3>3. Uploaded'
      BY <3>2 DEF Uploaded
    <3> QED BY <3>1, <3>3, <2>u
  \* The execution e becomes f.
  <2>f. ASSUME NEW e \in exec, NEW f, f.job = e.job, f.on = e.on, Goes(e, f),
               UNCHANGED <<run, dfs>>,
               e.job \in Reducer =>
                  /\ f.at \in {"fetch", "put"} =>
                        /\ f.got \subseteq Reported
                        /\ \A t \in Reported \ (f.left \cup f.got) : Excused(t, e.on)'
                  /\ f.at = "put" => f.left = {}
                  /\ ~f.ok
        PROVE  Gathered' /\ Uploaded'
    <3>1. \A g \in exec' : g = f \/ g \in exec
      BY <2>f DEF Goes
    <3>2. Gathered'
      BY <2>f, <3>1, <2>o, <2>t DEF Gathered
    <3> QED BY <2>f, <3>2, <2>d
  <2>4. ASSUME NEW e \in exec, \/ Fail(e) \/ Spill(e) \/ CreateInter(e) \/ CreateFails(e)
                               \/ MergeSpills(e)
        PROVE  Gathered' /\ Uploaded'
    <3>1. UNCHANGED <<run, dfs>>
      BY <2>4 DEF Fail, Spill, CreateInter, CreateFails, MergeSpills
    <3>2. PICK f : /\ f.job = e.job /\ f.on = e.on /\ Goes(e, f)
                   /\ e.job \in Reducer => f.at = "report" /\ ~f.ok
      <4>1. CASE Fail(e)
        <5> DEFINE f == [e EXCEPT !.at = "report", !.left = {}, !.got = {}]
        <5>1. f.job = e.job /\ f.on = e.on /\ f.at = "report" /\ ~f.ok
          BY <4>1, <1>a DEF Exec, Fail, ExecOK
        <5>2. Goes(e, f)
          BY <4>1 DEF Fail
        <5> QED BY <5>1, <5>2
      <4>2. CASE ~Fail(e)
        <5>1. e.job \notin Reducer
          BY <2>4, <4>2, <1>a DEF Spill, CreateInter, CreateFails, MergeSpills, ExecOK
        <5> QED BY <2>4, <5>1, Advances
      <4> QED BY <4>1, <4>2
    <3> QED BY <3>1, <3>2, <2>f
  <2>h. ASSUME NEW w \in Worker, NEW kind \in FaultKind, Fault(w, kind)
        PROVE  Had(w, {kind})' /\ Had(w, FaultKind)'
    BY <2>h DEF Fault, Had
  <2>5. ASSUME NEW e \in exec, Fetch(e) PROVE Gathered' /\ Uploaded'
    <3>1. PICK t \in e.left, got \in SUBSET Task :
             /\ \/ got = e.got \cup {t} /\ Fetchable(t, e.on)
                \/ got = e.got /\ ~Fetchable(t, e.on)
                \/ /\ got = e.got /\ Source(t, e.on) # e.on
                   /\ Fault(Source(t, e.on), "cut")
                \/ /\ got = e.got
                   /\ \E w \in {e.on, Source(t, e.on)} : Fault(w, "disk")
             /\ Goes(e, [e EXCEPT !.left = @ \ {t}, !.got = got,
                                  !.at = IF e.left = {t} THEN "put" ELSE @])
      BY <2>5 DEF Fetch
    <3> DEFINE f == [e EXCEPT !.left = @ \ {t}, !.got = got,
                              !.at = IF e.left = {t} THEN "put" ELSE @]
    <3>2. /\ f.job = e.job /\ f.on = e.on /\ ~f.ok /\ e.job \in Reducer /\ e.at = "fetch"
          /\ f.left = e.left \ {t} /\ f.got = got /\ (f.at = "put" => e.left = {t})
          /\ UNCHANGED <<run, dfs>>
      BY <2>5, <1>a DEF Fetch, Exec, ExecOK
    <3>3. Goes(e, f)
      BY <3>1
    <3> HIDE DEF f
    <3>4. t \in Task /\ e.on \in Worker
      BY <1>b
    <3>5. got \subseteq Reported
      BY <3>1, <3>2, <3>4 DEF Gathered, Fetchable, Reported
    <3>6. ASSUME t \in Reported, t \notin got PROVE Excused(t, e.on)'
      <4>1. run[t].at = "done" /\ run[t].on \in Worker /\ run'[t] = run[t]
        BY <3>4, <3>6, <2>t, <1>a DEF Reported, RunOK
      <4>k. {"disk"} \in SUBSET FaultKind /\ {"stop", "cut", "disk"} = FaultKind
        BY DEF FaultKind
      <4>2. CASE Source(t, e.on) # run[t].on
        <5>1. run[t].on # e.on /\ run[t].on \in Local[e.on]
          BY <4>2 DEF Source
        <5> QED BY <4>1, <5>1 DEF Excused
      <4>3. CASE Source(t, e.on) = run[t].on /\ ~Fetchable(t, e.on)
        <5>1. CASE run[t].on \notin up
          <6>1. Had(run[t].on, FaultKind)
            BY <4>1, <4>k, <5>1 DEF Down, Had
          <6> QED BY <4>1, <6>1, <2>g DEF Excused
        <5>2. CASE inter[run[t].on, t] # "whole"
          <6>1. Had(run[t].on, {"cut", "disk"}) \/ run[t].on \in clashed
            BY <3>4, <4>1, <5>2 DEF Done, Sound
          <6>2. Excused(t, e.on)
            BY <6>1, <4>k DEF Excused, Had
          <6> QED BY <3>4, <3>6, <6>2, <2>x
        <5> QED BY <4>1, <4>3, <5>1, <5>2 DEF Fetchable
      <4>4. ASSUME Source(t, e.on) = run[t].on, NEW kind \in FaultKind, Fault(run[t].on, kind)
            PROVE  Excused(t, e.on)'
        BY <4>1, <4>4, <2>h DEF Excused
      <4>5. ASSUME Fault(e.on, "disk") PROVE Excused(t, e.on)'
        <5>1. Had(e.on, {"disk"})'
          BY <4>5, <4>k, <3>4, <2>h
        <5> QED BY <5>1 DEF Excused
      <4> QED BY <3>1, <3>6, <4>2, <4>3, <4>4, <4>5, <4>k
    <3>7. \A u \in Reported \ (f.left \cup f.got) : Excused(u, e.on)'
      <4>1. ASSUME NEW u \in Reported, u \notin e.left, u \notin got PROVE Excused(u, e.on)'
        <5>1. u \notin e.got
          BY <4>1, <3>1
        <5>2. Excused(u, e.on)
          BY <3>2, <4>1, <5>1 DEF Gathered
        <5> QED BY <3>4, <5>2, <2>x
      <4> QED BY <3>2, <3>6, <4>1
    <3> QED BY <3>2, <3>3, <3>5, <3>7, <2>f
  <2>6. ASSUME NEW e \in exec, Put(e) PROVE Gathered' /\ Uploaded'
    <3> DEFINE f == [e EXCEPT !.at = "report", !.ok = dfs[e.job] = None, !.got = {}]
    <3>1. PICK got \in SUBSET e.got :
             /\ got = e.got \/ Fault(e.on, "disk")
             /\ dfs' = [dfs EXCEPT ![e.job] = IF @ = None THEN got ELSE @]
      BY <2>6 DEF Put
    <3>2. /\ e \in Exec /\ e.at = "put" /\ ~e.ok /\ e.job \in Reducer /\ e.on \in Worker
          /\ UNCHANGED run /\ Goes(e, f)
      BY <2>6, <1>a, <1>b DEF Put, ExecOK
    <3>3. f.job = e.job /\ f.on = e.on /\ f.at = "report" /\ f.ok = (dfs[e.job] = None)
      BY <3>2 DEF Exec
    <3> HIDE DEF f
    <3>4. \A r \in Reducer : dfs[r] # None => dfs'[r] = dfs[r]
      BY <3>1, <1>a
    <3>5. ASSUME dfs[e.job] = None PROVE Result(e.job, e.on)'
      <4>1. dfs'[e.job] = got /\ got \subseteq Task
        BY <3>1, <3>2, <3>5, <1>a, <1>b
      <4>2. e.got \subseteq Reported /\ \A t \in Reported \ e.got : Excused(t, e.on)
        BY <3>2 DEF Gathered
      <4>3. \A t \in Reported \ got : Excused(t, e.on)'
        <5>1. CASE got = e.got
          BY <4>2, <5>1, <3>2, <2>x
        <5>2. CASE Fault(e.on, "disk")
          <6>1. Had(e.on, {"disk"})'
            BY <5>2, <3>2, <2>h DEF FaultKind
          <6> QED BY <6>1 DEF Excused
        <5> QED BY <3>1, <5>1, <5>2
      <4>4. dfs'[e.job] # None
        BY <3>2, <4>1, <1>a, JobAssumption
      <4> QED BY <4>1, <4>2, <4>3, <4>4, <2>t DEF Result
    <3>6. Gathered'
      <4>1. \A g \in exec' : g = f \/ g \in exec
        BY <3>2 DEF Goes
      <4>2. \A g \in exec : g.job \in Reducer /\ dfs[g.job] # None => dfs'[g.job] = dfs[g.job]
        BY <3>4
      <4> QED BY <3>3, <3>5, <4>1, <4>2, <2>o DEF Gathered
    <3>7. Uploaded'
      <4>1. ASSUME NEW r \in Reducer, run[r].at = "done" PROVE Result(r, run[r].on)'
        <5>1. Result(r, run[r].on) /\ run[r].on \in Worker
          BY <4>1, <1>a DEF Uploaded, RunOK
        <5>2. dfs'[r] = dfs[r]
          BY <3>4, <5>1 DEF Result
        <5>3. run'[r].on = run[r].on
          BY <3>2
        <5> QED BY <5>1, <5>2, <5>3, <2>r
      <4> QED BY <3>2, <4>1 DEF Uploaded
    <3> QED BY <3>6, <3>7
  <2> QED BY <2>1, <2>2, <2>3, <2>4, <2>5, <2>6 DEF Next, Execute
<1> QED BY <1>1, <1>2

\* What a reported result lacks is data that a fault of the worker that has
\* it, or a failed write of the reducer's, keeps from it.
THEOREM ResultsAreWhole == Spec => []ResultsWhole
<1>1. Spec => [](TypeInv /\ OrderInv /\ FilesInv /\ ResultInv)
  BY TypeInvInit, TypeInvNext, OrderInvInit, OrderInvNext, FilesInvInit, FilesInvNext,
     ResultInvInit, ResultInvNext, PTL DEF Spec
<1>2. ResultInv => ResultsWhole
  BY DEF ResultInv, Uploaded, Result, Reported, ResultsWhole
<1> QED BY <1>1, <1>2, PTL
-----------------------------------------------------------------------------
(* Neither stops nor broken connections.                                   *)

LEMMA LostInvInit == Init => LostInv
<1> SUFFICES ASSUME Init PROVE Known /\ Unique
  BY DEF LostInv
<1>1. exec = {} /\ \A j \in Job : run[j].at = "idle"
  BY DEF Init, Job
<1>2. \A r \in Reducer : dfs[r] = None
  BY DEF Init
<1> QED BY <1>1, <1>2 DEF Init, Known, Unique, Job

\* With all workers up and all connections there, the master knows all workers
\* it has ever known, and only the goroutine that waits for a reduce task can
\* find its result in the DFS.
LEMMA LostInvNext == TypeInv /\ OrderInv /\ LostInv /\ [Next]_vars => LostInv'
<1> SUFFICES ASSUME TypeInv, Numbered, Attended, Known, Unique, [Next]_vars, NoneLost, NoneLost'
             PROVE  Known' /\ Unique'
  <2>1. ASSUME [Next]_vars, NoneLost' PROVE NoneLost
    <3>1. faults \subseteq faults'
      BY <2>1, FaultsGrow
    <3> QED BY <2>1, <3>1 DEF NoneLost, Had
  <2> QED BY <2>1 DEF LostInv, OrderInv
<1>a. /\ run \in [Job -> Run] /\ exec \subseteq Exec /\ workers \subseteq Worker
      /\ Task \subseteq Job /\ Reducer \subseteq Job /\ Task \cap Reducer = {}
      /\ RunOK /\ ExecOK /\ Stage /\ dfs \in [Reducer -> (SUBSET Task) \cup {None}]
  BY JobAssumption DEF TypeInv, TypeOK, Job
<1>b. \A e \in exec : e.job \in Job /\ e.on \in Worker /\ e.attempt < Limit
  BY <1>a, JobAssumption DEF Exec
<1>c. up = Worker /\ phase # "panic"
  BY DEF Known
<1>k. ASSUME NEW w \in Worker, NEW kind \in {"stop", "cut"}, Fault(w, kind) PROVE FALSE
  BY <1>k DEF Fault, NoneLost, Had
<1>w. \A e \in exec : /\ run[e.job].at = "wait" /\ run[e.job].retry = e.attempt
                      /\ run[e.job].on = e.on
                      /\ \A f \in exec : f.job = e.job => f = e
  <2>1. \A e \in exec : e.attempt = run[e.job].retry
    BY <1>b DEF Attended, NoneLost, Had
  <2> QED BY <2>1 DEF Numbered
\* What a goroutine that is not at the end of its wait does.
<1>d. ASSUME NEW j \in Job, run' \in [Job -> Run], \A i \in Job \ {j} : run'[i] = run[i],
             run'[j].at \in {"dial", "wait"} => run'[j].on \in workers,
             j \in Reducer => dfs[j] = None,
             UNCHANGED <<up, workers, phase, exec, dfs>>
      PROVE  Known' /\ Unique'
  <2>1. Known'
    BY <1>d DEF Known
  <2>2. Unique'
    BY <1>d, <1>a DEF Unique
  <2> QED BY <2>1, <2>2
\* A reduce task without an execution has no result, unless it is done.
<1>e. ASSUME NEW r \in Reducer, run[r].at # "done", \A e \in exec : e.job # r
      PROVE  dfs[r] = None
  BY <1>e DEF Unique
<1>f. ASSUME NEW j \in Job, run[j].at # "wait" PROVE \A e \in exec : e.job # j
  BY <1>f, <1>w
<1>1. ASSUME NEW w \in Worker, Heartbeat(w) PROVE Known' /\ Unique'
  BY <1>1 DEF Heartbeat, Known, Unique
<1>2. ASSUME NEW w \in Worker, MonitorWorkers(w) PROVE FALSE
  BY <1>2, <1>c, <1>k DEF MonitorWorkers
<1>3. ASSUME NEW w \in Worker, WorkerStop(w) PROVE FALSE
  BY <1>3, <1>k DEF WorkerStop
<1>4. ASSUME NEW w \in Worker, WorkerStart(w) PROVE FALSE
  BY <1>4, <1>c DEF WorkerStart
<1>5. CASE Submit
  <2>1. /\ \A j \in Job : run[j].at = "idle"
        /\ exec = {} /\ \A r \in Reducer : dfs[r] = None
    BY <1>5, <1>a, <1>b, <1>e, <1>w DEF Submit, Stage
  <2>2. \A j \in Job : run'[j].at \in {"idle", "choose"}
    BY <1>5, <2>1, <1>a DEF Submit, Begin, Run
  <2> QED BY <1>5, <2>1, <2>2, <1>a DEF Submit, Known, Unique
<1>6. CASE StartReduce
  <2>1. /\ \A r \in Reducer : run[r].at = "idle"
        /\ \A t \in Task : run[t].at \in {"done", "skipped"}
    BY <1>6, <1>a DEF StartReduce, Stage, Over
  <2>2. exec = {} /\ \A r \in Reducer : dfs[r] = None
    BY <2>1, <1>a, <1>b, <1>e, <1>w DEF Job
  <2>3. /\ \A t \in Task : run'[t] = run[t]
        /\ \A r \in Reducer : run'[r].at = "choose"
    BY <1>6, <1>a DEF StartReduce, Begin, Run
  <2>4. \A j \in Job : run'[j].at \notin {"dial", "wait"}
    BY <2>1, <2>3 DEF Job
  <2> QED BY <1>6, <2>2, <2>4 DEF StartReduce, Known, Unique
<1>7. CASE Complete
  BY <1>7 DEF Complete, Known, Unique
<1>8. ASSUME NEW j \in Job, run[j].at # "done", run[j].retry < Limit,
             \A e \in exec : e.job # j,
             run' = Retry(j), UNCHANGED <<up, workers, phase, exec, dfs>>
      PROVE  Known' /\ Unique'
  <2>1. run' \in [Job -> Run] /\ run'[j].at = "choose" /\ \A i \in Job \ {j} : run'[i] = run[i]
    BY <1>8, <1>a, RetryOK
  <2>2. j \in Reducer => dfs[j] = None
    BY <1>8, <1>e
  <2> QED BY <1>8, <2>1, <2>2, <1>d
<1>9. ASSUME NEW j \in Job, Select(j) PROVE Known' /\ Unique'
  <2>1. /\ run[j].at = "choose" /\ run[j].retry < Limit
        /\ UNCHANGED <<up, workers, phase, exec, dfs>>
    BY <1>9 DEF Select
  <2>2. (\A e \in exec : e.job # j) /\ (j \in Reducer => dfs[j] = None)
    BY <2>1, <1>e, <1>f
  <2>3. CASE run' = Retry(j)
    BY <2>1, <2>2, <2>3, <1>8
  <2>4. CASE \E w \in workers : run' = [run EXCEPT ![j].at = "dial", ![j].on = w]
    <3>1. PICK w \in workers : run' = [run EXCEPT ![j].at = "dial", ![j].on = w]
      BY <2>4
    <3>2. w \in Worker
      BY <1>a
    <3>3. /\ run' \in [Job -> Run] /\ run'[j].at = "dial" /\ run'[j].on = w
          /\ \A i \in Job \ {j} : run'[i] = run[i]
      BY <3>1, <3>2, <1>a DEF Run
    <3> QED BY <2>1, <2>2, <3>3, <1>d
  <2> QED BY <1>9, <2>3, <2>4, SelectableRoom DEF Select
<1>10. ASSUME NEW j \in Job, Skip(j) PROVE Known' /\ Unique'
  <2>1. /\ run' \in [Job -> Run] /\ run'[j].at = "skipped"
        /\ \A i \in Job \ {j} : run'[i] = run[i]
        /\ run[j].at = "choose" /\ UNCHANGED <<up, workers, phase, exec, dfs>>
    BY <1>10, <1>a DEF Skip, Run
  <2>2. j \in Reducer => dfs[j] = None
    BY <2>1, <1>e, <1>f
  <2> QED BY <2>1, <2>2, <1>d
<1>11. ASSUME NEW j \in Job, DialDeleted(j) PROVE FALSE
  BY <1>11 DEF DialDeleted, Known
<1>12. ASSUME NEW j \in Job, Dial(j) PROVE Known' /\ Unique'
  <2>1. /\ run[j].at = "dial" /\ run[j].on \in workers /\ run[j].on \in Worker
        /\ UNCHANGED <<up, workers, phase, dfs>>
    BY <1>12, <1>a DEF Dial
  <2>2. run' = [run EXCEPT ![j].at = "wait"] /\ exec' = exec \cup {Assigned(j)}
    BY <1>12, <2>1, <1>c, <1>k DEF Dial
  <2>3. (\A e \in exec : e.job # j) /\ (j \in Reducer => dfs[j] = None)
    BY <2>1, <1>e, <1>f
  <2>4. /\ run'[j].at = "wait" /\ run'[j].on = run[j].on
        /\ \A i \in Job \ {j} : run'[i] = run[i]
    BY <2>2, <1>a DEF Run
  <2>5. Known'
    BY <2>1, <2>4 DEF Known
  <2>6. Unique'
    BY <2>1, <2>2, <2>3, <2>4, <1>a DEF Unique
  <2> QED BY <2>5, <2>6
<1>13. ASSUME NEW j \in Job, ConnLost(j) PROVE Known' /\ Unique'
  <2>1. /\ run[j].at = "wait" /\ run[j].retry < Limit /\ run[j].on \in Worker
        /\ run' = Retry(j) /\ UNCHANGED <<up, workers, phase, exec, dfs>>
    BY <1>13, <1>a DEF ConnLost, RunOK
  <2>2. Awaited(j) = {}
    BY <1>13, <2>1, <1>k DEF ConnLost
  <2>3. \A e \in exec : e.job # j
    BY <2>2, <1>w DEF Awaited
  <2> QED BY <2>1, <2>3, <1>8
<1>14. ASSUME NEW e \in exec, Report(e) PROVE Known' /\ Unique'
  <2>1. /\ e.job \in Job /\ run[e.job].at = "wait" /\ run[e.job].retry = e.attempt
        /\ run[e.job].retry < Limit /\ e.at = "report"
        /\ exec' = exec \ {e} /\ UNCHANGED <<up, workers, phase, dfs>>
    BY <1>14, <1>a, <1>b, <1>w DEF RunOK, Report
  <2>2. run' = IF e.ok THEN [run EXCEPT ![e.job].at = "done"] ELSE Retry(e.job)
    BY <1>14, <1>c, <2>1 DEF Report, Alive
  <2>3. /\ run'[e.job].at = IF e.ok THEN "done" ELSE "choose"
        /\ \A i \in Job \ {e.job} : run'[i] = run[i]
    BY <2>1, <2>2, <1>a, RetryOK DEF Run
  <2>4. Known'
    BY <2>1, <2>3 DEF Known
  <2>5. Unique'
    <3> SUFFICES ASSUME NEW r \in Reducer, dfs[r] # None
                 PROVE  \/ run'[r].at = "done"
                        \/ \E f \in exec' : f.job = r /\ f.at = "report" /\ f.ok
      BY <2>1 DEF Unique
    <3>1. CASE r = e.job
      <4>1. e.ok
        BY <3>1, <2>1, <1>w DEF Unique
      <4> QED BY <3>1, <4>1, <2>3
    <3>2. CASE r # e.job
      BY <3>2, <2>1, <2>3, <1>a DEF Unique
    <3> QED BY <3>1, <3>2
  <2> QED BY <2>4, <2>5
\* The execution e becomes f.
<1>15. ASSUME NEW e \in exec, NEW f, Goes(e, f), f.job = e.job, ~e.ok,
              UNCHANGED <<up, workers, phase, run, dfs>>
       PROVE  Known' /\ Unique'
  <2>1. Known'
    BY <1>15 DEF Known
  <2>2. Unique'
    BY <1>15 DEF Goes, Unique
  <2> QED BY <2>1, <2>2
<1>16. ASSUME NEW e \in exec, \/ Fail(e) \/ Spill(e) \/ CreateInter(e) \/ CreateFails(e)
                              \/ MergeSpills(e) \/ Fetch(e)
       PROVE  Known' /\ Unique'
  <2>1. ~e.ok /\ UNCHANGED <<up, workers, phase, run, dfs>>
    BY <1>16, <1>a DEF Fail, Spill, CreateInter, CreateFails, MergeSpills, Fetch, ExecOK
  <2>2. PICK f : f.job = e.job /\ Goes(e, f)
    BY <1>16, Advances
  <2> QED BY <1>15, <2>1, <2>2
<1>21. ASSUME NEW e \in exec, Put(e) PROVE Known' /\ Unique'
  <2> DEFINE f == [e EXCEPT !.at = "report", !.ok = dfs[e.job] = None, !.got = {}]
  <2>1. /\ e \in Exec /\ e.at = "put" /\ ~e.ok /\ e.job \in Reducer
        /\ UNCHANGED <<up, workers, phase, run>> /\ Goes(e, f)
        /\ \A r \in Reducer \ {e.job} : dfs'[r] = dfs[r]
    BY <1>21, <1>a DEF Put, ExecOK
  <2>2. dfs[e.job] = None
    BY <2>1, <1>w DEF Unique
  <2>3. f.job = e.job /\ f.at = "report" /\ f.ok
    BY <2>1, <2>2 DEF Exec
  <2> HIDE DEF f
  <2>4. Known'
    BY <2>1 DEF Known
  <2>5. Unique'
    <3> SUFFICES ASSUME NEW r \in Reducer, dfs'[r] # None
                 PROVE  \/ run[r].at = "done"
                        \/ \E g \in exec' : g.job = r /\ g.at = "report" /\ g.ok
      BY <2>1 DEF Unique
    <3>1. CASE r = e.job
      BY <3>1, <2>1, <2>3 DEF Goes
    <3>2. CASE r # e.job
      BY <3>2, <2>1 DEF Goes, Unique
    <3> QED BY <3>1, <3>2
  <2> QED BY <2>4, <2>5
<1>22. CASE UNCHANGED vars
  BY <1>22 DEF vars, Known, Unique
<1> QED
  BY <1>1, <1>2, <1>3, <1>4, <1>5, <1>6, <1>7, <1>9, <1>10, <1>11, <1>12, <1>13, <1>14,
     <1>16, <1>21, <1>22
     DEF Next, Assign, Execute

\* While no worker stops and no connection breaks, the master does not look up
\* a worker it has deleted, and no reduce task is assigned again once its
\* result is in the DFS.
THEOREM RetriesNeedFaults == Spec => []RetriesAreSafe
<1>1. Spec => [](TypeInv /\ OrderInv /\ LostInv)
  BY TypeInvInit, TypeInvNext, OrderInvInit, OrderInvNext, LostInvInit, LostInvNext, PTL DEF Spec
<1>2. ASSUME TypeInv, OrderInv, LostInv PROVE RetriesAreSafe
  <2> SUFFICES ASSUME NoneLost
               PROVE  /\ phase # "panic"
                      /\ \A r \in Reducer : dfs[r] # None =>
                            run[r].at = "done" \/ \E e \in Awaited(r) : e.at = "report" /\ e.ok
    BY DEF RetriesAreSafe, NoneLost
  <2>1. Attended /\ Known /\ Unique /\ exec \subseteq Exec
    BY <1>2 DEF OrderInv, LostInv, TypeInv, TypeOK
  <2>2. \A e \in exec : e.attempt = run[e.job].retry
    BY <2>1 DEF Attended, NoneLost, Had, Exec
  <2> QED BY <2>1, <2>2 DEF Known, Unique, Awaited
<1> QED BY <1>1, <1>2, PTL
=============================================================================

----------------------------- MODULE Membership -----------------------------
(***************************************************************************)
(* Which storage nodes the controller believes in, and what it does to the *)
(* location list of a chunk when it stops believing in one:                *)
(* registration and heartbeats (dfs/server/server.go, startHeartbeats and  *)
(* registerWithController; registerNode, updateHeartbeat and               *)
(* monitorHeartbeats in dfs/controller/controller.go) and the eviction     *)
(* part of processReplication, with nodes and the controller stopping and  *)
(* starting.  One chunk of a committed file stands for all of them.        *)
(***************************************************************************)
CONSTANTS
    Node,           \* storage nodes; a node's id and address are fixed
    PromptBeats     \* a running node's heartbeats arrive within 15 seconds

ASSUME PromptAssumption == PromptBeats \in BOOLEAN

VARIABLES
    ctl,       \* the controller is running
    up,        \* storage nodes that are running
    session,   \* what a node's main or heartbeat goroutine is doing
    nodes,     \* c.nodes: registered nodes
    silent,    \* registered nodes not heard of for more than 15 seconds
    listed,    \* the chunk's nodes in the committed (logged) metadata
    maint,     \* what runMaintenance does
    snapshot,  \* activeAddresses of a processReplication under way
    fresh      \* history: nodes up that have started since runMaintenance last
               \* went to sleep

maintVars == <<maint, snapshot, fresh>>
vars == <<ctl, up, session, nodes, silent, listed, maintVars>>

TypeOK ==
    /\ ctl \in BOOLEAN
    /\ up \subseteq Node
    /\ session \in [Node -> {"register", "beat"}]
    /\ nodes \subseteq Node
    /\ silent \subseteq nodes
    /\ listed \subseteq Node
    /\ maint \in {"sleep", "awake", "evict"}
    /\ snapshot \subseteq Node /\ fresh \subseteq up

\* The cluster comes up with copies of the chunk on some nodes.
Init ==
    /\ ctl = TRUE
    /\ up = Node
    /\ session = [n \in Node |-> "register"]
    /\ nodes = {}
    /\ silent = {}
    /\ listed \in SUBSET Node
    /\ maint = "sleep" /\ snapshot = {} /\ fresh = {}
-----------------------------------------------------------------------------
\* registerNode replaces the entry, with a fresh lastHeartbeat.
Register(n) ==
    /\ ctl /\ n \in up /\ session[n] = "register"
    /\ nodes' = nodes \cup {n}
    /\ silent' = silent \ {n}
    /\ session' = [session EXCEPT ![n] = "beat"]
    /\ UNCHANGED <<ctl, up, listed, maintVars>>

\* Mutant: a heartbeat from an unknown node is acknowledged.
HeartbeatAlwaysAcked(n) ==
    /\ ctl /\ n \in up /\ session[n] = "beat"
    /\ silent' = silent \ {n}
    /\ UNCHANGED <<ctl, up, session, nodes, listed, maintVars>>

\* updateHeartbeat: a known node is refreshed, an unknown one is told to
\* register again, which the node does at once.
Heartbeat(n) ==
    /\ ctl /\ n \in up /\ session[n] = "beat"
    /\ silent' = silent \ {n}
    /\ session' = [session EXCEPT ![n] = IF n \in nodes THEN "beat" ELSE "register"]
    /\ UNCHANGED <<ctl, up, nodes, listed, maintVars>>

\* 15 seconds pass since the last heartbeat of a registered node.
Silence(n) ==
    /\ ctl /\ n \in nodes \ silent
    /\ PromptBeats => n \notin up
    /\ silent' = silent \cup {n}
    /\ UNCHANGED <<ctl, up, session, nodes, listed, maintVars>>

\* Mutant: dead nodes are logged and kept.
MonitorKeepsDead ==
    /\ ctl /\ silent # {}
    /\ silent' = {}
    /\ UNCHANGED <<ctl, up, session, nodes, listed, maintVars>>

\* Mutant: the node is removed, the record of its silence is not.
MonitorKeepsSilence ==
    /\ ctl /\ silent # {}
    /\ nodes' = nodes \ silent
    /\ UNCHANGED <<ctl, up, session, silent, listed, maintVars>>

\* One turn of monitorHeartbeats.
MonitorHeartbeats ==
    /\ ctl /\ silent # {}
    /\ nodes' = nodes \ silent
    /\ silent' = {}
    /\ UNCHANGED <<ctl, up, session, listed, maintVars>>

\* runMaintenance has slept for 30 seconds.  If heartbeats are prompt, that is
\* enough for every node that was up all the time to have been heard of, or to
\* have been rejected and to have registered again.
MaintWake ==
    /\ ctl /\ maint = "sleep"
    /\ PromptBeats => up \ fresh \subseteq nodes \ silent
    /\ maint' = "awake"
    /\ UNCHANGED <<ctl, up, session, nodes, silent, listed, snapshot, fresh>>

\* The loop goes on with its sleep.
Sleep == maint' = "sleep" /\ snapshot' = {} /\ fresh' = {}

\* Mutant: processReplication first, then the sleep.
MaintSnapshotFirst ==
    /\ ctl /\ maint \in {"sleep", "awake"}
    /\ IF nodes = {} THEN Sleep
       ELSE maint' = "evict" /\ snapshot' = nodes /\ UNCHANGED fresh
    /\ UNCHANGED <<ctl, up, session, nodes, silent, listed>>

\* processReplication, under nodesMutex: the active addresses; if there are
\* none it returns.
MaintSnapshot ==
    /\ ctl /\ maint = "awake"
    /\ IF nodes = {} THEN Sleep
       ELSE maint' = "evict" /\ snapshot' = nodes /\ UNCHANGED fresh
    /\ UNCHANGED <<ctl, up, session, nodes, silent, listed>>

\* processReplication, later and under filesMutex: nodes outside the snapshot
\* are removed for good; the file's metadata is logged.
MaintEvict ==
    /\ ctl /\ maint = "evict"
    /\ listed' = listed \cap snapshot
    /\ Sleep
    /\ UNCHANGED <<ctl, up, session, nodes, silent>>

\* A running node stores a replica sent by another one and reports it.
ReplicaStored(n) ==
    /\ ctl /\ n \in up
    /\ (listed \cap up) \ {n} # {}
    /\ listed' = listed \cup {n}
    /\ UNCHANGED <<ctl, up, session, nodes, silent, maintVars>>
-----------------------------------------------------------------------------
NodeStop(n) ==
    /\ n \in up
    /\ up' = up \ {n}
    /\ fresh' = fresh \ {n}
    /\ UNCHANGED <<ctl, session, nodes, silent, listed, maint, snapshot>>

\* main registers before it starts the heartbeat goroutine.
NodeStart(n) ==
    /\ n \notin up
    /\ up' = up \cup {n}
    /\ session' = [session EXCEPT ![n] = "register"]
    /\ fresh' = fresh \cup {n}
    /\ UNCHANGED <<ctl, nodes, silent, listed, maint, snapshot>>

ControllerStop ==
    /\ ctl
    /\ ctl' = FALSE
    /\ nodes' = {}
    /\ silent' = {}
    /\ Sleep
    /\ UNCHANGED <<up, session, listed>>

\* runMaintenance starts, with its sleep.
ControllerStart ==
    /\ ~ctl
    /\ ctl' = TRUE
    /\ Sleep
    /\ UNCHANGED <<up, session, nodes, silent, listed>>

Next ==
    \/ \E n \in Node : Register(n)
    \/ \E n \in Node : Heartbeat(n)
    \/ \E n \in Node : Silence(n)
    \/ MonitorHeartbeats
    \/ MaintWake
    \/ MaintSnapshot
    \/ MaintEvict
    \/ \E n \in Node : ReplicaStored(n)
    \/ \E n \in Node : NodeStop(n)
    \/ \E n \in Node : NodeStart(n)
    \/ ControllerStop
    \/ ControllerStart

\* The goroutines of a running process go on; time passes for a node that is
\* down.  Nothing obliges nodes or the controller to stop or to start.
Fairness ==
    /\ \A n \in Node : WF_vars(Register(n)) /\ WF_vars(Heartbeat(n))
    /\ \A n \in Node : WF_vars(n \notin up /\ Silence(n))
    /\ WF_vars(MonitorHeartbeats)
    /\ WF_vars(MaintWake)
    /\ WF_vars(MaintSnapshot)
    /\ WF_vars(MaintEvict)

Spec == Init /\ [][Next]_vars

FairSpec == Spec /\ Fairness
-----------------------------------------------------------------------------
\* A node that keeps running is registered again and again with a controller
\* that keeps running, although it forgets the node when it restarts or when
\* heartbeats are late: the rejected heartbeat makes the node register.
RunningNodeRejoins ==
    \A n \in Node : <>[](ctl /\ n \in up) => []<>(n \in nodes)

\* A node that stays down is taken off the chunk's list for good, provided
\* some other node stays registered (with none registered, processReplication
\* returns early): registration, monitoring and the snapshot maintenance works
\* from never leave it listed.
DeadNodeEvicted ==
    \A n, o \in Node :
        <>[](ctl /\ n \notin up /\ o \in nodes) => <>[](n \notin listed)

\* Maintenance works from a table of nodes that is empty after a restart of
\* the controller, and from a snapshot of it that is old when it is used.  If
\* heartbeats are prompt, its 30 seconds of sleep are enough: a node that has
\* been running since the sleep began is never taken off the chunk's list.
NotEvictedWhileRunning ==
    [][PromptBeats => \A n \in (listed \cap up) \ fresh : n \in listed']_vars
=============================================================================

------------------------- MODULE Membership_proofs --------------------------
(***************************************************************************)
(* Proofs about Membership, for every set of nodes and whether or not      *)
(* heartbeats are prompt.                                                  *)
(***************************************************************************)
EXTENDS Membership, TLAPS

\* The controller knows and suspects registered nodes only, through every
\* order of registrations, late heartbeats, evictions and restarts: a node
\* that monitorHeartbeats has removed is not still on record as silent.
THEOREM MembershipTyping == Spec => []TypeOK
<1>1. Init => TypeOK
  BY DEF Init, TypeOK
<1>2. TypeOK /\ [Next]_vars => TypeOK'
  <2> SUFFICES ASSUME TypeOK, [Next]_vars PROVE TypeOK'
    OBVIOUS
  <2>1. ASSUME NEW n \in Node, Register(n) PROVE TypeOK'
    BY <2>1 DEF TypeOK, Register, maintVars
  <2>2. ASSUME NEW n \in Node, Heartbeat(n) PROVE TypeOK'
    BY <2>2 DEF TypeOK, Heartbeat, maintVars
  <2>3. ASSUME NEW n \in Node, Silence(n) PROVE TypeOK'
    BY <2>3 DEF TypeOK, Silence, maintVars
  <2>4. CASE MonitorHeartbeats
    BY <2>4 DEF TypeOK, MonitorHeartbeats, maintVars
  <2>5. CASE MaintWake \/ MaintSnapshot \/ MaintEvict
    BY <2>5 DEF TypeOK, MaintWake, MaintSnapshot, MaintEvict, Sleep
  <2>6. ASSUME NEW n \in Node, ReplicaStored(n) PROVE TypeOK'
    BY <2>6 DEF TypeOK, ReplicaStored, maintVars
  <2>7. ASSUME NEW n \in Node, NodeStop(n) \/ NodeStart(n) PROVE TypeOK'
    BY <2>7 DEF TypeOK, NodeStop, NodeStart, maintVars
  <2>8. CASE ControllerStop \/ ControllerStart
    BY <2>8 DEF TypeOK, ControllerStop, ControllerStart, Sleep
  <2>9. CASE UNCHANGED vars
    BY <2>9 DEF TypeOK, vars, maintVars
  <2> QED BY <2>1, <2>2, <2>3, <2>4, <2>5, <2>6, <2>7, <2>8, <2>9 DEF Next
<1> QED BY <1>1, <1>2, PTL DEF Spec

\* While maintenance is at work, the nodes that were up during its sleep are
\* registered, not suspected, and in its snapshot.
Heard ==
    /\ PromptBeats /\ maint # "sleep" => up \ fresh \subseteq nodes \ silent
    /\ PromptBeats /\ maint = "evict" => up \ fresh \subseteq snapshot

LEMMA HeardKeeps == TypeOK /\ Heard /\ [Next]_vars => Heard'
<1> SUFFICES ASSUME TypeOK, Heard, [Next]_vars PROVE Heard'
  OBVIOUS
<1> USE DEF Heard, TypeOK, maintVars
<1>1. ASSUME NEW n \in Node, Register(n) PROVE Heard'
  BY <1>1 DEF Register
<1>2. ASSUME NEW n \in Node, Heartbeat(n) PROVE Heard'
  BY <1>2 DEF Heartbeat
<1>3. ASSUME NEW n \in Node, Silence(n) PROVE Heard'
  BY <1>3 DEF Silence
<1>4. CASE MonitorHeartbeats
  BY <1>4 DEF MonitorHeartbeats
<1>5. CASE MaintWake
  BY <1>5 DEF MaintWake
<1>6. CASE MaintSnapshot
  BY <1>6 DEF MaintSnapshot, Sleep
<1>7. CASE MaintEvict
  BY <1>7 DEF MaintEvict, Sleep
<1>8. ASSUME NEW n \in Node, ReplicaStored(n) PROVE Heard'
  BY <1>8 DEF ReplicaStored
<1>9. ASSUME NEW n \in Node, NodeStop(n) \/ NodeStart(n) PROVE Heard'
  BY <1>9 DEF NodeStop, NodeStart
<1>10. CASE ControllerStop \/ ControllerStart
  BY <1>10 DEF ControllerStop, ControllerStart, Sleep
<1>11. CASE UNCHANGED vars
  BY <1>11 DEF vars
<1> QED
  BY <1>1, <1>2, <1>3, <1>4, <1>5, <1>6, <1>7, <1>8, <1>9, <1>10, <1>11 DEF Next

\* If heartbeats are prompt, processReplication never evicts a node that has
\* been running since the sleep before it began, although its snapshot may be
\* old and the controller may have lost its table of nodes.
THEOREM RunningNodesStay == Spec => NotEvictedWhileRunning
<1> DEFINE A == PromptBeats => \A n \in (listed \cap up) \ fresh : n \in listed'
<1>1. Init => TypeOK /\ Heard
  BY DEF Init, TypeOK, Heard
<1>2. TypeOK /\ Heard /\ [Next]_vars => Heard'
  BY HeardKeeps
<1>3. TypeOK /\ Heard /\ [Next]_vars => [A]_vars
  <2> SUFFICES ASSUME TypeOK, Heard, Next, PromptBeats,
                      NEW n \in (listed \cap up) \ fresh
               PROVE  n \in listed'
    OBVIOUS
  <2>1. CASE MaintEvict
    BY <2>1 DEF MaintEvict, Heard
  <2>2. CASE UNCHANGED listed
    BY <2>2
  <2>3. ASSUME NEW m \in Node, ReplicaStored(m) PROVE n \in listed'
    BY <2>3 DEF ReplicaStored
  <2> QED
    BY <2>1, <2>2, <2>3 DEF Next, Register, Heartbeat, Silence, MonitorHeartbeats,
       MaintWake, MaintSnapshot, NodeStop, NodeStart, ControllerStop, ControllerStart
<1> QED
  BY <1>1, <1>2, <1>3, MembershipTyping, PTL DEF Spec, NotEvictedWhileRunning
=============================================================================

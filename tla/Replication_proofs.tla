------------------------- MODULE Replication_proofs --------------------------
(***************************************************************************)
(* Proofs about Replication, for every set of nodes, every number of       *)
(* goroutines, copies wanted, faults and repairs.                          *)
(***************************************************************************)
EXTENDS Replication, SequenceTheorems, TLAPS

-----------------------------------------------------------------------------
(* The invariant.                                                          *)

\* A repair that pulls has a peer to pull from.
Pulling == \A n \in Node :
    repair[n] # None /\ repair[n].at # "report" => repair[n].peers # <<>>

\* A chunk file is short while, and only while, somebody writes it, and who
\* does is in the middle of the transfer.
Writing ==
    /\ \A n \in Node : disk[n] = "short" <=> owner[n] # None
    /\ \A n \in Node, w \in Worker : owner[n] = w =>
           worker[w] # None /\ worker[w].at = "copy" /\ worker[w].to = n
    /\ \A n, m \in Node : owner[n] = m =>
           n = m /\ repair[n] # None /\ repair[n].at = "copy"

ReplicationInv == TypeOK /\ Pulling /\ Writing

\* A step that stays within the bounds.
Bounded == faults' \in 0..MaxFaults /\ repairs' \in 0..MaxRepairs
-----------------------------------------------------------------------------
(* The operators of the model.                                             *)

\* Removing a node leaves a list of nodes that names none of them twice.
LEMMA OthersTyped ==
    ASSUME listed \in Seq(Node), IsInjective(listed), NEW n
    PROVE  Others(n) \in Seq(Node) /\ IsInjective(Others(n))
<1>1. CASE n \notin Range(listed)
  BY <1>1 DEF Others
<1>2. CASE n \in Range(listed)
  <2> DEFINE i == CHOOSE i \in DOMAIN listed : listed[i] = n
             r == RemoveAt(listed, i)
  <2>1. i \in 1..Len(listed)
    BY <1>2 DEF Range
  <2> HIDE DEF i
  <2> DEFINE front == SubSeq(listed, 1, i - 1)
             back == SubSeq(listed, i + 1, Len(listed))
  <2>2. /\ front \in Seq(Node) /\ Len(front) = i - 1
        /\ \A k \in 1..i - 1 : front[k] = listed[k]
    BY <2>1, SubSeqProperties
  <2>3. /\ back \in Seq(Node) /\ Len(back) = Len(listed) - i
        /\ \A k \in 1..Len(listed) - i : back[k] = listed[i + k]
    BY <2>1, SubSeqProperties
  <2>a. r = front \o back
    BY DEF RemoveAt
  <2> HIDE DEF front, back, r
  <2>b. /\ r \in Seq(Node) /\ Len(r) = Len(front) + Len(back)
        /\ \A k \in 1..Len(front) + Len(back) :
              r[k] = IF k <= Len(front) THEN front[k] ELSE back[k - Len(front)]
    BY <2>2, <2>3, <2>a, ConcatProperties
  <2>c. Len(r) = Len(listed) - 1
    BY <2>1, <2>2, <2>3, <2>b
  <2>d. ASSUME NEW k \in 1..Len(r)
        PROVE  r[k] = listed[IF k < i THEN k ELSE k + 1]
    <3>1. CASE k < i
      <4>1. k \in 1..i - 1 /\ k <= Len(front) /\ k \in 1..Len(front) + Len(back)
        BY <2>1, <2>2, <2>3, <2>c, <3>1
      <4> QED  BY <2>2, <2>b, <3>1, <4>1
    <3>2. CASE ~(k < i)
      <4>1. /\ k - (i - 1) \in 1..Len(listed) - i /\ ~(k <= Len(front))
            /\ k \in 1..Len(front) + Len(back) /\ i + (k - (i - 1)) = k + 1
        BY <2>1, <2>2, <2>3, <2>c, <3>2
      <4>2. r[k] = back[k - (i - 1)]
        BY <2>2, <2>b, <4>1
      <4> QED  BY <2>3, <3>2, <4>1, <4>2
    <3> QED  BY <3>1, <3>2
  <2>4. /\ r \in Seq(Node) /\ Len(r) = Len(listed) - 1
        /\ \A k \in 1..Len(r) : r[k] = listed[IF k < i THEN k ELSE k + 1]
    BY <2>b, <2>c, <2>d
  <2>5. DOMAIN r = 1..Len(r) /\ DOMAIN listed = 1..Len(listed) /\ Len(listed) \in Nat
    BY <2>4
  <2>6. ASSUME NEW j \in 1..Len(r), NEW k \in 1..Len(r), r[j] = r[k]
        PROVE  j = k
    BY <2>1, <2>4, <2>5, <2>6 DEF IsInjective
  <2>7. IsInjective(r)
    BY <2>5, <2>6 DEF IsInjective
  <2> QED  BY <1>2, <2>4, <2>7 DEF Others, r, i
<1> QED  BY <1>1, <1>2

\* What a goroutine does next is a state of it, and not a transfer under way.
LEMMA ContinueTyped ==
    ASSUME ReplicationAssumption, NEW s \in WorkerState, NEW k \in 0..ReplicationFactor
    PROVE  /\ Continue(s, k) \in WorkerState \cup {None}
           /\ Continue(s, k) # None => Continue(s, k).at # "copy"
<1>1. CASE k = 0
  BY <1>1 DEF Continue
<1>2. CASE k # 0
  <2> DEFINE c == [s EXCEPT !.need = k, !.at = IF s.targets = {} THEN "ask" ELSE "send",
                            !.to = s.src, !.sound = FALSE]
  <2>1. k \in 1..ReplicationFactor
    BY <1>2 DEF ReplicationAssumption
  <2>2. c \in WorkerState /\ c.at # "copy"
    BY <2>1 DEF WorkerState
  <2> QED  BY <1>2, <2>2 DEF Continue
<1> QED  BY <1>1, <1>2

\* A goroutine that maintenance starts has its state.
LEMMA StartTyped ==
    ASSUME NEW n \in Node, NEW k \in 1..ReplicationFactor
    PROVE  Start(n, k) \in WorkerState /\ Start(n, k).at = "ask"
  BY DEF Start, WorkerState

\* The peers that are left are a list of nodes, and not empty.
LEMMA NextPeerTyped ==
    ASSUME NEW n \in Node, repair[n] \in RepairState, repair[n].peers # <<>>
    PROVE  /\ NextPeer(n) \in RepairState \cup {None}
           /\ NextPeer(n) # None => NextPeer(n).at = "pull" /\ NextPeer(n).peers # <<>>
<1> DEFINE p == repair[n].peers
<1>1. p \in Seq(Node) /\ p # <<>> /\ Head(p) \in Node
  BY DEF RepairState
<1> HIDE DEF p
<1>a. Tail(p) \in Seq(Node) /\ Len(Tail(p)) = Len(p) - 1 /\ Len(p) \in Nat
  BY <1>1, HeadTailProperties
<1>2. Len(p) # 1 => Len(Tail(p)) # 0
  BY <1>a
<1>4. Len(p) # 1 => Tail(p) # <<>>
  BY <1>2, EmptySeq
<1>3. NextPeer(n) = IF Len(p) = 1 THEN None ELSE [at |-> "pull", peers |-> Tail(p)]
  BY DEF NextPeer, p
<1> QED  BY <1>a, <1>3, <1>4 DEF RepairState
-----------------------------------------------------------------------------
(* Each step keeps the invariant.                                          *)

\* Handling a status report changes the controller's list only.
LEMMA DeliverReportKeeps ==
    ASSUME ReplicationInv, Bounded, NEW r \in reports, DeliverReport(r)
    PROVE  ReplicationInv'
<1> USE DEF ReplicationInv, Bounded
<1>1. r[1] \in Node /\ r[2] \in BOOLEAN
  BY DEF TypeOK
<1>2. listed' \in Seq(Node) /\ IsInjective(listed')
  <2>1. CASE ~r[2]
    BY <2>1, OthersTyped DEF DeliverReport, TypeOK
  <2>2. CASE r[2] /\ r[1] \in Range(listed)
    BY <2>2 DEF DeliverReport, TypeOK
  <2>3. CASE r[2] /\ r[1] \notin Range(listed)
    <3>1. listed' = Append(listed, r[1])
      BY <2>3 DEF DeliverReport
    <3>2. /\ listed' \in Seq(Node) /\ Len(listed') = Len(listed) + 1
          /\ \A i \in 1..Len(listed) : listed'[i] = listed[i]
          /\ listed'[Len(listed) + 1] = r[1]
      BY <1>1, <3>1, AppendProperties DEF TypeOK
    <3>3. DOMAIN listed = 1..Len(listed) /\ DOMAIN listed' = 1..Len(listed) + 1
      BY <3>2 DEF TypeOK
    <3>4. \A i \in 1..Len(listed) : listed[i] # r[1]
      BY <2>3, <3>3 DEF Range
    <3>5. \A i, j \in 1..Len(listed) : listed[i] = listed[j] => i = j
      BY <3>3 DEF TypeOK, IsInjective
    <3>6. Len(listed) \in Nat
      BY DEF TypeOK
    <3>7. \A i, j \in 1..Len(listed) + 1 : listed'[i] = listed'[j] => i = j
      BY <3>2, <3>4, <3>5, <3>6
    <3> QED  BY <3>2, <3>3, <3>7 DEF IsInjective
  <2> QED  BY <1>1, <2>1, <2>2, <2>3
<1>3. TypeOK'
  BY <1>2 DEF TypeOK, DeliverReport
<1> QED  BY <1>3 DEF DeliverReport, Pulling, Writing

\* Losing a status report, too.
LEMMA LoseReportKeeps ==
    ASSUME ReplicationInv, Bounded, NEW r \in reports, LoseReport(r)
    PROVE  ReplicationInv'
  BY DEF ReplicationInv, Bounded, TypeOK, Pulling, Writing, LoseReport

\* A goroutine that changes while it is not in a transfer.
LEMMA WorkerKeeps ==
    ASSUME ReplicationInv, Bounded, NEW w \in Worker,
           ~Copying(w),
           worker'[w] \in WorkerState \cup {None},
           worker' = [worker EXCEPT ![w] = worker'[w]],
           reports' \subseteq Node \X BOOLEAN,
           UNCHANGED <<disk, owner, active, listed, repair>>
    PROVE  ReplicationInv'
<1> USE DEF ReplicationInv, Bounded
<1>1. TypeOK'
  BY DEF TypeOK
<1>2. Writing'
  <2>1. \A v \in Worker \ {w} : worker'[v] = worker[v]
    BY DEF TypeOK
  <2> QED  BY <2>1 DEF Writing, Copying
<1> QED  BY <1>1, <1>2 DEF Pulling

\* manageReplication gets its nodes.
LEMMA AskNodesKeeps ==
    ASSUME ReplicationInv, Bounded, NEW w \in Worker, AskNodes(w)
    PROVE  ReplicationInv'
<1> USE DEF ReplicationInv, Bounded
<1>1. worker[w] \in WorkerState /\ ~Copying(w)
  BY DEF TypeOK, AskNodes, Copying
<1>2. PICK T \in Selection(worker[w].need) \ {{}} :
         worker' = [worker EXCEPT ![w].at = "send", ![w].targets = T]
  BY DEF AskNodes
<1>3. T \in SUBSET Node
  BY <1>2 DEF Selection
<1>4. worker'[w] = [worker[w] EXCEPT !.at = "send", !.targets = T]
  BY <1>2 DEF TypeOK
<1>5. worker'[w] \in WorkerState
  BY <1>1, <1>3, <1>4 DEF WorkerState
<1>6. worker' = [worker EXCEPT ![w] = worker'[w]]
  BY <1>2, <1>4 DEF TypeOK
<1> QED  BY <1>1, <1>5, <1>6, WorkerKeeps DEF AskNodes, TypeOK

\* A target refuses, and may report it.
LEMMA SendRefusedKeeps ==
    ASSUME ReplicationAssumption, ReplicationInv, Bounded, NEW w \in Worker, NEW t \in Node, SendRefused(w, t)
    PROVE  ReplicationInv'
<1> USE DEF ReplicationInv, Bounded
<1>1. worker[w] \in WorkerState /\ ~Copying(w)
  BY DEF TypeOK, SendRefused, Sending, Copying
<1> DEFINE s == [worker[w] EXCEPT !.targets = @ \ {t}]
<1>2. s \in WorkerState /\ worker[w].need \in 0..ReplicationFactor
  BY <1>1 DEF WorkerState, ReplicationAssumption
<1>3. worker' = [worker EXCEPT ![w] = Continue(s, worker[w].need)]
  BY Zenon DEF SendRefused
<1> HIDE DEF s
<1>4. worker'[w] = Continue(s, worker[w].need)
  BY <1>3 DEF TypeOK
<1>5. worker'[w] \in WorkerState \cup {None}
  BY <1>2, <1>4, ContinueTyped
<1>6. worker' = [worker EXCEPT ![w] = worker'[w]]
  BY <1>3, <1>4
<1>7. reports' \subseteq Node \X BOOLEAN
  <2>1. <<t, FALSE>> \in Node \X BOOLEAN
    OBVIOUS
  <2>2. reports' \subseteq reports \cup {<<t, FALSE>>}
    BY DEF SendRefused
  <2> QED  BY <2>1, <2>2 DEF TypeOK
<1> QED  BY <1>1, <1>5, <1>6, <1>7, WorkerKeeps DEF SendRefused

\* Maintenance finds a goroutine that is not at work.
LEMMA DispatchKeeps ==
    ASSUME ReplicationAssumption, ReplicationInv, Bounded, NEW w \in Worker, Dispatch(w)
    PROVE  ReplicationInv'
<1> USE DEF ReplicationInv, Bounded
<1> DEFINE s == Start(Head(listed), ReplicationFactor - Len(listed))
<1>1. Head(listed) \in Node /\ ReplicationFactor - Len(listed) \in 1..ReplicationFactor
  BY DEF Dispatch, TypeOK, ReplicationAssumption
<1>2. s \in WorkerState
  BY <1>1, StartTyped
<1>3. worker' = [worker EXCEPT ![w] = s] /\ ~Copying(w)
  BY DEF Dispatch, Copying
<1> HIDE DEF s
<1>4. worker'[w] = s
  BY <1>3 DEF TypeOK
<1> QED  BY <1>2, <1>3, <1>4, WorkerKeeps DEF Dispatch, TypeOK

\* A goroutine begins a transfer, over whatever file is there.
LEMMA SendStartKeeps ==
    ASSUME ReplicationAssumption, NoneAssumption, ReplicationInv, Bounded,
           NEW w \in Worker, NEW t \in Node, SendStart(w, t)
    PROVE  ReplicationInv'
<1> USE DEF ReplicationInv, Bounded
<1>1. worker[w] \in WorkerState /\ worker[w].at = "send"
  BY DEF TypeOK, SendStart, Sending
<1>2. /\ worker'[w] = [worker[w] EXCEPT !.at = "copy", !.to = t, !.targets = @ \ {t},
                          !.sound = worker[w].whole /\ disk'[worker[w].src] = "whole"]
      /\ \A v \in Worker \ {w} : worker'[v] = worker[v]
      /\ worker' \in [Worker -> {worker'[v] : v \in Worker}]
  BY DEF SendStart, TypeOK
<1>3. /\ worker'[w] \in WorkerState /\ worker'[w] # None
      /\ worker'[w].at = "copy" /\ worker'[w].to = t
  <2> DEFINE s == worker[w]
             b == s.whole /\ disk'[s.src] = "whole"
  <2>a. /\ s = [at |-> s.at, src |-> s.src, whole |-> s.whole, need |-> s.need,
                targets |-> s.targets, to |-> s.to, sound |-> s.sound]
        /\ s.src \in Node /\ s.whole \in BOOLEAN /\ s.need \in 1..ReplicationFactor
        /\ s.targets \in SUBSET Node
    BY <1>1 DEF WorkerState
  <2>b. b \in BOOLEAN
    BY <2>a
  <2>c. worker'[w] = [s EXCEPT !.at = "copy", !.to = t, !.targets = @ \ {t}, !.sound = b]
    BY <1>2
  <2> HIDE DEF s, b
  <2>d. worker'[w] = [at |-> "copy", src |-> s.src, whole |-> s.whole, need |-> s.need,
                      targets |-> s.targets \ {t}, to |-> t, sound |-> b]
    BY <2>a, <2>c
  <2>1. worker'[w] \in WorkerState
    BY <2>a, <2>b, <2>d DEF WorkerState
  <2>2. worker'[w].at = "copy" /\ worker'[w].to = t
    BY <2>d
  <2> QED  BY <2>1, <2>2 DEF NoneAssumption
<1>4. \A n \in Node : owner[n] # w
  BY <1>1 DEF Writing
<1>5. /\ disk' = [disk EXCEPT ![t] = "short"] /\ owner' = [owner EXCEPT ![t] = w]
      /\ active' = active \cup {t} /\ UNCHANGED <<listed, reports, repair>>
  BY DEF SendStart
<1>6. TypeOK'
  BY <1>2, <1>3, <1>5 DEF TypeOK
<1>7. Writing'
  <2>1. /\ disk'[t] = "short" /\ owner'[t] = w /\ w # None /\ w \notin Node
        /\ \A n \in Node \ {t} : disk'[n] = disk[n] /\ owner'[n] = owner[n]
    BY <1>5 DEF TypeOK, ReplicationAssumption
  <2>2. \A n \in Node : disk'[n] = "short" <=> owner'[n] # None
    BY <2>1 DEF Writing
  <2>3. \A n \in Node, v \in Worker : owner'[n] = v =>
            worker'[v] # None /\ worker'[v].at = "copy" /\ worker'[v].to = n
    <3> SUFFICES ASSUME NEW n \in Node, NEW v \in Worker, owner'[n] = v
                 PROVE  worker'[v] # None /\ worker'[v].at = "copy" /\ worker'[v].to = n
      OBVIOUS
    <3>1. CASE n = t
      BY <1>3, <2>1, <3>1
    <3>2. CASE n # t
      <4>1. owner[n] = v /\ v # w
        BY <1>4, <2>1, <3>2
      <4>2. worker'[v] = worker[v]
        BY <1>2, <4>1
      <4> QED  BY <4>1, <4>2 DEF Writing
    <3> QED  BY <3>1, <3>2
  <2>4. \A n, m \in Node : owner'[n] = m =>
            n = m /\ repair'[n] # None /\ repair'[n].at = "copy"
    BY <1>5, <2>1 DEF Writing
  <2> QED  BY <2>2, <2>3, <2>4 DEF Writing
<1> QED  BY <1>5, <1>6, <1>7 DEF Pulling

\* A transfer ends well: the file is whole, unless it is another's by now.
LEMMA SendStoredKeeps ==
    ASSUME ReplicationAssumption, NoneAssumption, ReplicationInv, Bounded,
           NEW w \in Worker, SendStored(w)
    PROVE  ReplicationInv'
<1> USE DEF ReplicationInv, Bounded
<1> DEFINE t == worker[w].to
           c == Continue(worker[w], worker[w].need - 1)
<1>1. worker[w] \in WorkerState /\ t \in Node
  BY DEF TypeOK, SendStored, Copying, WorkerState
<1>2. worker[w].need - 1 \in 0..ReplicationFactor
  BY <1>1 DEF WorkerState, ReplicationAssumption
<1>3. c \in WorkerState \cup {None} /\ (c # None => c.at # "copy")
  BY <1>1, <1>2, ContinueTyped
<1>4. /\ disk' = [disk EXCEPT ![t] = Written(t, w)]
      /\ owner' = [owner EXCEPT ![t] = IF @ = w THEN None ELSE @]
      /\ active' = active \ {t} /\ reports' = reports \cup {<<t, TRUE>>}
      /\ worker' = [worker EXCEPT ![w] = c]
      /\ UNCHANGED <<listed, repair>>
  BY DEF SendStored
<1> HIDE DEF c
<1>5. \A n \in Node : owner[n] = w => n = t
  BY DEF Writing
<1> HIDE DEF t
<1>6. /\ worker' \in [Worker -> WorkerState \cup {None}]
      /\ worker'[w] = c /\ \A v \in Worker \ {w} : worker'[v] = worker[v]
  BY <1>3, <1>4 DEF TypeOK
<1>a. reports' \subseteq Node \X BOOLEAN
  <2>1. <<t, TRUE>> \in Node \X BOOLEAN
    BY <1>1
  <2> QED  BY <1>4, <2>1 DEF TypeOK
<1>b. disk' \in [Node -> {"none", "short", "rotten", "whole"}]
  BY <1>1, <1>4 DEF TypeOK, Written
<1>7. TypeOK'
  BY <1>1, <1>4, <1>6, <1>a, <1>b DEF TypeOK
<1>8. Writing'
  BY <1>1, <1>4, <1>5, <1>6 DEF Writing, Written, TypeOK, ReplicationAssumption
<1> QED  BY <1>4, <1>7, <1>8 DEF Pulling

\* A transfer fails: the path names no file any more.
LEMMA SendFailureKeeps ==
    ASSUME ReplicationAssumption, NoneAssumption, ReplicationInv, Bounded,
           NEW w \in Worker, SendFailed(w)
    PROVE  ReplicationInv'
<1> USE DEF ReplicationInv, Bounded
<1> DEFINE t == worker[w].to
           c == Continue(worker[w], worker[w].need)
<1>1. worker[w] \in WorkerState /\ t \in Node
  BY DEF TypeOK, SendFailed, Copying, WorkerState
<1>2. worker[w].need \in 0..ReplicationFactor
  BY <1>1 DEF WorkerState, ReplicationAssumption
<1>3. c \in WorkerState \cup {None} /\ (c # None => c.at # "copy")
  BY <1>1, <1>2, ContinueTyped
<1>4. /\ disk' = [disk EXCEPT ![t] = "none"]
      /\ owner' = [owner EXCEPT ![t] = None]
      /\ active' = active \ {t} /\ reports' = reports \cup {<<t, FALSE>>}
      /\ worker' = [worker EXCEPT ![w] = c]
      /\ UNCHANGED <<listed, repair>>
  BY DEF SendFailed
<1> HIDE DEF c
<1>5. \A n \in Node : owner[n] = w => n = t
  BY DEF Writing
<1> HIDE DEF t
<1>6. /\ worker' \in [Worker -> WorkerState \cup {None}]
      /\ worker'[w] = c /\ \A v \in Worker \ {w} : worker'[v] = worker[v]
  BY <1>3, <1>4 DEF TypeOK
<1>a. reports' \subseteq Node \X BOOLEAN
  <2>1. <<t, FALSE>> \in Node \X BOOLEAN
    BY <1>1
  <2> QED  BY <1>4, <2>1 DEF TypeOK
<1>b. disk' \in [Node -> {"none", "short", "rotten", "whole"}]
  BY <1>1, <1>4 DEF TypeOK
<1>7. TypeOK'
  BY <1>1, <1>4, <1>6, <1>a, <1>b DEF TypeOK
<1>8. Writing'
  BY <1>1, <1>4, <1>5, <1>6 DEF Writing, TypeOK, ReplicationAssumption
<1> QED  BY <1>4, <1>7, <1>8 DEF Pulling

\* A copy rots.
LEMMA RotKeeps ==
    ASSUME ReplicationAssumption, ReplicationInv, Bounded, NEW n \in Node, Rot(n)
    PROVE  ReplicationInv'
<1> USE DEF ReplicationInv, Bounded
<1>1. TypeOK'
  BY DEF Rot, TypeOK, ReplicationAssumption
<1>2. Writing'
  BY DEF Rot, TypeOK, Writing
<1> QED  BY <1>1, <1>2 DEF Rot, Pulling

\* A node that is not repairing its copy begins to.
LEMMA ReportingKeeps ==
    ASSUME NoneAssumption, ReplicationInv, Bounded, NEW n \in Node, repair[n] = None,
           repair' = [repair EXCEPT ![n] = Reporting],
           UNCHANGED <<disk, owner, active, listed, reports, worker>>
    PROVE  ReplicationInv'
<1> USE DEF ReplicationInv, Bounded
<1>1. Reporting \in RepairState /\ Reporting.at = "report"
  BY DEF Reporting, RepairState
<1>2. repair' \in [Node -> RepairState \cup {None}]
  BY <1>1 DEF TypeOK
<1>3. repair'[n] = Reporting /\ \A m \in Node \ {n} : repair'[m] = repair[m]
  BY DEF TypeOK
<1>4. Writing'
  BY <1>3 DEF Writing
<1> QED  BY <1>1, <1>2, <1>3, <1>4 DEF TypeOK, Pulling

\* The repair learns its peers from the controller.
LEMMA RepairReportKeeps ==
    ASSUME NoneAssumption, ReplicationInv, Bounded, NEW n \in Node, RepairReport(n)
    PROVE  ReplicationInv'
<1> USE DEF ReplicationInv, Bounded
<1>1. Others(n) \in Seq(Node) /\ IsInjective(Others(n))
  BY OthersTyped DEF TypeOK
<1> DEFINE p == IF Others(n) = <<>> THEN None ELSE [at |-> "pull", peers |-> Others(n)]
<1>2. p \in RepairState \cup {None} /\ (p # None => p.peers # <<>>)
  BY <1>1 DEF RepairState
<1>3. repair' = [repair EXCEPT ![n] = p] /\ listed' = Others(n)
      /\ UNCHANGED <<disk, owner, active, reports, worker>>
  BY DEF RepairReport
<1>4. repair[n].at # "copy"
  BY DEF RepairReport
<1> HIDE DEF p
<1>5. repair'[n] = p /\ \A m \in Node \ {n} : repair'[m] = repair[m]
  BY <1>3 DEF TypeOK
<1>6. TypeOK'
  BY <1>1, <1>2, <1>3 DEF TypeOK
<1>7. Pulling'
  BY <1>2, <1>5 DEF Pulling
<1>8. Writing'
  BY <1>3, <1>4, <1>5 DEF Writing
<1> QED  BY <1>6, <1>7, <1>8

\* A repair gives up on its first peer, which may begin one of its own.
LEMMA PeerRefusesKeeps ==
    ASSUME NoneAssumption, ReplicationInv, Bounded, NEW n \in Node, PeerRefuses(n)
    PROVE  ReplicationInv'
<1> USE DEF ReplicationInv, Bounded
<1> DEFINE p == Head(repair[n].peers)
<1>1. repair[n] # None /\ repair[n] \in RepairState /\ repair[n].at = "pull"
  BY DEF PeerRefuses, TypeOK
<1>2. repair[n].peers \in Seq(Node) /\ repair[n].peers # <<>>
  BY <1>1 DEF Pulling, RepairState
<1>3. p \in Node
  BY <1>2
<1>4. /\ NextPeer(n) \in RepairState \cup {None}
      /\ NextPeer(n) # None => NextPeer(n).peers # <<>>
  BY <1>1, <1>2, NextPeerTyped
<1>5. \/ repair' = [repair EXCEPT ![n] = NextPeer(n)]
      \/ Damaged(p) /\ repair' = [repair EXCEPT ![n] = NextPeer(n), ![p] = Reporting]
  BY DEF PeerRefuses
<1>6. /\ active' = IF NextPeer(n) = None THEN active \ {n} ELSE active
      /\ UNCHANGED <<disk, owner, listed, reports, worker>>
  BY DEF PeerRefuses
<1>7. Damaged(p) => p # n /\ repair[p] = None
  BY <1>1 DEF Damaged
<1>8. Reporting \in RepairState /\ Reporting.at = "report"
  BY DEF Reporting, RepairState
<1> HIDE DEF p
<1>9. /\ DOMAIN repair' = Node /\ repair' = [m \in Node |-> repair'[m]]
      /\ repair'[n] = NextPeer(n)
      /\ \A m \in Node \ {n} :
             repair'[m] = repair[m] \/ (repair[m] = None /\ repair'[m] = Reporting)
  BY <1>3, <1>5, <1>7 DEF TypeOK
<1>10. TypeOK'
  BY <1>4, <1>6, <1>8, <1>9 DEF TypeOK
<1>11. Pulling'
  BY <1>4, <1>8, <1>9 DEF Pulling
<1>12. Writing'
  BY <1>1, <1>6, <1>9 DEF Writing
<1> QED  BY <1>10, <1>11, <1>12

\* A repair begins to copy what its peer sends.
LEMMA PeerSendsKeeps ==
    ASSUME ReplicationAssumption, NoneAssumption, ReplicationInv, Bounded, NEW n \in Node, PeerSends(n)
    PROVE  ReplicationInv'
<1> USE DEF ReplicationInv, Bounded
<1>1. repair[n] # None /\ repair[n] \in RepairState /\ repair[n].at = "pull"
  BY DEF PeerSends, TypeOK
<1>2. repair[n].peers # <<>>
  BY <1>1 DEF Pulling
<1>3. /\ disk' = [disk EXCEPT ![n] = "short"] /\ owner' = [owner EXCEPT ![n] = n]
      /\ active' = active \cup {n} /\ repair' = [repair EXCEPT ![n].at = "copy"]
      /\ UNCHANGED <<listed, reports, worker>>
  BY DEF PeerSends
<1>4. /\ repair'[n] = [repair[n] EXCEPT !.at = "copy"]
      /\ repair' = [repair EXCEPT ![n] = repair'[n]]
      /\ \A m \in Node \ {n} : repair'[m] = repair[m]
  BY <1>3 DEF TypeOK
<1>5. /\ repair'[n] \in RepairState /\ repair'[n].at = "copy"
      /\ repair'[n].peers = repair[n].peers
  BY <1>1, <1>4 DEF RepairState
<1>6. repair' \in [Node -> RepairState \cup {None}]
  BY <1>4, <1>5 DEF TypeOK
<1>7. TypeOK'
  BY <1>3, <1>6 DEF TypeOK
<1>8. Pulling'
  BY <1>2, <1>4, <1>5 DEF Pulling
<1>9. repair'[n] # None
  BY <1>5 DEF NoneAssumption
<1>10. Writing'
  <2>1. /\ disk'[n] = "short" /\ owner'[n] = n /\ n # None /\ n \notin Worker
        /\ \A m \in Node \ {n} : disk'[m] = disk[m] /\ owner'[m] = owner[m]
    BY <1>3 DEF TypeOK, ReplicationAssumption
  <2>2. \A m \in Node : disk'[m] = "short" <=> owner'[m] # None
    BY <2>1 DEF Writing
  <2>3. \A m \in Node, v \in Worker : owner'[m] = v =>
            worker'[v] # None /\ worker'[v].at = "copy" /\ worker'[v].to = m
    BY <1>3, <2>1 DEF Writing
  <2>4. \A m, k \in Node : owner'[m] = k =>
            m = k /\ repair'[m] # None /\ repair'[m].at = "copy"
    <3> SUFFICES ASSUME NEW m \in Node, NEW k \in Node, owner'[m] = k
                 PROVE  m = k /\ repair'[m] # None /\ repair'[m].at = "copy"
      OBVIOUS
    <3>1. CASE m = n
      BY <1>5, <1>9, <2>1, <3>1
    <3>2. CASE m # n
      <4>1. owner[m] = k /\ repair'[m] = repair[m]
        BY <1>4, <2>1, <3>2
      <4> QED  BY <4>1 DEF Writing
    <3> QED  BY <3>1, <3>2
  <2> QED  BY <2>2, <2>3, <2>4 DEF Writing
<1> QED  BY <1>7, <1>8, <1>10

\* A repair ends well: the file is whole, unless it is another's by now.
LEMMA RepairStoredKeeps ==
    ASSUME ReplicationAssumption, ReplicationInv, Bounded, NEW n \in Node, RepairStored(n)
    PROVE  ReplicationInv'
<1> USE DEF ReplicationInv, Bounded
<1>1. /\ disk' = [disk EXCEPT ![n] = Written(n, n)]
      /\ owner' = [owner EXCEPT ![n] = IF @ = n THEN None ELSE @]
      /\ active' = active \ {n} /\ reports' = reports \cup {<<n, TRUE>>}
      /\ repair' = [repair EXCEPT ![n] = None]
      /\ UNCHANGED <<listed, worker>>
  BY DEF RepairStored
<1>2. <<n, TRUE>> \in Node \X BOOLEAN
  OBVIOUS
<1>3. disk' \in [Node -> {"none", "short", "rotten", "whole"}]
  BY <1>1 DEF TypeOK, Written
<1>4. TypeOK'
  BY <1>1, <1>2, <1>3 DEF TypeOK
<1>5. /\ repair'[n] = None /\ disk'[n] = Written(n, n)
      /\ owner'[n] = IF owner[n] = n THEN None ELSE owner[n]
      /\ \A m \in Node \ {n} : /\ disk'[m] = disk[m] /\ owner'[m] = owner[m]
                                /\ repair'[m] = repair[m]
  BY <1>1 DEF TypeOK
<1>6. \A m \in Node : owner[m] = n => m = n
  BY DEF Writing
<1>7. \A m \in Node : disk'[m] = "short" <=> owner'[m] # None
  BY <1>5 DEF Writing, Written, ReplicationAssumption
<1>8. \A m \in Node, v \in Worker : owner'[m] = v =>
          worker'[v] # None /\ worker'[v].at = "copy" /\ worker'[v].to = m
  BY <1>1, <1>5 DEF Writing, ReplicationAssumption
<1>9. \A m, k \in Node : owner'[m] = k =>
          m = k /\ repair'[m] # None /\ repair'[m].at = "copy"
  BY <1>5, <1>6 DEF Writing, ReplicationAssumption
<1>10. Writing'
  BY <1>7, <1>8, <1>9 DEF Writing
<1> QED  BY <1>4, <1>5, <1>10 DEF Pulling

\* A repair's transfer fails: the path names no file any more.
LEMMA RepairFailedKeeps ==
    ASSUME ReplicationAssumption, ReplicationInv, Bounded, NEW n \in Node, RepairFailed(n)
    PROVE  ReplicationInv'
<1> USE DEF ReplicationInv, Bounded
<1>1. repair[n] # None /\ repair[n] \in RepairState /\ repair[n].at = "copy"
  BY DEF RepairFailed, TypeOK
<1>2. repair[n].peers # <<>>
  BY <1>1 DEF Pulling
<1> DEFINE p == NextPeer(n)
<1>3. p \in RepairState \cup {None} /\ (p # None => p.peers # <<>>)
  BY <1>1, <1>2, NextPeerTyped
<1>4. /\ disk' = [disk EXCEPT ![n] = "none"] /\ owner' = [owner EXCEPT ![n] = None]
      /\ active' \subseteq active /\ repair' = [repair EXCEPT ![n] = p]
      /\ UNCHANGED <<listed, reports, worker>>
  BY DEF RepairFailed
<1> HIDE DEF p
<1>5. TypeOK'
  BY <1>3, <1>4 DEF TypeOK
<1>6. /\ repair'[n] = p /\ disk'[n] = "none" /\ owner'[n] = None
      /\ \A m \in Node \ {n} : /\ disk'[m] = disk[m] /\ owner'[m] = owner[m]
                                /\ repair'[m] = repair[m]
  BY <1>4 DEF TypeOK
<1>7. Pulling'
  BY <1>3, <1>6 DEF Pulling
<1>8. Writing'
  BY <1>4, <1>6 DEF Writing, ReplicationAssumption
<1> QED  BY <1>5, <1>7, <1>8
-----------------------------------------------------------------------------
(* The theorems.                                                           *)

\* The bounds on faults and repairs hold.
LEMMA StaysBounded ==
    ASSUME ReplicationAssumption, TypeOK, [Next]_vars
    PROVE  Bounded
<1>1. /\ MaxFaults \in Nat /\ MaxRepairs \in Nat
      /\ faults \in 0..MaxFaults /\ repairs \in 0..MaxRepairs
  BY DEF ReplicationAssumption, TypeOK
<1>2. \/ faults' = faults
      \/ faults < MaxFaults /\ faults' = faults + 1
  BY DEF Next, vars, FailsIf, DeliverReport, LoseReport, AskNodes, SendStart,
         SendRefused, SendStored, SendFailed, Dispatch, Rot, Scrub, Retrieve,
         RepairReport, PeerRefuses, PeerSends, RepairStored, RepairFailed
<1>3. \/ repairs' = repairs
      \/ repairs < MaxRepairs /\ repairs' = repairs + 1
  BY DEF Next, vars, Counted, DeliverReport, LoseReport, AskNodes, SendStart,
         SendRefused, SendStored, SendFailed, Dispatch, Rot, Scrub, Retrieve,
         RepairReport, PeerRefuses, PeerSends, RepairStored, RepairFailed
<1> QED  BY <1>1, <1>2, <1>3 DEF Bounded

\* Every step keeps the invariant.
LEMMA NextKeeps ==
    ASSUME ReplicationAssumption, NoneAssumption, ReplicationInv, [Next]_vars
    PROVE  ReplicationInv'
<1>0. Bounded
  BY StaysBounded DEF ReplicationInv
<1>1. CASE \E r \in reports : DeliverReport(r) \/ LoseReport(r)
  BY <1>0, <1>1, DeliverReportKeeps, LoseReportKeeps
<1>2. CASE \E w \in Worker : AskNodes(w) \/ SendStored(w) \/ SendFailed(w) \/ Dispatch(w)
  BY <1>0, <1>2, AskNodesKeeps, SendStoredKeeps, SendFailureKeeps, DispatchKeeps
<1>3. CASE \E w \in Worker, t \in Node : SendStart(w, t) \/ SendRefused(w, t)
  BY <1>0, <1>3, SendStartKeeps, SendRefusedKeeps
<1>4. CASE \E n \in Node : Rot(n)
  BY <1>0, <1>4, RotKeeps
<1>5. CASE \E n \in Node : Scrub(n) \/ Retrieve(n)
  BY <1>0, <1>5, ReportingKeeps DEF Scrub, Retrieve, Damaged
<1>6. CASE \E n \in Node : RepairReport(n) \/ PeerRefuses(n) \/ PeerSends(n)
  BY <1>0, <1>6, RepairReportKeeps, PeerRefusesKeeps, PeerSendsKeeps
<1>7. CASE \E n \in Node : RepairStored(n) \/ RepairFailed(n)
  BY <1>0, <1>7, RepairStoredKeeps, RepairFailedKeeps
<1>8. CASE UNCHANGED vars
  BY <1>8 DEF ReplicationInv, TypeOK, Pulling, Writing, vars
<1> QED  BY <1>1, <1>2, <1>3, <1>4, <1>5, <1>6, <1>7, <1>8 DEF Next

\* It holds when the client's chunk has just been stored.
LEMMA InitHolds ==
    ASSUME ReplicationAssumption, NoneAssumption, Init
    PROVE  ReplicationInv
<1>1. PICK n \in Node, w \in Worker :
        /\ disk = [m \in Node |-> IF m = n THEN "whole" ELSE "none"]
        /\ owner = [m \in Node |-> None]
        /\ active = {}
        /\ listed = <<>>
        /\ reports = {<<n, TRUE>>}
        /\ worker = [v \in Worker |->
               IF v # w THEN None
               ELSE [at |-> "ask", src |-> n, whole |-> TRUE,
                     need |-> ReplicationFactor - 1,
                     targets |-> {}, to |-> n, sound |-> FALSE]]
        /\ repair = [m \in Node |-> None]
        /\ repairs = 0
        /\ faults = 0
  BY DEF Init
<1>2. ReplicationFactor - 1 \in 1..ReplicationFactor
  BY DEF ReplicationAssumption
<1>3. worker \in [Worker -> WorkerState \cup {None}]
  BY <1>1, <1>2 DEF WorkerState
<1>4. <<n, TRUE>> \in Node \X BOOLEAN
  OBVIOUS
<1>5. listed \in Seq(Node) /\ IsInjective(listed)
  BY <1>1 DEF IsInjective
<1>a. reports \subseteq Node \X BOOLEAN
  BY <1>1, <1>4
<1>b. /\ disk \in [Node -> {"none", "short", "rotten", "whole"}]
      /\ owner \in [Node -> Worker \cup Node \cup {None}]
      /\ repair \in [Node -> RepairState \cup {None}]
  BY <1>1
<1>c. active \subseteq Node /\ repairs \in 0..MaxRepairs /\ faults \in 0..MaxFaults
  BY <1>1 DEF ReplicationAssumption
<1>6. TypeOK
  BY <1>3, <1>5, <1>a, <1>b, <1>c DEF TypeOK
<1>7. Pulling /\ Writing
  BY <1>1 DEF Pulling, Writing, ReplicationAssumption
<1> QED  BY <1>6, <1>7 DEF ReplicationInv

\* The invariant: the types, repairs that pull have a peer, and the short
\* chunk files are exactly those that somebody writes.
THEOREM ReplicationInvariant == Spec => []ReplicationInv
<1>1. ReplicationAssumption /\ NoneAssumption
  BY ReplicationAssumption, NoneAssumption
<1>2. Init => ReplicationInv
  BY <1>1, InitHolds
<1>3. ReplicationInv /\ [Next]_vars => ReplicationInv'
  BY <1>1, NextKeeps
<1> QED  BY <1>2, <1>3, PTL DEF Spec

\* chunk.nodes never names a node twice, in whatever order the controller
\* handles the status reports, and the rest of the state has its type.
THEOREM ReplicationTyped == Spec => []TypeOK
<1>1. ReplicationInv => TypeOK
  BY DEF ReplicationInv
<1> QED  BY <1>1, ReplicationInvariant, PTL

\* However transfers by replicate and repairChunk overlap on one path, a
\* chunk file that is short has a writer, which completes or removes it.
THEOREM ShortHasWriter == Spec => []NoneLeftShort
<1>1. ReplicationInv => NoneLeftShort
  <2> SUFFICES ASSUME ReplicationInv, NEW n \in Node, disk[n] = "short"
               PROVE  \/ \E w \in Worker : owner[n] = w /\ Copying(w) /\ worker[w].to = n
                      \/ owner[n] = n /\ repair[n] # None /\ repair[n].at = "copy"
    BY DEF NoneLeftShort
  <2>1. owner[n] \in Worker \cup Node
    BY DEF ReplicationInv, TypeOK, Writing
  <2> QED  BY <2>1 DEF ReplicationInv, Writing, Copying
<1> QED  BY <1>1, ReplicationInvariant, PTL
=============================================================================

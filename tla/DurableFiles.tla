---------------------------- MODULE DurableFiles ----------------------------
(***************************************************************************)
(* What the controller's metadata log promises its callers: a file map     *)
(* whose changes survive a crash once the call that made them is over.     *)
(*                                                                         *)
(* A change is begun (the map in memory is updated), persisted, and ended  *)
(* (filesMutex is released); a crash takes the map back to what was        *)
(* persisted.  A change cannot end before it is durable, so a crash may    *)
(* lose the change under way and nothing else, and may not bring back a    *)
(* file whose deletion had ended.                                          *)
(***************************************************************************)
CONSTANTS Name,    \* file names
          Meta,    \* metadata a file may have
          Absent   \* what the map holds for a name that has no file

VARIABLES view,    \* the map the handlers see
          durable, \* the map a restart would rebuild
          busy     \* a change has begun and has not ended

vars == <<view, durable, busy>>

Map == [Name -> Meta \cup {Absent}]

Init ==
    /\ durable = [f \in Name |-> Absent]
    /\ view = durable
    /\ busy = FALSE

Begin(f, v) ==
    /\ ~busy
    /\ view' = [view EXCEPT ![f] = v]
    /\ busy' = TRUE
    /\ UNCHANGED durable

Persist ==
    /\ busy
    /\ durable' = view
    /\ UNCHANGED <<view, busy>>

End ==
    /\ busy
    /\ durable = view
    /\ busy' = FALSE
    /\ UNCHANGED <<view, durable>>

Crash ==
    /\ view' = durable
    /\ busy' = FALSE
    /\ UNCHANGED durable

Next ==
    \/ \E f \in Name, v \in Meta \cup {Absent} : Begin(f, v)
    \/ Persist
    \/ End
    \/ Crash

Spec == Init /\ [][Next]_vars
=============================================================================

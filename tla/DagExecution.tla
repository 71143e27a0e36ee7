---------------------------- MODULE DagExecution ----------------------------
(***************************************************************************)
(* What the scheduler, the repair loop and the resume path promise of a    *)
(* delivery DAG together, without checkpoints, events, batches or crashes. *)
(* "done" is the completed frontier the running Worker believes in and     *)
(* "proven" the items that ever completed.  An item joins the frontier by  *)
(* completing on completed dependencies, a bootstrap item also because the *)
(* environment is found prepared; a repair, a crash or a resume may replace *)
(* the frontier by any set of proven items closed under the dependencies   *)
(* of the others, and the Trace is delivered once, with everything         *)
(* completed.                                                              *)
(***************************************************************************)
CONSTANTS
    Items, Deps,
    Environment    \* the bootstrap items

VARIABLES done, proven, delivered

vars == <<done, proven, delivered>>

Closed(S) == \A i \in S \ Environment : Deps[i] \subseteq S

Init == done = {} /\ proven = {} /\ delivered = FALSE

Complete(i) ==
    /\ ~delivered /\ (Deps[i] \subseteq done \/ i \in Environment)
    /\ done' = done \cup {i} /\ proven' = proven \cup {i}
    /\ UNCHANGED delivered

Restore ==
    /\ ~delivered
    /\ done' \subseteq proven /\ Closed(done')
    /\ UNCHANGED <<proven, delivered>>

Deliver ==
    /\ ~delivered /\ done = Items
    /\ delivered' = TRUE
    /\ UNCHANGED <<done, proven>>

Next == (\E i \in Items : Complete(i)) \/ Restore \/ Deliver

Spec == Init /\ [][Next]_vars
=============================================================================

---------------------------- MODULE LockService ----------------------------
(***************************************************************************)
(* What the locks of a studio promise to jobs: critical sections on the    *)
(* same playlist or rundown follow one another.  StudioLocks implements    *)
(* this with a table in another process, messages, timeouts and threads    *)
(* that die; a job that holds its locks in one step, as those of           *)
(* RundownMoves do, uses this service.                                     *)
(***************************************************************************)
CONSTANTS Locks    \* the critical sections; the field res is what each is on

VARIABLE inside    \* the critical sections that jobs are in

Init == inside = {}

(* A lock is given to one job at a time, *)
Enter(l) ==
  /\ \A k \in inside : k.res # l.res
  /\ inside' = inside \cup {l}

(* and is given back, or all those of a thread are taken from it. *)
Leave ==
  /\ inside' # inside
  /\ inside' \in SUBSET inside

Next == Leave \/ \E l \in Locks : Enter(l)

Spec == Init /\ [][Next]_inside
=============================================================================

----------------------------- MODULE JobService -----------------------------
(***************************************************************************)
(* What a queue of jobs promises to its callers: jobs are worked on one at *)
(* a time, in the order in which they were queued, each of them once; its  *)
(* caller is told once how it ended, and of success only if it was done.   *)
(* WorkerLoop implements this with a queue in Meteor, a loop in a worker   *)
(* process and a thread, any of which may die or be restarted.             *)
(***************************************************************************)
EXTENDS Naturals

CONSTANTS
  Jobs,
  Unwatched  \* jobs that nobody waits for

VARIABLES
  stage,     \* how far each job is
  before,    \* which of the waiting jobs was queued before which
  outcome    \* what the caller of each job knows of it

vars == <<stage, before, outcome>>

InProgress == {"begun", "running", "ok", "failed"}
Waiting == {j \in Jobs : stage[j] = "waiting"}

Init ==
  /\ stage = [j \in Jobs |-> "new"]
  /\ before = {}
  /\ outcome = [j \in Jobs |-> "none"]

Moves(j, from, to) ==
  /\ stage[j] \in from
  /\ stage' = [stage EXCEPT ![j] = to]

Queue(j) ==
  /\ Moves(j, {"new"}, "waiting")
  /\ before' = before \cup (Waiting \X {j})
  /\ outcome' = [outcome EXCEPT ![j] = "queued"]

(* The job that has waited longest, when none is worked on.  What the loop *)
(* asks of the thread for itself, clearing its caches, runs at once.       *)
Begin(j) ==
  /\ \A k \in Jobs : stage[k] \notin InProgress /\ <<k, j>> \notin before
  /\ \E to \in {"begun", "running"} : Moves(j, {"waiting"}, to)
  /\ before' = {pair \in before : pair[1] # j}
  /\ UNCHANGED outcome

Run(j) == Moves(j, {"begun"}, "running") /\ UNCHANGED <<before, outcome>>

Succeed(j) == Moves(j, {"running"}, "ok") /\ UNCHANGED <<before, outcome>>

(* It was not begun, was ended, or its success is not known any more.      *)
Fail(j) == Moves(j, {"begun", "running", "ok"}, "failed") /\ UNCHANGED <<before, outcome>>

Tell(j, end) == outcome' = IF j \in Unwatched THEN outcome ELSE [outcome EXCEPT ![j] = end]

Answer(j) ==
  /\ Moves(j, {"ok", "failed"}, "over")
  /\ Tell(j, stage[j])
  /\ UNCHANGED before

(* Whoever worked on it is gone, and has not told how far it was.          *)
Lose(j) ==
  /\ Moves(j, InProgress, "over")
  /\ Tell(j, "failed")
  /\ UNCHANGED before

Next ==
  \E j \in Jobs :
    Queue(j) \/ Begin(j) \/ Run(j) \/ Succeed(j) \/ Fail(j) \/ Answer(j) \/ Lose(j)

Spec == Init /\ [][Next]_vars
=============================================================================

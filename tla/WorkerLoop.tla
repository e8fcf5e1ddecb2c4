----------------------------- MODULE WorkerLoop -----------------------------
(***************************************************************************)
(* One job queue of Meteor (meteor/server/worker/worker.ts), the loop of   *)
(* the worker process that feeds its jobs to a thread (workers/            *)
(* parent-base.ts), the thread (workers/studio/child.ts and its like) and  *)
(* the invalidation of what the thread has cached (workers/worker-set.ts). *)
(*                                                                         *)
(* Three processes: Meteor holds the queue and the promises of the         *)
(* callers, the worker process runs the loop, and the thread, a child of   *)
(* the worker process, runs the jobs.  Calls between them are messages;    *)
(* threadedclass, which carries them and restarts processes, is external.  *)
(***************************************************************************)
EXTENDS Integers, Sequences, FiniteSets

CONSTANTS
  Jobs,         \* the jobs that are ever queued
  Unwatched,    \* jobs queued without a completion handler (by another job)
  ForceClear,   \* FORCE_CLEAR_CACHES jobs
  NoJob,        \* null
  Faults,       \* what may go wrong: a subset of FaultKinds
  MaxFaults,    \* bound: how often
  MaxChanges,   \* bound: how often a cached document changes in the database
  EarlyChanges, \* whether it may change before the change streams are open
  MayTerminate  \* whether terminate() may be called

FaultKinds == {"child dies", "worker dies", "kill fails", "start fails", "init fails",
               "invalidate fails"}

ASSUME JobsAssumption == NoJob \notin Jobs /\ Unwatched \subseteq Jobs /\ ForceClear \subseteq Jobs
ASSUME BoundsAssumption == Faults \subseteq FaultKinds /\ MaxFaults \in Nat /\ MaxChanges \in Nat

VARIABLES
  jobs,         \* Meteor: JobQueue.jobs
  notifyWorker, \* Meteor: whose wait() is pending: the loop's, a dead process's or none
  runningJobs,  \* Meteor: jobs with a registered completion handler
  outcome,      \* Meteor: what the promise of a job has become
  interrupts,   \* interruptJobStream calls on their way to Meteor
  pc,           \* worker process: where the loop is
  answered,     \* worker process: Meteor has answered the pending wait()
  job,          \* worker process: the job that was popped
  result,       \* worker process: what to report of it
  status,       \* worker process: threadStatus
  pending,      \* worker process: pendingInvalidations is not null
  watchdog,     \* worker process: watchdogJobStarted is set
  restarting,   \* worker process: how far a restart of the thread is, per caller
  terminate,    \* worker process: terminate() was called
  call,         \* the call of the loop to the thread
  child,        \* the process of the thread
  autoRestart,  \* threadedclass is about to restart the thread
  stale,        \* the thread's cache is older than the database
  watching,     \* the change streams are open
  told,         \* a change is on its way through the streams
  faults, changes \* how often already

meteorVars == <<jobs, notifyWorker, runningJobs, outcome>>
loopVars == <<pc, job, result, status, watchdog, restarting, call, child, autoRestart>>
cacheVars == <<pending, stale, watching, told>>
envVars == <<terminate, faults, changes>>
vars == <<meteorVars, interrupts, answered, loopVars, cacheVars, envVars>>

Callers == {"loop", "watchdog"}

TypeOK ==
  /\ jobs \in Seq(Jobs \cup {NoJob})
  /\ notifyWorker \in {"none", "loop", "dead"}
  /\ runningJobs \subseteq Jobs
  /\ outcome \in [Jobs -> {"none", "queued", "ok", "failed"}]
  /\ interrupts \in Nat
  /\ pc \in {"top", "restart", "init", "wait", "invalidate", "pop", "run", "finish", "exit"}
  /\ answered \in BOOLEAN
  /\ job \in Jobs \cup {NoJob}
  /\ result \in {"ok", "failed"}
  /\ status \in {"Closed", "PendingInit", "Ready", "ManualRestarting"}
  /\ restarting \in [Callers -> {"no", "kill", "start"}]
  /\ call \in {"none", "sent", "done", "rejected"}
  /\ child \in {"dead", "fresh", "ready", "busy"}
  /\ pending \in BOOLEAN /\ watchdog \in BOOLEAN /\ terminate \in BOOLEAN /\ autoRestart \in BOOLEAN
  /\ stale \in BOOLEAN /\ watching \in BOOLEAN /\ told \in BOOLEAN
  /\ faults \in 0 .. MaxFaults
  /\ changes \in 0 .. MaxChanges

Init ==
  /\ jobs = << >>
  /\ notifyWorker = "none"
  /\ runningJobs = {}
  /\ outcome = [j \in Jobs |-> "none"]
  /\ interrupts = 0
  /\ pc = "top"
  /\ answered = FALSE
  /\ job = NoJob
  /\ result = "ok"
  /\ status = "PendingInit"
  /\ pending = FALSE
  /\ watchdog = FALSE
  /\ restarting = [c \in Callers |-> "no"]
  /\ terminate = FALSE
  /\ call = "none"
  /\ child = "fresh"
  /\ autoRestart = FALSE
  /\ stale = FALSE
  /\ watching = FALSE
  /\ told = FALSE
  /\ faults = 0
  /\ changes = 0

Fault(f) ==
  /\ f \in Faults
  /\ faults < MaxFaults
  /\ faults' = faults + 1

-----------------------------------------------------------------------------
(* The queue in Meteor. *)

(* notifyWorker is resolved, in the background, and cleared. *)
Notify ==
  /\ notifyWorker' = "none"
  /\ answered' = (answered \/ notifyWorker = "loop")

(* Mutant: the job is queued, and a waiting worker is not told. *)
QueueJobSilently(j) ==
  /\ outcome[j] = "none"
  /\ outcome' = [outcome EXCEPT ![j] = "queued"]
  /\ jobs' = Append(jobs, j)
  /\ UNCHANGED <<notifyWorker, answered>>
  /\ UNCHANGED <<runningJobs, interrupts, loopVars, cacheVars, envVars>>

(* queueJobInner *)
QueueJob(j) ==
  /\ outcome[j] = "none"
  /\ outcome' = [outcome EXCEPT ![j] = "queued"]
  /\ jobs' = Append(jobs, j)
  /\ Notify
  /\ UNCHANGED <<runningJobs, interrupts, loopVars, cacheVars, envVars>>

(* interruptJobStream *)
InterruptJobStream ==
  /\ interrupts > 0
  /\ interrupts' = interrupts - 1
  /\ IF notifyWorker # "none"
     THEN Notify /\ UNCHANGED jobs
     ELSE jobs' = <<NoJob>> \o jobs /\ UNCHANGED <<notifyWorker, answered>>
  /\ UNCHANGED <<runningJobs, outcome, loopVars, cacheVars, envVars>>

-----------------------------------------------------------------------------
(* The loop. *)

(* waitForNextJob; one that a dead process left behind is replaced. *)
Wait ==
  /\ pc = "top" /\ ~ terminate /\ status = "Ready"
  /\ pc' = "wait"
  /\ answered' = (jobs # << >>)
  /\ notifyWorker' = IF jobs # << >> THEN notifyWorker ELSE "loop"
  /\ UNCHANGED <<jobs, runningJobs, outcome, interrupts, job, result, status, watchdog,
                 restarting, call, child, autoRestart, cacheVars, envVars>>

(* "Handle any invalidations" *)
Woken ==
  /\ pc = "wait" /\ answered
  /\ answered' = FALSE
  /\ pc' = IF pending THEN "invalidate" ELSE "pop"
  /\ call' = IF pending THEN "sent" ELSE call
  /\ pending' = FALSE
  /\ UNCHANGED <<meteorVars, interrupts, job, result, status, watchdog, restarting, child,
                 autoRestart, stale, watching, told, envVars>>

(* Mutant: pendingInvalidations is reset after the await. *)
InvalidatedThenReset ==
  /\ pc = "invalidate" /\ job = NoJob
  /\ call \in {"done", "rejected"}
  /\ pc' = IF call = "done" THEN "pop" ELSE "top"
  /\ call' = "none"
  /\ pending' = FALSE
  /\ UNCHANGED <<meteorVars, interrupts, answered, job, result, status, watchdog, restarting,
                 child, autoRestart, stale, watching, told, envVars>>

(* The invalidation before a job is over; the error of one is logged.      *)
Invalidated ==
  /\ pc = "invalidate" /\ job = NoJob
  /\ call \in {"done", "rejected"}
  /\ pc' = IF call = "done" THEN "pop" ELSE "top"
  /\ call' = "none"
  /\ UNCHANGED <<meteorVars, interrupts, answered, job, result, status, watchdog, restarting,
                 child, autoRestart, cacheVars, envVars>>

(* Mutant: only jobs that somebody waits for are watched. *)
PopWatchingSome ==
  /\ pc = "pop"
  /\ IF jobs = << >> \/ Head(jobs) = NoJob
     THEN /\ pc' = "top"
          /\ jobs' = IF jobs = << >> THEN jobs ELSE Tail(jobs)
          /\ UNCHANGED <<runningJobs, job, watchdog, call, pending>>
     ELSE LET j == Head(jobs)
          IN  /\ jobs' = Tail(jobs)
              /\ runningJobs' = runningJobs \cup ({j} \ Unwatched)
              /\ job' = j
              /\ watchdog' = (j \notin Unwatched)
              /\ call' = "sent"
              /\ pc' = IF j \in ForceClear THEN "invalidate" ELSE "run"
              /\ pending' = IF j \in ForceClear THEN FALSE ELSE pending
  /\ UNCHANGED <<notifyWorker, outcome, interrupts, answered, result, status, restarting, child,
                 autoRestart, stale, watching, told, envVars>>

(* Mutant: the youngest job is taken. *)
PopNewest ==
  /\ pc = "pop"
  /\ IF jobs = << >> \/ jobs[Len(jobs)] = NoJob
     THEN /\ pc' = "top"
          /\ jobs' = IF jobs = << >> THEN jobs ELSE SubSeq(jobs, 1, Len(jobs) - 1)
          /\ UNCHANGED <<runningJobs, job, watchdog, call, pending>>
     ELSE LET j == jobs[Len(jobs)]
          IN  /\ jobs' = SubSeq(jobs, 1, Len(jobs) - 1)
              /\ runningJobs' = runningJobs \cup ({j} \ Unwatched)
              /\ job' = j
              /\ watchdog' = TRUE
              /\ call' = "sent"
              /\ pc' = IF j \in ForceClear THEN "invalidate" ELSE "run"
              /\ pending' = IF j \in ForceClear THEN FALSE ELSE pending
  /\ UNCHANGED <<notifyWorker, outcome, interrupts, answered, result, status, restarting, child,
                 autoRestart, stale, watching, told, envVars>>

(* getNextJob, and the call that runs the job, if there was one.           *)
Pop ==
  /\ pc = "pop"
  /\ IF jobs = << >> \/ Head(jobs) = NoJob
     THEN /\ pc' = "top"
          /\ jobs' = IF jobs = << >> THEN jobs ELSE Tail(jobs)
          /\ UNCHANGED <<runningJobs, job, watchdog, call, pending>>
     ELSE LET j == Head(jobs)
          IN  /\ jobs' = Tail(jobs)
              /\ runningJobs' = runningJobs \cup ({j} \ Unwatched)
              /\ job' = j
              /\ watchdog' = TRUE
              /\ call' = "sent"
              /\ pc' = IF j \in ForceClear THEN "invalidate" ELSE "run"
              /\ pending' = IF j \in ForceClear THEN FALSE ELSE pending
  /\ UNCHANGED <<notifyWorker, outcome, interrupts, answered, result, status, restarting, child,
                 autoRestart, stale, watching, told, envVars>>

(* Mutant: what the call returned is reported as it is. *)
JobReturnsRaw ==
  /\ job # NoJob /\ pc \in {"run", "invalidate"}
  /\ call \in {"done", "rejected"}
  /\ result' = call
  /\ watchdog' = FALSE
  /\ call' = "none"
  /\ pc' = "finish"
  /\ UNCHANGED <<meteorVars, interrupts, answered, job, status, restarting, child, autoRestart,
                 cacheVars, envVars>>

JobReturns ==
  /\ job # NoJob /\ pc \in {"run", "invalidate"}
  /\ call \in {"done", "rejected"}
  /\ result' = IF call = "done" THEN "ok" ELSE "failed"
  /\ watchdog' = FALSE
  /\ call' = "none"
  /\ pc' = "finish"
  /\ UNCHANGED <<meteorVars, interrupts, answered, job, status, restarting, child, autoRestart,
                 cacheVars, envVars>>

(* jobFinished *)
JobFinished ==
  /\ pc = "finish"
  /\ runningJobs' = runningJobs \ {job}
  /\ outcome' = IF job \in runningJobs THEN [outcome EXCEPT ![job] = result] ELSE outcome
  /\ job' = NoJob /\ result' = "ok"
  /\ pc' = "top"
  /\ UNCHANGED <<jobs, notifyWorker, interrupts, answered, status, watchdog, restarting, call,
                 child, autoRestart, cacheVars, envVars>>

Exit ==
  /\ pc = "top" /\ terminate
  /\ pc' = "exit"
  /\ UNCHANGED <<meteorVars, interrupts, answered, job, result, status, watchdog, restarting,
                 call, child, autoRestart, cacheVars, envVars>>

Terminate ==
  /\ MayTerminate /\ ~ terminate
  /\ terminate' = TRUE
  /\ UNCHANGED <<meteorVars, interrupts, answered, loopVars, cacheVars, faults, changes>>

-----------------------------------------------------------------------------
(* The life of the thread: initialisation, restarts, the watchdog. *)

CallInit ==
  /\ pc = "top" /\ ~ terminate /\ status = "PendingInit"
  /\ pc' = "init"
  /\ call' = "sent"
  /\ UNCHANGED <<meteorVars, interrupts, answered, job, result, status, watchdog, restarting,
                 child, autoRestart, cacheVars, envVars>>

(* Mutant: the thread is taken for ready although init() failed. *)
InitReturnsReady ==
  /\ pc = "init" /\ call \in {"done", "rejected"}
  /\ status' = "Ready"
  /\ call' = "none"
  /\ pc' = "top"
  /\ UNCHANGED <<meteorVars, interrupts, answered, job, result, watchdog, restarting, child,
                 autoRestart, cacheVars, envVars>>

InitReturns ==
  /\ pc = "init" /\ call \in {"done", "rejected"}
  /\ status' = IF call = "done" THEN "Ready" ELSE "ManualRestarting"
  /\ call' = "none"
  /\ pc' = "top"
  /\ UNCHANGED <<meteorVars, interrupts, answered, job, result, watchdog, restarting, child,
                 autoRestart, cacheVars, envVars>>

(* tryRestartThread, by the loop. *)
CallRestart ==
  /\ pc = "top" /\ ~ terminate /\ status = "ManualRestarting"
  /\ pc' = "restart"
  /\ restarting' = [restarting EXCEPT !["loop"] = "kill"]
  /\ UNCHANGED <<meteorVars, interrupts, answered, job, result, status, watchdog, call, child,
                 autoRestart, cacheVars, envVars>>

(* "A job has been running for too long."  terminate() stops the watchdog. *)
Watchdog ==
  /\ watchdog /\ ~ terminate
  /\ restarting["watchdog"] = "no"
  /\ watchdog' = FALSE
  /\ status' = "ManualRestarting"
  /\ restarting' = [restarting EXCEPT !["watchdog"] = "kill"]
  /\ UNCHANGED <<meteorVars, interrupts, answered, pc, job, result, call, child, autoRestart,
                 cacheVars, envVars>>

(* The process is gone: a call whose answer was not received is rejected,   *)
(* and thread_closed fires.                                                *)
Dies ==
  /\ child' = "dead"
  /\ call' = IF call = "none" THEN "none" ELSE "rejected"
  /\ stale' = FALSE
  /\ IF status = "ManualRestarting"
     THEN UNCHANGED <<status, interrupts>>
     ELSE status' = "Closed" /\ interrupts' = interrupts + 1

ChildDies ==
  /\ Fault("child dies")
  /\ child # "dead"
  /\ Dies
  /\ autoRestart' = TRUE
  /\ UNCHANGED <<meteorVars, answered, pc, job, result, watchdog, restarting, pending, watching,
                 told, terminate, changes>>

(* threadedclass restarts a process that died by itself: restarted fires.  *)
AutoRestart ==
  /\ autoRestart
  /\ autoRestart' = FALSE
  /\ child' = "fresh"
  /\ status' = "PendingInit"
  /\ interrupts' = interrupts + 1
  /\ UNCHANGED <<meteorVars, answered, pc, job, result, watchdog, restarting, call, cacheVars,
                 envVars>>

(* restartWorkerThread kills the process, and starts another one. *)
RestartKills(c) ==
  /\ restarting[c] = "kill"
  /\ restarting' = [restarting EXCEPT ![c] = "start"]
  /\ autoRestart' = FALSE
  /\ IF child # "dead" THEN Dies ELSE UNCHANGED <<child, call, stale, status, interrupts>>
  /\ UNCHANGED <<meteorVars, answered, pc, job, result, watchdog, pending, watching, told, envVars>>

RestartStarts(c) ==
  /\ restarting[c] = "start"
  /\ restarting' = [restarting EXCEPT ![c] = "no"]
  /\ child' = IF child = "dead" THEN "fresh" ELSE child
  /\ status' = "PendingInit"
  /\ autoRestart' = FALSE
  /\ pc' = IF c = "loop" THEN "top" ELSE pc
  /\ UNCHANGED <<meteorVars, interrupts, answered, job, result, watchdog, call, cacheVars,
                 envVars>>

(* No end of the process within killTimeout, or no start of another one    *)
(* within restartTimeout.                                                  *)
RestartFails(c) ==
  /\ \/ restarting[c] = "kill" /\ Fault("kill fails")
     \/ restarting[c] = "start" /\ Fault("start fails")
  /\ restarting' = [restarting EXCEPT ![c] = "no"]
  /\ pc' = IF c = "loop" THEN "top" ELSE pc
  /\ UNCHANGED <<meteorVars, interrupts, answered, job, result, status, watchdog, call, child,
                 autoRestart, cacheVars, terminate, changes>>

(* Mutant: the completion handlers are dropped without being called. *)
WorkerDiesUnnoticed ==
  /\ Fault("worker dies")
  /\ runningJobs' = {}
  /\ notifyWorker' = IF notifyWorker = "loop" THEN "dead" ELSE notifyWorker
  /\ interrupts' = 0
  /\ answered' = FALSE
  /\ pc' = "top"
  /\ job' = NoJob
  /\ result' = "ok"
  /\ status' = "PendingInit"
  /\ pending' = FALSE
  /\ watchdog' = FALSE
  /\ restarting' = [c \in Callers |-> "no"]
  /\ terminate' = FALSE
  /\ call' = "none"
  /\ child' = "fresh"
  /\ autoRestart' = FALSE
  /\ stale' = FALSE
  /\ watching' = FALSE
  /\ told' = FALSE
  /\ UNCHANGED <<jobs, outcome, changes>>

(* The worker process dies and Meteor runs a new one: the jobs it ran are  *)
(* rejected, the queue stays.                                              *)
WorkerDies ==
  /\ Fault("worker dies")
  /\ outcome' = [j \in Jobs |-> IF j \in runningJobs THEN "failed" ELSE outcome[j]]
  /\ runningJobs' = {}
  /\ notifyWorker' = IF notifyWorker = "loop" THEN "dead" ELSE notifyWorker
  /\ interrupts' = 0
  /\ answered' = FALSE
  /\ pc' = "top"
  /\ job' = NoJob
  /\ result' = "ok"
  /\ status' = "PendingInit"
  /\ pending' = FALSE
  /\ watchdog' = FALSE
  /\ restarting' = [c \in Callers |-> "no"]
  /\ terminate' = FALSE
  /\ call' = "none"
  /\ child' = "fresh"
  /\ autoRestart' = FALSE
  /\ stale' = FALSE
  /\ watching' = FALSE
  /\ told' = FALSE
  /\ UNCHANGED <<jobs, changes>>

-----------------------------------------------------------------------------
(* The thread answers the call of the loop. *)

Idle == UNCHANGED <<meteorVars, interrupts, answered, pc, job, result, status, watchdog,
                    restarting, autoRestart, pending, watching, told, terminate, changes>>

(* init() loads the cache. *)
ChildInit ==
  /\ pc = "init" /\ call = "sent" /\ child = "fresh"
  /\ child' = "ready" /\ call' = "done"
  /\ stale' = FALSE
  /\ Idle /\ UNCHANGED faults

(* invalidateCaches() loads again what it is told of. *)
ChildInvalidate ==
  /\ pc = "invalidate" /\ call = "sent" /\ child = "ready"
  /\ call' = "done"
  /\ stale' = FALSE
  /\ Idle /\ UNCHANGED <<child, faults>>

ChildRun ==
  /\ pc = "run" /\ call = "sent" /\ child = "ready"
  /\ child' = "busy"
  /\ Idle /\ UNCHANGED <<call, stale, faults>>

(* runJob answers, with the result of the handler or with the error it has *)
(* thrown: either way the job was done, and the answer is its outcome.     *)
ChildReturns ==
  /\ child = "busy"
  /\ child' = "ready" /\ call' = "done"
  /\ Idle /\ UNCHANGED <<stale, faults>>

(* "Worker already initialised", "Worker not initialised", or no process;  *)
(* or the database was out of reach.                                       *)
ChildRejects ==
  /\ call = "sent" /\ child # "busy"
  /\ \/ child # (IF pc = "init" THEN "fresh" ELSE "ready") /\ UNCHANGED faults
     \/ pc = "init" /\ Fault("init fails")
     \/ pc = "invalidate" /\ Fault("invalidate fails")
  /\ call' = "rejected"
  /\ Idle /\ UNCHANGED <<child, stale>>

-----------------------------------------------------------------------------
(* Changes of the documents a thread caches. *)

(* subscribeToCommonCacheInvalidations, after the threads were started.    *)
Subscribe ==
  /\ ~ watching
  /\ watching' = TRUE
  /\ UNCHANGED <<meteorVars, interrupts, answered, loopVars, pending, stale, told, envVars>>

DocumentChanges ==
  /\ changes < MaxChanges
  /\ watching \/ EarlyChanges
  /\ changes' = changes + 1
  /\ stale' = (child \in {"ready", "busy"})
  /\ told' = watching
  /\ UNCHANGED <<meteorVars, interrupts, answered, loopVars, pending, watching, terminate, faults>>

(* queueCacheInvalidation *)
QueueCacheInvalidation ==
  /\ told
  /\ told' = FALSE
  /\ pending' = TRUE
  /\ UNCHANGED <<meteorVars, interrupts, answered, loopVars, stale, watching, envVars>>

-----------------------------------------------------------------------------
LoopStep ==
  \/ Wait \/ Woken \/ Invalidated \/ Pop \/ JobReturns \/ JobFinished \/ Exit
  \/ CallInit \/ InitReturns \/ CallRestart \/ Watchdog

RestartStep(c) == RestartKills(c) \/ RestartStarts(c) \/ RestartFails(c)

ChildStep == ChildInit \/ ChildInvalidate \/ ChildRun \/ ChildReturns \/ ChildRejects

ChangeStep == Subscribe \/ DocumentChanges \/ QueueCacheInvalidation

Next ==
  \/ \E j \in Jobs : QueueJob(j)
  \/ InterruptJobStream
  \/ LoopStep
  \/ \E c \in Callers : RestartStep(c)
  \/ ChildStep
  \/ ChangeStep
  \/ Terminate \/ ChildDies \/ AutoRestart \/ WorkerDies

Spec == Init /\ [][Next]_vars

(* The processes run and threadedclass restarts what died.  A job need not *)
(* ever return: the watchdog is what ends it.                              *)
Fairness ==
  /\ WF_vars(InterruptJobStream)
  /\ WF_vars(LoopStep)
  /\ WF_vars(Watchdog)
  /\ \A c \in Callers : WF_vars(RestartKills(c) \/ RestartStarts(c))
  /\ WF_vars(ChildInit \/ ChildInvalidate \/ ChildRun \/ ChildRejects)
  /\ WF_vars(AutoRestart)
  /\ WF_vars(Subscribe)
  /\ WF_vars(QueueCacheInvalidation)

FairSpec == Spec /\ Fairness

-----------------------------------------------------------------------------
(* Properties. *)

(* A document that changed is read again: while the cache of a thread is   *)
(* stale, the change is on its way, noted, or being read, whatever dies or *)
(* restarts meanwhile (queueCacheInvalidation, the loop, FORCE_CLEAR).     *)
NoInvalidationLost ==
  stale => told \/ pending \/ (pc = "invalidate" /\ call = "sent")

(* A job is running in the thread only while something will end it: the    *)
(* watchdog, or a restart that was begun, or the end of the thread.        *)
RunningJobIsWatched ==
  child = "busy" => terminate \/ watchdog \/ \E c \in Callers : restarting[c] = "kill"

(* The promise of a caller is kept by someone: its job is in the queue,    *)
(* once, or is the one the loop is working on, never both or neither.      *)
NoCallerForgotten ==
  \A j \in Jobs \ Unwatched :
    outcome[j] = "queued" <=>
      \/ /\ Cardinality({i \in DOMAIN jobs : jobs[i] = j}) = 1
         /\ j \notin runningJobs
      \/ /\ \A i \in DOMAIN jobs : jobs[i] # j
         /\ j \in runningJobs
         /\ job = j /\ pc \in {"run", "invalidate", "finish"}

(* The loop takes the thread for ready only while it is initialised: one    *)
(* that dies, is restarted or fails to start does not stay ready, however  *)
(* the restarts of the loop, the watchdog and threadedclass overlap.       *)
ReadyIsInitialised == status = "Ready" => child \in {"ready", "busy"}

(* The queue, the loop and the thread are one service to callers.          *)
InQueue(j) == \E i \in DOMAIN jobs : jobs[i] = j

Progress ==
  IF pc = "finish" THEN result
  ELSE IF call = "done" THEN "ok"
  ELSE IF call = "rejected" THEN "failed"
  ELSE IF child = "busy" \/ pc = "invalidate" THEN "running"
  ELSE "begun"

Stage ==
  [j \in Jobs |-> IF job = j THEN Progress
                  ELSE IF InQueue(j) THEN "waiting"
                  ELSE IF outcome[j] = "none" THEN "new" ELSE "over"]

Before ==
  {pair \in Jobs \X Jobs :
     \E i, k \in DOMAIN jobs : i < k /\ pair = <<jobs[i], jobs[k]>>}

Service == INSTANCE JobService WITH stage <- Stage, before <- Before

(* Jobs are run one at a time, in the order of the queue, and never twice; *)
(* a caller is told once, and of success only if the job was done: however *)
(* threads and the worker process die, restart and are interrupted         *)
(* (worker.ts, parent-base.ts).                                            *)
ImplementsJobService == Service!Spec

(* Every caller gets an answer, although jobs may hang, threads die,       *)
(* restarts fail and the worker process is replaced, unless the thread is  *)
(* told to stop.                                                           *)
EveryJobSettles ==
  \A j \in Jobs \ Unwatched :
    outcome[j] = "queued" ~> (outcome[j] \in {"ok", "failed"} \/ terminate)
=============================================================================

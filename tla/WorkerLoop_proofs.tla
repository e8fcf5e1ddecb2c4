-------------------------- MODULE WorkerLoop_proofs --------------------------
(***************************************************************************)
(* That the queue of Meteor, the loop and the thread of WorkerLoop keep    *)
(* their promises to callers, for any jobs, bounds and numbers of changes  *)
(* and whatever dies: type correctness, that no caller is forgotten, that  *)
(* a thread taken for ready is initialised, that they implement            *)
(* JobService; that no invalidation is lost, unless one itself fails; and  *)
(* that a running job is watched, unless a process outlives its kill.      *)
(***************************************************************************)
EXTENDS WorkerLoop, SequenceTheorems, FiniteSetTheorems, TLAPS

(***************************************************************************)
(* Types, in four parts: each variable is only ever compared with, or      *)
(* given, values of one kind.                                              *)
(***************************************************************************)

SwitchTypes ==
  /\ pending \in BOOLEAN /\ watchdog \in BOOLEAN /\ terminate \in BOOLEAN /\ autoRestart \in BOOLEAN
  /\ stale \in BOOLEAN /\ watching \in BOOLEAN /\ told \in BOOLEAN
  /\ answered \in BOOLEAN

QueueTypes ==
  /\ jobs \in Seq(Jobs \cup {NoJob})
  /\ notifyWorker \in {"none", "loop", "dead"}
  /\ runningJobs \subseteq Jobs
  /\ outcome \in [Jobs -> {"none", "queued", "ok", "failed"}]
  /\ job \in Jobs \cup {NoJob}
  /\ result \in {"ok", "failed"}

ThreadTypes ==
  /\ interrupts \in Nat
  /\ pc \in {"top", "restart", "init", "wait", "invalidate", "pop", "run", "finish", "exit"}
  /\ status \in {"Closed", "PendingInit", "Ready", "ManualRestarting"}
  /\ restarting \in [Callers -> {"no", "kill", "start"}]
  /\ call \in {"none", "sent", "done", "rejected"}
  /\ child \in {"dead", "fresh", "ready", "busy"}

CounterTypes == faults \in 0 .. MaxFaults /\ changes \in 0 .. MaxChanges

(* A fault is counted, up to the bound.                                    *)
LEMMA FaultCounts ==
  ASSUME CounterTypes, NEW f, Fault(f)
  PROVE  faults' \in 0 .. MaxFaults
BY BoundsAssumption DEF CounterTypes, Fault

(* Every step keeps the switches Boolean,                                  *)
LEMMA SwitchTypesStep ==
  ASSUME SwitchTypes, [Next]_vars
  PROVE  SwitchTypes'
<1> USE DEF SwitchTypes, meteorVars, loopVars, cacheVars, envVars
<1>1. CASE UNCHANGED vars
  BY <1>1 DEF vars
<1>2. ASSUME NEW j \in Jobs, QueueJob(j)
      PROVE  SwitchTypes'
  BY <1>2, Zenon DEF QueueJob, Notify
<1>3. CASE InterruptJobStream
  BY <1>3, Zenon DEF InterruptJobStream, Notify
<1>4. CASE Wait
  BY <1>4, Zenon DEF Wait
<1>5. CASE Woken
  BY <1>5, Zenon DEF Woken
<1>6. CASE Invalidated
  BY <1>6, Zenon DEF Invalidated
<1>7. CASE Pop
  BY <1>7, Zenon DEF Pop
<1>8. CASE JobReturns
  BY <1>8, Zenon DEF JobReturns
<1>9. CASE JobFinished
  BY <1>9, Zenon DEF JobFinished
<1>10. CASE Exit
  BY <1>10, Zenon DEF Exit
<1>11. CASE CallInit
  BY <1>11, Zenon DEF CallInit
<1>12. CASE InitReturns
  BY <1>12, Zenon DEF InitReturns
<1>13. CASE CallRestart
  BY <1>13, Zenon DEF CallRestart
<1>14. CASE Watchdog
  BY <1>14, Zenon DEF Watchdog
<1>15. ASSUME NEW c \in Callers, RestartKills(c)
      PROVE  SwitchTypes'
  BY <1>15, Zenon DEF RestartKills, Dies
<1>16. ASSUME NEW c \in Callers, RestartStarts(c)
      PROVE  SwitchTypes'
  BY <1>16, Zenon DEF RestartStarts
<1>17. ASSUME NEW c \in Callers, RestartFails(c)
      PROVE  SwitchTypes'
  BY <1>17, Zenon DEF RestartFails, Fault
<1>18. CASE ChildInit
  BY <1>18, Zenon DEF ChildInit, Idle
<1>19. CASE ChildInvalidate
  BY <1>19, Zenon DEF ChildInvalidate, Idle
<1>20. CASE ChildRun
  BY <1>20, Zenon DEF ChildRun, Idle
<1>21. CASE ChildReturns
  BY <1>21, Zenon DEF ChildReturns, Idle
<1>22. CASE ChildRejects
  BY <1>22, Zenon DEF ChildRejects, Idle, Fault
<1>23. CASE Subscribe
  BY <1>23, Zenon DEF Subscribe
<1>24. CASE DocumentChanges
  BY <1>24 DEF DocumentChanges
<1>25. CASE QueueCacheInvalidation
  BY <1>25, Zenon DEF QueueCacheInvalidation
<1>26. CASE Terminate
  BY <1>26, Zenon DEF Terminate
<1>27. CASE ChildDies
  BY <1>27, Zenon DEF ChildDies, Dies, Fault
<1>28. CASE AutoRestart
  BY <1>28, Zenon DEF AutoRestart
<1>29. CASE WorkerDies
  BY <1>29, Zenon DEF WorkerDies, Fault
<1> QED BY <1>1, <1>2, <1>3, <1>4, <1>5, <1>6, <1>7, <1>8, <1>9, <1>10, <1>11, <1>12, <1>13,
   <1>14, <1>15, <1>16, <1>17, <1>18, <1>19, <1>20, <1>21, <1>22, <1>23, <1>24, <1>25, <1>26,
   <1>27, <1>28, <1>29 DEF Next, LoopStep, RestartStep, ChildStep, ChangeStep

(* the queue, the jobs and what is known of them of their kinds,           *)
LEMMA QueueTypesStep ==
  ASSUME QueueTypes, [Next]_vars
  PROVE  QueueTypes'
<1> USE DEF QueueTypes, meteorVars, loopVars, cacheVars, envVars
<1>1. CASE UNCHANGED vars
  BY <1>1 DEF vars
<1>2. ASSUME NEW j \in Jobs, QueueJob(j)
      PROVE  QueueTypes'
  BY <1>2 DEF QueueJob, Notify
<1>3. CASE InterruptJobStream
  <2>1. <<NoJob>> \o jobs \in Seq(Jobs \cup {NoJob})
    <3>1. <<NoJob>> \in Seq(Jobs \cup {NoJob})
      OBVIOUS
    <3> QED BY <3>1, ConcatProperties DEF QueueTypes
  <2> QED BY <1>3, <2>1 DEF QueueTypes, InterruptJobStream, Notify, loopVars, cacheVars, envVars
<1>4. CASE Wait
  BY <1>4 DEF Wait
<1>5. CASE Woken
  BY <1>5 DEF Woken
<1>6. CASE Invalidated
  BY <1>6 DEF Invalidated
<1>7. CASE Pop
  <2>1. CASE jobs = << >> \/ Head(jobs) = NoJob
    BY <1>7, <2>1, HeadTailProperties DEF QueueTypes, Pop
  <2>2. CASE ~(jobs = << >> \/ Head(jobs) = NoJob)
    <3>1. Head(jobs) \in Jobs /\ Tail(jobs) \in Seq(Jobs \cup {NoJob})
      BY <2>2, HeadTailProperties DEF QueueTypes
    <3> QED BY <1>7, <2>2, <3>1 DEF QueueTypes, Pop
  <2> QED BY <2>1, <2>2
<1>8. CASE JobReturns
  BY <1>8 DEF JobReturns
<1>9. CASE JobFinished
  BY <1>9 DEF JobFinished
<1>10. CASE Exit
  BY <1>10 DEF Exit
<1>11. CASE CallInit
  BY <1>11 DEF CallInit
<1>12. CASE InitReturns
  BY <1>12 DEF InitReturns
<1>13. CASE CallRestart
  BY <1>13 DEF CallRestart
<1>14. CASE Watchdog
  BY <1>14 DEF Watchdog
<1>15. ASSUME NEW c \in Callers, RestartKills(c)
      PROVE  QueueTypes'
  BY <1>15 DEF RestartKills, Dies
<1>16. ASSUME NEW c \in Callers, RestartStarts(c)
      PROVE  QueueTypes'
  BY <1>16 DEF RestartStarts
<1>17. ASSUME NEW c \in Callers, RestartFails(c)
      PROVE  QueueTypes'
  BY <1>17 DEF RestartFails, Fault
<1>18. CASE ChildInit
  BY <1>18 DEF ChildInit, Idle
<1>19. CASE ChildInvalidate
  BY <1>19 DEF ChildInvalidate, Idle
<1>20. CASE ChildRun
  BY <1>20 DEF ChildRun, Idle
<1>21. CASE ChildReturns
  BY <1>21 DEF ChildReturns, Idle
<1>22. CASE ChildRejects
  BY <1>22 DEF ChildRejects, Idle, Fault
<1>23. CASE Subscribe
  BY <1>23 DEF Subscribe
<1>24. CASE DocumentChanges
  BY <1>24 DEF DocumentChanges
<1>25. CASE QueueCacheInvalidation
  BY <1>25 DEF QueueCacheInvalidation
<1>26. CASE Terminate
  BY <1>26 DEF Terminate
<1>27. CASE ChildDies
  BY <1>27 DEF ChildDies, Dies, Fault
<1>28. CASE AutoRestart
  BY <1>28 DEF AutoRestart
<1>29. CASE WorkerDies
  BY <1>29 DEF WorkerDies, Fault
<1> QED BY <1>1, <1>2, <1>3, <1>4, <1>5, <1>6, <1>7, <1>8, <1>9, <1>10, <1>11, <1>12, <1>13,
   <1>14, <1>15, <1>16, <1>17, <1>18, <1>19, <1>20, <1>21, <1>22, <1>23, <1>24, <1>25, <1>26,
   <1>27, <1>28, <1>29 DEF Next, LoopStep, RestartStep, ChildStep, ChangeStep

(* the stages of the loop, the calls and the thread among those there are, *)
LEMMA ThreadTypesStep ==
  ASSUME ThreadTypes, [Next]_vars
  PROVE  ThreadTypes'
<1> USE DEF ThreadTypes, Callers, meteorVars, loopVars, cacheVars, envVars
<1>1. CASE UNCHANGED vars
  BY <1>1 DEF vars
<1>2. ASSUME NEW j \in Jobs, QueueJob(j)
      PROVE  ThreadTypes'
  BY <1>2 DEF QueueJob, Notify
<1>3. CASE InterruptJobStream
  BY <1>3 DEF InterruptJobStream, Notify
<1>4. CASE Wait
  BY <1>4 DEF Wait
<1>5. CASE Woken
  BY <1>5 DEF Woken
<1>6. CASE Invalidated
  BY <1>6 DEF Invalidated
<1>7. CASE Pop
  BY <1>7 DEF Pop
<1>8. CASE JobReturns
  BY <1>8 DEF JobReturns
<1>9. CASE JobFinished
  BY <1>9 DEF JobFinished
<1>10. CASE Exit
  BY <1>10 DEF Exit
<1>11. CASE CallInit
  BY <1>11 DEF CallInit
<1>12. CASE InitReturns
  BY <1>12 DEF InitReturns
<1>13. CASE CallRestart
  BY <1>13 DEF CallRestart
<1>14. CASE Watchdog
  BY <1>14 DEF Watchdog
<1>15. ASSUME NEW c \in Callers, RestartKills(c)
      PROVE  ThreadTypes'
  BY <1>15 DEF RestartKills, Dies
<1>16. ASSUME NEW c \in Callers, RestartStarts(c)
      PROVE  ThreadTypes'
  BY <1>16 DEF RestartStarts
<1>17. ASSUME NEW c \in Callers, RestartFails(c)
      PROVE  ThreadTypes'
  BY <1>17 DEF RestartFails, Fault
<1>18. CASE ChildInit
  BY <1>18 DEF ChildInit, Idle
<1>19. CASE ChildInvalidate
  BY <1>19 DEF ChildInvalidate, Idle
<1>20. CASE ChildRun
  BY <1>20 DEF ChildRun, Idle
<1>21. CASE ChildReturns
  BY <1>21 DEF ChildReturns, Idle
<1>22. CASE ChildRejects
  BY <1>22 DEF ChildRejects, Idle, Fault
<1>23. CASE Subscribe
  BY <1>23 DEF Subscribe
<1>24. CASE DocumentChanges
  BY <1>24 DEF DocumentChanges
<1>25. CASE QueueCacheInvalidation
  BY <1>25 DEF QueueCacheInvalidation
<1>26. CASE Terminate
  BY <1>26 DEF Terminate
<1>27. CASE ChildDies
  <2>1. Dies /\ autoRestart' = TRUE /\ UNCHANGED <<pc, restarting>>
    BY <1>27 DEF ChildDies
  <2>2. interrupts' \in Nat /\ status' \in {"Closed", status}
    BY <2>1 DEF ThreadTypes, Dies
  <2> QED BY <2>1, <2>2 DEF ThreadTypes, Dies
<1>28. CASE AutoRestart
  BY <1>28 DEF AutoRestart
<1>29. CASE WorkerDies
  BY <1>29 DEF WorkerDies, Fault
<1> QED BY <1>1, <1>2, <1>3, <1>4, <1>5, <1>6, <1>7, <1>8, <1>9, <1>10, <1>11, <1>12, <1>13,
   <1>14, <1>15, <1>16, <1>17, <1>18, <1>19, <1>20, <1>21, <1>22, <1>23, <1>24, <1>25, <1>26,
   <1>27, <1>28, <1>29 DEF Next, LoopStep, RestartStep, ChildStep, ChangeStep

(* and the counters within their bounds.                                   *)
LEMMA CounterTypesStep ==
  ASSUME CounterTypes, [Next]_vars
  PROVE  CounterTypes'
<1> USE DEF CounterTypes, meteorVars, loopVars, cacheVars, envVars
<1>1. CASE UNCHANGED vars
  BY <1>1 DEF vars
<1>2. ASSUME NEW j \in Jobs, QueueJob(j)
      PROVE  CounterTypes'
  BY <1>2 DEF QueueJob, Notify
<1>3. CASE InterruptJobStream
  BY <1>3 DEF InterruptJobStream, Notify
<1>4. CASE Wait
  BY <1>4 DEF Wait
<1>5. CASE Woken
  BY <1>5 DEF Woken
<1>6. CASE Invalidated
  BY <1>6 DEF Invalidated
<1>7. CASE Pop
  BY <1>7 DEF Pop
<1>8. CASE JobReturns
  BY <1>8 DEF JobReturns
<1>9. CASE JobFinished
  BY <1>9 DEF JobFinished
<1>10. CASE Exit
  BY <1>10 DEF Exit
<1>11. CASE CallInit
  BY <1>11 DEF CallInit
<1>12. CASE InitReturns
  BY <1>12 DEF InitReturns
<1>13. CASE CallRestart
  BY <1>13 DEF CallRestart
<1>14. CASE Watchdog
  BY <1>14 DEF Watchdog
<1>15. ASSUME NEW c \in Callers, RestartKills(c)
      PROVE  CounterTypes'
  BY <1>15 DEF RestartKills, Dies
<1>16. ASSUME NEW c \in Callers, RestartStarts(c)
      PROVE  CounterTypes'
  BY <1>16 DEF RestartStarts
<1>17. ASSUME NEW c \in Callers, RestartFails(c)
      PROVE  CounterTypes'
  BY <1>17, FaultCounts DEF CounterTypes, RestartFails
<1>18. CASE ChildInit
  BY <1>18 DEF ChildInit, Idle
<1>19. CASE ChildInvalidate
  BY <1>19 DEF ChildInvalidate, Idle
<1>20. CASE ChildRun
  BY <1>20 DEF ChildRun, Idle
<1>21. CASE ChildReturns
  BY <1>21 DEF ChildReturns, Idle
<1>22. CASE ChildRejects
  BY <1>22, FaultCounts DEF CounterTypes, ChildRejects, Idle
<1>23. CASE Subscribe
  BY <1>23 DEF Subscribe
<1>24. CASE DocumentChanges
  BY <1>24, BoundsAssumption DEF DocumentChanges
<1>25. CASE QueueCacheInvalidation
  BY <1>25 DEF QueueCacheInvalidation
<1>26. CASE Terminate
  BY <1>26 DEF Terminate
<1>27. CASE ChildDies
  BY <1>27, FaultCounts DEF CounterTypes, ChildDies
<1>28. CASE AutoRestart
  BY <1>28 DEF AutoRestart
<1>29. CASE WorkerDies
  BY <1>29, FaultCounts DEF CounterTypes, WorkerDies
<1> QED BY <1>1, <1>2, <1>3, <1>4, <1>5, <1>6, <1>7, <1>8, <1>9, <1>10, <1>11, <1>12, <1>13,
   <1>14, <1>15, <1>16, <1>17, <1>18, <1>19, <1>20, <1>21, <1>22, <1>23, <1>24, <1>25, <1>26,
   <1>27, <1>28, <1>29 DEF Next, LoopStep, RestartStep, ChildStep, ChangeStep

(* Together they are the type invariant.                                   *)
LEMMA TypeParts == /\ TypeOK <=> SwitchTypes /\ QueueTypes /\ ThreadTypes /\ CounterTypes
                   /\ TypeOK' <=> SwitchTypes' /\ QueueTypes' /\ ThreadTypes' /\ CounterTypes'
BY DEF TypeOK, SwitchTypes, QueueTypes, ThreadTypes, CounterTypes

(***************************************************************************)
(* The inductive invariant.                                                *)
(***************************************************************************)

(* Where the loop is, and what it has in hand.                             *)
LoopInv ==
  /\ pc = "restart" <=> restarting["loop"] # "no"
  /\ job # NoJob => pc \in {"run", "invalidate", "finish"}
  /\ pc \in {"run", "finish"} => job # NoJob
  /\ call # "none" <=> pc \in {"init", "invalidate", "run"}

(* What the loop's stage and status tell of the thread.                    *)
ThreadInv ==
  /\ child = "busy" => pc = "run" /\ call = "sent"
  /\ pc = "init" /\ call = "done" => child = "ready"
  /\ autoRestart => child = "dead"
  /\ child \in {"dead", "fresh"} => ~ stale
  /\ ReadyIsInitialised

(* Before a job begins to run, and as long as it does, something will end  *)
(* it.                                                                     *)
WatchedInv ==
  pc = "run" /\ call = "sent" /\ child \in {"ready", "busy"} =>
    terminate \/ watchdog \/ restarting["watchdog"] = "kill"

(* A job is in one place: in the queue, once, or the job of the loop, for  *)
(* which Meteor has a completion handler unless nobody waits; one whose    *)
(* caller waits is in one of the two.                                      *)
QueueInv ==
  /\ runningJobs \subseteq {job} \ Unwatched
  /\ \A i, k \in DOMAIN jobs : jobs[i] = jobs[k] /\ jobs[i] # NoJob => i = k
  /\ \A i \in DOMAIN jobs : jobs[i] # NoJob => outcome[jobs[i]] = "queued" /\ job # jobs[i]
  /\ job # NoJob => outcome[job] = "queued"
  /\ \A j \in Jobs \ Unwatched : outcome[j] = "queued" => j \in runningJobs \/ InQueue(j)

IInv == LoopInv /\ ThreadInv /\ QueueInv

(***************************************************************************)
(* The loop, the thread and its cache.                                     *)
(***************************************************************************)

(* A call is made in three stages of the loop and answered before it goes  *)
(* on; a job is worked on from Pop to JobFinished.                         *)
LEMMA LoopStepKeeps ==
  ASSUME ThreadTypes, LoopInv, ThreadInv, [Next]_vars
  PROVE  LoopInv'
<1> USE DEF ThreadTypes, Callers, LoopInv, meteorVars, loopVars, cacheVars, envVars
<1>1. CASE UNCHANGED vars
  BY <1>1 DEF vars
<1>2. ASSUME NEW j \in Jobs, QueueJob(j)
      PROVE  LoopInv'
  BY <1>2 DEF QueueJob, Notify
<1>3. CASE InterruptJobStream
  BY <1>3 DEF InterruptJobStream, Notify
<1>4. CASE Wait
  BY <1>4 DEF Wait
<1>5. CASE Woken
  BY <1>5 DEF Woken
<1>6. CASE Invalidated
  BY <1>6 DEF Invalidated
<1>7. CASE Pop
  BY <1>7 DEF Pop
<1>8. CASE JobReturns
  BY <1>8 DEF JobReturns
<1>9. CASE JobFinished
  BY <1>9 DEF JobFinished
<1>10. CASE Exit
  BY <1>10 DEF Exit
<1>11. CASE CallInit
  BY <1>11 DEF CallInit
<1>12. CASE InitReturns
  BY <1>12 DEF InitReturns
<1>13. CASE CallRestart
  BY <1>13 DEF CallRestart
<1>14. CASE Watchdog
  BY <1>14 DEF Watchdog
<1>15. ASSUME NEW c \in Callers, RestartKills(c)
      PROVE  LoopInv'
  BY <1>15 DEF RestartKills, Dies
<1>16. ASSUME NEW c \in Callers, RestartStarts(c)
      PROVE  LoopInv'
  BY <1>16 DEF RestartStarts
<1>17. ASSUME NEW c \in Callers, RestartFails(c)
      PROVE  LoopInv'
  BY <1>17 DEF RestartFails, Fault
<1>18. CASE ChildInit
  BY <1>18 DEF ChildInit, Idle
<1>19. CASE ChildInvalidate
  BY <1>19 DEF ChildInvalidate, Idle
<1>20. CASE ChildRun
  BY <1>20 DEF ChildRun, Idle
<1>21. CASE ChildReturns
  BY <1>21 DEF ThreadInv, LoopInv, ChildReturns, Idle
<1>22. CASE ChildRejects
  BY <1>22 DEF ChildRejects, Idle, Fault
<1>23. CASE Subscribe
  BY <1>23 DEF Subscribe
<1>24. CASE DocumentChanges
  BY <1>24 DEF DocumentChanges
<1>25. CASE QueueCacheInvalidation
  BY <1>25 DEF QueueCacheInvalidation
<1>26. CASE Terminate
  BY <1>26 DEF Terminate
<1>27. CASE ChildDies
  BY <1>27 DEF ChildDies, Dies, Fault
<1>28. CASE AutoRestart
  BY <1>28 DEF AutoRestart
<1>29. CASE WorkerDies
  BY <1>29 DEF WorkerDies, Fault
<1> QED BY <1>1, <1>2, <1>3, <1>4, <1>5, <1>6, <1>7, <1>8, <1>9, <1>10, <1>11, <1>12, <1>13,
   <1>14, <1>15, <1>16, <1>17, <1>18, <1>19, <1>20, <1>21, <1>22, <1>23, <1>24, <1>25, <1>26,
   <1>27, <1>28, <1>29 DEF Next, LoopStep, RestartStep, ChildStep, ChangeStep

(* Whenever the process of a thread changes, so does what the loop thinks  *)
(* of it: Dies and AutoRestart set the status, InitReturns is told.        *)
LEMMA ThreadStepKeeps ==
  ASSUME ThreadTypes, LoopInv, ThreadInv, [Next]_vars
  PROVE  ThreadInv'
<1> USE DEF ThreadTypes, Callers, LoopInv, ThreadInv, ReadyIsInitialised, meteorVars, loopVars,
cacheVars, envVars
<1>1. CASE UNCHANGED vars
  BY <1>1 DEF vars
<1>2. ASSUME NEW j \in Jobs, QueueJob(j)
      PROVE  ThreadInv'
  BY <1>2 DEF QueueJob, Notify
<1>3. CASE InterruptJobStream
  BY <1>3 DEF InterruptJobStream, Notify
<1>4. CASE Wait
  BY <1>4 DEF Wait
<1>5. CASE Woken
  BY <1>5 DEF Woken
<1>6. CASE Invalidated
  BY <1>6 DEF Invalidated
<1>7. CASE Pop
  BY <1>7 DEF Pop
<1>8. CASE JobReturns
  BY <1>8 DEF JobReturns
<1>9. CASE JobFinished
  BY <1>9 DEF JobFinished
<1>10. CASE Exit
  BY <1>10 DEF Exit
<1>11. CASE CallInit
  BY <1>11 DEF CallInit
<1>12. CASE InitReturns
  BY <1>12 DEF InitReturns
<1>13. CASE CallRestart
  BY <1>13 DEF CallRestart
<1>14. CASE Watchdog
  BY <1>14 DEF Watchdog
<1>15. ASSUME NEW c \in Callers, RestartKills(c)
      PROVE  ThreadInv'
  BY <1>15 DEF RestartKills, Dies
<1>16. ASSUME NEW c \in Callers, RestartStarts(c)
      PROVE  ThreadInv'
  BY <1>16 DEF RestartStarts
<1>17. ASSUME NEW c \in Callers, RestartFails(c)
      PROVE  ThreadInv'
  BY <1>17 DEF RestartFails, Fault
<1>18. CASE ChildInit
  BY <1>18 DEF ChildInit, Idle
<1>19. CASE ChildInvalidate
  BY <1>19 DEF ChildInvalidate, Idle
<1>20. CASE ChildRun
  BY <1>20 DEF ChildRun, Idle
<1>21. CASE ChildReturns
  BY <1>21 DEF ChildReturns, Idle
<1>22. CASE ChildRejects
  BY <1>22 DEF ChildRejects, Idle, Fault
<1>23. CASE Subscribe
  BY <1>23 DEF Subscribe
<1>24. CASE DocumentChanges
  BY <1>24 DEF DocumentChanges
<1>25. CASE QueueCacheInvalidation
  BY <1>25 DEF QueueCacheInvalidation
<1>26. CASE Terminate
  BY <1>26 DEF Terminate
<1>27. CASE ChildDies
  BY <1>27 DEF ChildDies, Dies, Fault
<1>28. CASE AutoRestart
  BY <1>28 DEF AutoRestart
<1>29. CASE WorkerDies
  BY <1>29 DEF WorkerDies, Fault
<1> QED BY <1>1, <1>2, <1>3, <1>4, <1>5, <1>6, <1>7, <1>8, <1>9, <1>10, <1>11, <1>12, <1>13,
   <1>14, <1>15, <1>16, <1>17, <1>18, <1>19, <1>20, <1>21, <1>22, <1>23, <1>24, <1>25, <1>26,
   <1>27, <1>28, <1>29 DEF Next, LoopStep, RestartStep, ChildStep, ChangeStep

(* Pop starts the watchdog with the job; only the watchdog itself stops it *)
(* before the end of the job, and then it has begun a restart.             *)
LEMMA WatchedStep ==
  ASSUME "kill fails" \notin Faults, ThreadTypes, LoopInv, ThreadInv, WatchedInv, [Next]_vars
  PROVE  WatchedInv'
<1> USE DEF ThreadTypes, Callers, LoopInv, ThreadInv, WatchedInv, meteorVars, loopVars,
cacheVars, envVars
<1>1. CASE UNCHANGED vars
  BY <1>1 DEF vars
<1>2. ASSUME NEW j \in Jobs, QueueJob(j)
      PROVE  WatchedInv'
  BY <1>2 DEF QueueJob, Notify
<1>3. CASE InterruptJobStream
  BY <1>3 DEF InterruptJobStream, Notify
<1>4. CASE Wait
  BY <1>4 DEF Wait
<1>5. CASE Woken
  BY <1>5 DEF Woken
<1>6. CASE Invalidated
  BY <1>6 DEF Invalidated
<1>7. CASE Pop
  BY <1>7 DEF Pop
<1>8. CASE JobReturns
  BY <1>8 DEF JobReturns
<1>9. CASE JobFinished
  BY <1>9 DEF JobFinished
<1>10. CASE Exit
  BY <1>10 DEF Exit
<1>11. CASE CallInit
  BY <1>11 DEF CallInit
<1>12. CASE InitReturns
  BY <1>12 DEF InitReturns
<1>13. CASE CallRestart
  BY <1>13 DEF CallRestart
<1>14. CASE Watchdog
  BY <1>14 DEF Watchdog
<1>15. ASSUME NEW c \in Callers, RestartKills(c)
      PROVE  WatchedInv'
  BY <1>15 DEF RestartKills, Dies
<1>16. ASSUME NEW c \in Callers, RestartStarts(c)
      PROVE  WatchedInv'
  BY <1>16 DEF RestartStarts
<1>17. ASSUME NEW c \in Callers, RestartFails(c)
      PROVE  WatchedInv'
  BY <1>17 DEF RestartFails, Fault
<1>18. CASE ChildInit
  BY <1>18 DEF ChildInit, Idle
<1>19. CASE ChildInvalidate
  BY <1>19 DEF ChildInvalidate, Idle
<1>20. CASE ChildRun
  BY <1>20 DEF ChildRun, Idle
<1>21. CASE ChildReturns
  BY <1>21 DEF ChildReturns, Idle
<1>22. CASE ChildRejects
  BY <1>22 DEF ChildRejects, Idle, Fault
<1>23. CASE Subscribe
  BY <1>23 DEF Subscribe
<1>24. CASE DocumentChanges
  BY <1>24 DEF DocumentChanges
<1>25. CASE QueueCacheInvalidation
  BY <1>25 DEF QueueCacheInvalidation
<1>26. CASE Terminate
  BY <1>26 DEF Terminate
<1>27. CASE ChildDies
  BY <1>27 DEF ChildDies, Dies, Fault
<1>28. CASE AutoRestart
  BY <1>28 DEF AutoRestart
<1>29. CASE WorkerDies
  BY <1>29 DEF WorkerDies, Fault
<1> QED BY <1>1, <1>2, <1>3, <1>4, <1>5, <1>6, <1>7, <1>8, <1>9, <1>10, <1>11, <1>12, <1>13,
   <1>14, <1>15, <1>16, <1>17, <1>18, <1>19, <1>20, <1>21, <1>22, <1>23, <1>24, <1>25, <1>26,
   <1>27, <1>28, <1>29 DEF Next, LoopStep, RestartStep, ChildStep, ChangeStep

(* pendingInvalidations is reset before the call, not after it, and a      *)
(* call that is rejected found a thread without a cache.                   *)
LEMMA InvalidationStep ==
  ASSUME "invalidate fails" \notin Faults, EarlyChanges = FALSE, ThreadTypes, LoopInv, ThreadInv, NoInvalidationLost, [Next]_vars
  PROVE  NoInvalidationLost'
<1> USE DEF ThreadTypes, LoopInv, ThreadInv, NoInvalidationLost, meteorVars, loopVars, cacheVars,
envVars
<1>1. CASE UNCHANGED vars
  BY <1>1 DEF vars
<1>2. ASSUME NEW j \in Jobs, QueueJob(j)
      PROVE  NoInvalidationLost'
  BY <1>2 DEF QueueJob, Notify
<1>3. CASE InterruptJobStream
  BY <1>3 DEF InterruptJobStream, Notify
<1>4. CASE Wait
  BY <1>4 DEF Wait
<1>5. CASE Woken
  BY <1>5 DEF Woken
<1>6. CASE Invalidated
  BY <1>6 DEF Invalidated
<1>7. CASE Pop
  BY <1>7 DEF Pop
<1>8. CASE JobReturns
  BY <1>8 DEF JobReturns
<1>9. CASE JobFinished
  BY <1>9 DEF JobFinished
<1>10. CASE Exit
  BY <1>10 DEF Exit
<1>11. CASE CallInit
  BY <1>11 DEF CallInit
<1>12. CASE InitReturns
  BY <1>12 DEF InitReturns
<1>13. CASE CallRestart
  BY <1>13 DEF CallRestart
<1>14. CASE Watchdog
  BY <1>14 DEF Watchdog
<1>15. ASSUME NEW c \in Callers, RestartKills(c)
      PROVE  NoInvalidationLost'
  BY <1>15 DEF RestartKills, Dies
<1>16. ASSUME NEW c \in Callers, RestartStarts(c)
      PROVE  NoInvalidationLost'
  BY <1>16 DEF RestartStarts
<1>17. ASSUME NEW c \in Callers, RestartFails(c)
      PROVE  NoInvalidationLost'
  BY <1>17 DEF RestartFails, Fault
<1>18. CASE ChildInit
  BY <1>18 DEF ChildInit, Idle
<1>19. CASE ChildInvalidate
  BY <1>19 DEF ChildInvalidate, Idle
<1>20. CASE ChildRun
  BY <1>20 DEF ChildRun, Idle
<1>21. CASE ChildReturns
  BY <1>21 DEF ChildReturns, Idle
<1>22. CASE ChildRejects
  BY <1>22 DEF ChildRejects, Idle, Fault
<1>23. CASE Subscribe
  BY <1>23 DEF Subscribe
<1>24. CASE DocumentChanges
  BY <1>24 DEF DocumentChanges
<1>25. CASE QueueCacheInvalidation
  BY <1>25 DEF QueueCacheInvalidation
<1>26. CASE Terminate
  BY <1>26 DEF Terminate
<1>27. CASE ChildDies
  BY <1>27 DEF ChildDies, Dies, Fault
<1>28. CASE AutoRestart
  BY <1>28 DEF AutoRestart
<1>29. CASE WorkerDies
  BY <1>29 DEF WorkerDies, Fault
<1> QED BY <1>1, <1>2, <1>3, <1>4, <1>5, <1>6, <1>7, <1>8, <1>9, <1>10, <1>11, <1>12, <1>13,
   <1>14, <1>15, <1>16, <1>17, <1>18, <1>19, <1>20, <1>21, <1>22, <1>23, <1>24, <1>25, <1>26,
   <1>27, <1>28, <1>29 DEF Next, LoopStep, RestartStep, ChildStep, ChangeStep

(***************************************************************************)
(* The queue.                                                              *)
(***************************************************************************)

(* What is in the queue when a job is appended,                            *)
LEMMA JobsAppended ==
  ASSUME QueueTypes, NEW j \in Jobs, jobs' = Append(jobs, j)
  PROVE  /\ DOMAIN jobs = 1 .. Len(jobs) /\ DOMAIN jobs' = 1 .. Len(jobs) + 1
         /\ \A i \in DOMAIN jobs : jobs'[i] = jobs[i]
         /\ jobs'[Len(jobs) + 1] = j
BY DEF QueueTypes

(* when an interrupt puts an empty job in front,                           *)
LEMMA JobsPrepended ==
  ASSUME QueueTypes, jobs' = <<NoJob>> \o jobs
  PROVE  /\ DOMAIN jobs = 1 .. Len(jobs) /\ DOMAIN jobs' = 1 .. Len(jobs) + 1
         /\ \A i \in DOMAIN jobs : jobs'[i + 1] = jobs[i]
         /\ jobs'[1] = NoJob
<1>1. <<NoJob>> \in Seq(Jobs \cup {NoJob}) /\ Len(<<NoJob>>) = 1 /\ <<NoJob>>[1] = NoJob
  OBVIOUS
<1>2. jobs \in Seq(Jobs \cup {NoJob}) /\ Len(jobs) \in Nat
  BY DEF QueueTypes
<1>3. /\ jobs' \in Seq(Jobs \cup {NoJob}) /\ Len(jobs') = 1 + Len(jobs)
      /\ \A i \in 1 .. 1 + Len(jobs) : jobs'[i] = IF i <= 1 THEN <<NoJob>>[i] ELSE jobs[i - 1]
  BY <1>1, <1>2, ConcatProperties
<1> QED BY <1>1, <1>2, <1>3

(* and when the first is taken.                                            *)
LEMMA JobTaken ==
  ASSUME QueueTypes, jobs # << >>, jobs' = Tail(jobs)
  PROVE  /\ DOMAIN jobs = 1 .. Len(jobs) /\ DOMAIN jobs' = 1 .. Len(jobs) - 1 /\ 1 \in DOMAIN jobs
         /\ \A i \in DOMAIN jobs' : jobs'[i] = jobs[i + 1]
         /\ Head(jobs) = jobs[1]
<1>1. jobs \in Seq(Jobs \cup {NoJob}) /\ Len(jobs) \in Nat /\ Len(jobs) # 0
  BY DEF QueueTypes
<1> QED BY <1>1, HeadTailProperties

(* The queue has jobs, and what interrupts left.                           *)
LEMMA JobsAreJobs ==
  ASSUME QueueTypes
  PROVE  \A i \in DOMAIN jobs : i \in Nat /\ jobs[i] \in Jobs \cup {NoJob}
BY DEF QueueTypes

(* QueueInv is about four variables,                                       *)
LEMMA QueueKept ==
  ASSUME QueueInv, UNCHANGED <<jobs, runningJobs, outcome, job>>
  PROVE  QueueInv'
BY DEF QueueInv, InQueue

(* which these steps change and no others.                                 *)
LEMMA OnlyQueueSteps ==
  ASSUME [Next]_vars, UNCHANGED <<jobs, runningJobs, outcome, job>> => FALSE
  PROVE  \/ \E j \in Jobs : QueueJob(j)
         \/ InterruptJobStream \/ Pop \/ JobFinished \/ WorkerDies
<1>1. CASE UNCHANGED vars
  BY <1>1 DEF vars, meteorVars, loopVars
<1>2. CASE Wait
  BY <1>2 DEF Wait, meteorVars, loopVars
<1>3. CASE Woken
  BY <1>3 DEF Woken, meteorVars, loopVars
<1>4. CASE Invalidated
  BY <1>4 DEF Invalidated, meteorVars, loopVars
<1>5. CASE JobReturns
  BY <1>5 DEF JobReturns, meteorVars, loopVars
<1>6. CASE Exit
  BY <1>6 DEF Exit, meteorVars, loopVars
<1>7. CASE CallInit
  BY <1>7 DEF CallInit, meteorVars, loopVars
<1>8. CASE InitReturns
  BY <1>8 DEF InitReturns, meteorVars, loopVars
<1>9. CASE CallRestart
  BY <1>9 DEF CallRestart, meteorVars, loopVars
<1>10. CASE Watchdog
  BY <1>10 DEF Watchdog, meteorVars, loopVars
<1>11. ASSUME NEW c \in Callers, RestartKills(c)
      PROVE  UNCHANGED <<jobs, runningJobs, outcome, job>>
  BY <1>11 DEF RestartKills, meteorVars, loopVars
<1>12. ASSUME NEW c \in Callers, RestartStarts(c)
      PROVE  UNCHANGED <<jobs, runningJobs, outcome, job>>
  BY <1>12 DEF RestartStarts, meteorVars, loopVars
<1>13. ASSUME NEW c \in Callers, RestartFails(c)
      PROVE  UNCHANGED <<jobs, runningJobs, outcome, job>>
  BY <1>13 DEF RestartFails, meteorVars, loopVars
<1>14. CASE ChildInit
  BY <1>14 DEF ChildInit, Idle, meteorVars, loopVars
<1>15. CASE ChildInvalidate
  BY <1>15 DEF ChildInvalidate, Idle, meteorVars, loopVars
<1>16. CASE ChildRun
  BY <1>16 DEF ChildRun, Idle, meteorVars, loopVars
<1>17. CASE ChildReturns
  BY <1>17 DEF ChildReturns, Idle, meteorVars, loopVars
<1>18. CASE ChildRejects
  BY <1>18 DEF ChildRejects, Idle, meteorVars, loopVars
<1>19. CASE Subscribe
  BY <1>19 DEF Subscribe, meteorVars, loopVars
<1>20. CASE DocumentChanges
  BY <1>20 DEF DocumentChanges, meteorVars, loopVars
<1>21. CASE QueueCacheInvalidation
  BY <1>21 DEF QueueCacheInvalidation, meteorVars, loopVars
<1>22. CASE Terminate
  BY <1>22 DEF Terminate, meteorVars, loopVars
<1>23. CASE ChildDies
  BY <1>23 DEF ChildDies, meteorVars, loopVars
<1>24. CASE AutoRestart
  BY <1>24 DEF AutoRestart, meteorVars, loopVars
<1> QED BY <1>1, <1>2, <1>3, <1>4, <1>5, <1>6, <1>7, <1>8, <1>9, <1>10, <1>11, <1>12, <1>13,
   <1>14, <1>15, <1>16, <1>17, <1>18, <1>19, <1>20, <1>21, <1>22, <1>23, <1>24 DEF Next,
   LoopStep, RestartStep, ChildStep, ChangeStep

(* A job is queued once, taken from the queue when it becomes the job of   *)
(* the loop, and told of when it stops being that.                         *)
LEMMA QueueStep ==
  ASSUME QueueTypes, LoopInv, QueueInv, [Next]_vars
  PROVE  QueueInv'
<1> USE JobsAssumption, JobsAreJobs
<1>1. ASSUME NEW j \in Jobs, QueueJob(j)
      PROVE  QueueInv'
  <2>1. /\ outcome[j] = "none" /\ outcome' = [outcome EXCEPT ![j] = "queued"]
        /\ UNCHANGED <<runningJobs, job>>
    BY <1>1 DEF QueueJob, loopVars
  <2>2. j # job /\ \A i \in DOMAIN jobs : jobs[i] # j
    BY <2>1 DEF QueueInv
  <2>3. /\ DOMAIN jobs = 1 .. Len(jobs) /\ DOMAIN jobs' = 1 .. Len(jobs) + 1
        /\ \A i \in DOMAIN jobs : jobs'[i] = jobs[i]
        /\ jobs'[Len(jobs) + 1] = j
    BY <1>1, JobsAppended DEF QueueJob
  <2>4. \A i \in DOMAIN jobs' : i \in DOMAIN jobs \/ i = Len(jobs) + 1
    BY <2>3 DEF QueueTypes
  <2>5. \A k \in Jobs : InQueue(k)' <=> InQueue(k) \/ k = j
    BY <2>3, <2>4 DEF InQueue, QueueTypes
  <2>6. \A i, k \in DOMAIN jobs' : jobs'[i] = jobs'[k] /\ jobs'[i] # NoJob => i = k
    BY <2>2, <2>3, <2>4 DEF QueueInv
  <2>7. \A i \in DOMAIN jobs' : jobs'[i] # NoJob => outcome'[jobs'[i]] = "queued" /\ job' # jobs'[i]
    BY <2>1, <2>2, <2>3, <2>4 DEF QueueInv, QueueTypes
  <2>8. job' # NoJob => outcome'[job'] = "queued"
    BY <2>1 DEF QueueInv, QueueTypes
  <2>9. \A k \in Jobs \ Unwatched : outcome'[k] = "queued" => k \in runningJobs' \/ InQueue(k)'
    BY <2>1, <2>5 DEF QueueInv, QueueTypes
  <2> QED BY <2>1, <2>6, <2>7, <2>8, <2>9 DEF QueueInv
<1>2. CASE InterruptJobStream
  <2>1. UNCHANGED <<runningJobs, job, outcome>>
    BY <1>2 DEF InterruptJobStream, loopVars
  <2>2. CASE UNCHANGED jobs
    BY <2>1, <2>2, QueueKept
  <2>3. CASE jobs' = <<NoJob>> \o jobs
    <3>1. /\ DOMAIN jobs = 1 .. Len(jobs) /\ DOMAIN jobs' = 1 .. Len(jobs) + 1
          /\ \A i \in DOMAIN jobs : jobs'[i + 1] = jobs[i]
          /\ jobs'[1] = NoJob
      BY <2>3, JobsPrepended
    <3>2. \A i \in DOMAIN jobs' : jobs'[i] # NoJob => i - 1 \in DOMAIN jobs /\ jobs'[i] = jobs[i - 1]
      BY <3>1 DEF QueueTypes
    <3>3. \A k \in Jobs : InQueue(k) => InQueue(k)'
      BY <3>1 DEF InQueue, QueueTypes
    <3>4. \A i, k \in DOMAIN jobs' : jobs'[i] = jobs'[k] /\ jobs'[i] # NoJob => i = k
      <4> SUFFICES ASSUME NEW i \in DOMAIN jobs', NEW k \in DOMAIN jobs', jobs'[i] = jobs'[k], jobs'[i] # NoJob
                   PROVE  i = k
        OBVIOUS
      <4>1. i - 1 = k - 1
        BY <3>2 DEF QueueInv
      <4> QED BY <4>1, <3>1 DEF QueueTypes
    <3>5. \A i \in DOMAIN jobs' : jobs'[i] # NoJob => outcome'[jobs'[i]] = "queued" /\ job' # jobs'[i]
      BY <2>1, <3>2 DEF QueueInv
    <3> QED BY <2>1, <3>3, <3>4, <3>5 DEF QueueInv
  <2> QED BY <1>2, <2>2, <2>3 DEF InterruptJobStream
<1>3. CASE Pop
  <2>1. CASE jobs = << >>
    BY <1>3, <2>1, QueueKept DEF Pop
  <2>2. CASE jobs # << >>
    <3>1. jobs' = Tail(jobs) /\ UNCHANGED outcome
      BY <1>3, <2>2 DEF Pop
    <3>2. /\ DOMAIN jobs = 1 .. Len(jobs) /\ DOMAIN jobs' = 1 .. Len(jobs) - 1 /\ 1 \in DOMAIN jobs
          /\ \A i \in DOMAIN jobs' : jobs'[i] = jobs[i + 1]
          /\ Head(jobs) = jobs[1]
      BY <2>2, <3>1, JobTaken
    <3>3. \A i \in DOMAIN jobs' : i + 1 \in DOMAIN jobs /\ i + 1 # 1
      BY <3>2 DEF QueueTypes
    <3>4. \A i \in DOMAIN jobs : i = 1 \/ (i - 1 \in DOMAIN jobs' /\ jobs'[i - 1] = jobs[i])
      BY <3>2 DEF QueueTypes
    <3>5. \A i, k \in DOMAIN jobs' : jobs'[i] = jobs'[k] /\ jobs'[i] # NoJob => i = k
      <4> SUFFICES ASSUME NEW i \in DOMAIN jobs', NEW k \in DOMAIN jobs', jobs'[i] = jobs'[k], jobs'[i] # NoJob
                   PROVE  i = k
        OBVIOUS
      <4>1. i + 1 = k + 1
        BY <3>2, <3>3 DEF QueueInv
      <4> QED BY <4>1, <3>2 DEF QueueTypes
    <3>6. \A i \in DOMAIN jobs' : jobs'[i] # NoJob => outcome[jobs'[i]] = "queued" /\ job # jobs'[i] /\ jobs'[i] # jobs[1]
      BY <3>2, <3>3 DEF QueueInv
    <3>7. \A k \in Jobs : InQueue(k) => InQueue(k)' \/ k = jobs[1]
      BY <3>4 DEF InQueue
    <3>8. job = NoJob /\ runningJobs = {}
      BY <1>3 DEF Pop, LoopInv, QueueInv, QueueTypes
    <3>9. CASE jobs[1] = NoJob
      <4>1. UNCHANGED <<runningJobs, job>>
        BY <1>3, <3>2, <3>9 DEF Pop
      <4> QED BY <3>1, <3>5, <3>6, <3>7, <3>9, <4>1 DEF QueueInv
    <3>10. CASE jobs[1] # NoJob
      <4>1. job' = jobs[1] /\ runningJobs' = {jobs[1]} \ Unwatched /\ outcome[jobs[1]] = "queued"
        BY <1>3, <2>2, <3>2, <3>8, <3>10 DEF Pop, QueueInv
      <4> QED BY <3>1, <3>5, <3>6, <3>7, <3>8, <3>10, <4>1 DEF QueueInv
    <3> QED BY <3>9, <3>10
  <2> QED BY <2>1, <2>2
<1>4. CASE JobFinished
  <2>1. /\ UNCHANGED jobs
        /\ job # NoJob
        /\ runningJobs' = {} /\ job' = NoJob
        /\ outcome' = IF job \in runningJobs THEN [outcome EXCEPT ![job] = result] ELSE outcome
    BY <1>4 DEF JobFinished, LoopInv, QueueInv
  <2>2. \A k \in Jobs \ {job} : outcome'[k] = outcome[k]
    BY <2>1 DEF QueueTypes
  <2>3. \A i \in DOMAIN jobs : jobs[i] # NoJob => jobs[i] \in Jobs \ {job}
    BY DEF QueueInv
  <2>4. job \in Jobs \ Unwatched => outcome'[job] # "queued"
    BY <2>1 DEF QueueInv, QueueTypes, InQueue
  <2> QED BY <2>1, <2>2, <2>3, <2>4 DEF QueueInv, InQueue
<1>5. CASE WorkerDies
  <2>1. /\ UNCHANGED jobs
        /\ runningJobs' = {} /\ job' = NoJob
        /\ outcome' = [j \in Jobs |-> IF j \in runningJobs THEN "failed" ELSE outcome[j]]
    BY <1>5 DEF WorkerDies
  <2>2. \A i \in DOMAIN jobs : jobs[i] # NoJob => jobs[i] \in Jobs \ runningJobs
    BY DEF QueueInv
  <2> QED BY <2>1, <2>2 DEF QueueInv, InQueue
<1> QED BY <1>1, <1>2, <1>3, <1>4, <1>5, OnlyQueueSteps, QueueKept

(* The queue has a job once or not at all.                                 *)
LEMMA OnceInQueue ==
  ASSUME QueueTypes, QueueInv, NEW j \in Jobs
  PROVE  Cardinality({i \in DOMAIN jobs : jobs[i] = j}) = 1 <=> InQueue(j)
<1> DEFINE At == {i \in DOMAIN jobs : jobs[i] = j}
<1>1. IsFiniteSet(At)
  <2>1. IsFiniteSet(1 .. Len(jobs)) /\ DOMAIN jobs = 1 .. Len(jobs)
    BY FS_Interval DEF QueueTypes
  <2> QED BY <2>1, FS_Subset
<1>2. Cardinality(At) = 1 <=> \E x : At = {x}
  BY <1>1, FS_Singleton
<1>3. ASSUME NEW i \in DOMAIN jobs, jobs[i] = j
      PROVE  At = {i}
  BY <1>3, JobsAssumption DEF QueueInv
<1> QED BY <1>2, <1>3 DEF InQueue

(* QueueInv says of every job where it is.                                 *)
LEMMA CallersAreKept ==
  ASSUME QueueTypes, LoopInv, QueueInv
  PROVE  NoCallerForgotten
<1> SUFFICES ASSUME NEW j \in Jobs \ Unwatched
             PROVE  outcome[j] = "queued" <=>
                      \/ InQueue(j) /\ j \notin runningJobs
                      \/ ~ InQueue(j) /\ j \in runningJobs /\ job = j /\ pc \in {"run", "invalidate", "finish"}
  BY OnceInQueue DEF NoCallerForgotten, InQueue
<1>1. InQueue(j) => outcome[j] = "queued" /\ j # job
  BY JobsAssumption DEF InQueue, QueueInv
<1>2. j \in runningJobs => job = j /\ outcome[j] = "queued" /\ pc \in {"run", "invalidate", "finish"}
  BY JobsAssumption DEF QueueInv, LoopInv
<1> QED BY <1>1, <1>2 DEF QueueInv

(***************************************************************************)
(* The abstract service.                                                   *)
(***************************************************************************)

(* The queue alone decides who waits, and who was first.                   *)
LEMMA SameQueue ==
  ASSUME UNCHANGED <<jobs, outcome, job>>
  PROVE  /\ Before' = Before
         /\ \A j \in Jobs : InQueue(j)' <=> InQueue(j)
BY DEF Before, InQueue

(* As long as the queue and the job of the loop stay, only that job moves. *)
LEMMA StageSteps ==
  ASSUME UNCHANGED <<jobs, outcome, job>>, job \in Jobs \cup {NoJob}
  PROVE  /\ UNCHANGED Before
         /\ job = NoJob => UNCHANGED Stage
         /\ job # NoJob => Stage' = [Stage EXCEPT ![job] = Progress'] /\ Stage[job] = Progress
<1>1. \A j \in Jobs \ {job} : Stage'[j] = Stage[j]
  BY SameQueue DEF Stage
<1>2. Stage = [j \in Jobs |-> Stage[j]] /\ Stage' = [j \in Jobs |-> Stage'[j]]
  BY DEF Stage
<1>3. job # NoJob => Stage'[job] = Progress' /\ Stage[job] = Progress
  BY DEF Stage
<1> QED BY <1>1, <1>2, <1>3, SameQueue, JobsAssumption

(* What JobService allows it to do,                                        *)
LEMMA ProgressMade ==
  ASSUME QueueTypes, UNCHANGED <<jobs, outcome, job>>,
         job # NoJob =>
           \/ Progress' = Progress
           \/ Progress = "begun" /\ Progress' = "running"
           \/ Progress = "running" /\ Progress' = "ok"
           \/ Progress \in {"begun", "running", "ok"} /\ Progress' = "failed"
  PROVE  [Service!Next]_(Service!vars)
<1>1. /\ UNCHANGED Before /\ UNCHANGED outcome
      /\ job = NoJob => UNCHANGED Stage
      /\ job # NoJob => Stage' = [Stage EXCEPT ![job] = Progress'] /\ Stage[job] = Progress
  BY StageSteps DEF QueueTypes
<1>2. Stage = [j \in Jobs |-> Stage[j]]
  BY DEF Stage
<1>3. CASE job = NoJob \/ Progress' = Progress
  BY <1>1, <1>2, <1>3 DEF Service!vars
<1>4. CASE job # NoJob /\ Progress = "begun" /\ Progress' = "running"
  BY <1>1, <1>4 DEF QueueTypes, Service!Next, Service!Run, Service!Moves
<1>5. CASE job # NoJob /\ Progress = "running" /\ Progress' = "ok"
  BY <1>1, <1>5 DEF QueueTypes, Service!Next, Service!Succeed, Service!Moves
<1>6. CASE job # NoJob /\ Progress \in {"begun", "running", "ok"} /\ Progress' = "failed"
  BY <1>1, <1>6 DEF QueueTypes, Service!Next, Service!Fail, Service!Moves
<1> QED BY <1>3, <1>4, <1>5, <1>6

(* it does: it begins to run, ends, or fails; what ended does not run.     *)
LEMMA ProgressStep ==
  ASSUME QueueTypes, ThreadTypes, LoopInv, ThreadInv, [Next]_vars, UNCHANGED <<jobs, outcome, job>>, job # NoJob
  PROVE  \/ Progress' = Progress
         \/ Progress = "begun" /\ Progress' = "running"
         \/ Progress = "running" /\ Progress' = "ok"
         \/ Progress \in {"begun", "running", "ok"} /\ Progress' = "failed"
<1> DEFINE Goal == \/ Progress' = Progress
                   \/ Progress = "begun" /\ Progress' = "running"
                   \/ Progress = "running" /\ Progress' = "ok"
                   \/ Progress \in {"begun", "running", "ok"} /\ Progress' = "failed"
<1> USE DEF LoopInv, ThreadInv, ThreadTypes, Progress, meteorVars, loopVars, cacheVars, envVars
<1>1. CASE UNCHANGED vars
  BY <1>1 DEF vars
<1>2. ASSUME NEW j \in Jobs, QueueJob(j)
      PROVE  Goal
  BY <1>2, JobsAssumption DEF QueueJob, Notify
<1>3. CASE InterruptJobStream
  BY <1>3 DEF InterruptJobStream, Notify
<1>4. CASE Wait
  BY <1>4 DEF Wait
<1>5. CASE Woken
  BY <1>5 DEF Woken
<1>6. CASE Invalidated
  BY <1>6 DEF Invalidated
<1>7. CASE Pop
  BY <1>7 DEF Pop
<1>8. CASE JobReturns
  BY <1>8 DEF JobReturns
<1>9. CASE JobFinished
  BY <1>9 DEF JobFinished
<1>10. CASE Exit
  BY <1>10 DEF Exit
<1>11. CASE CallInit
  BY <1>11 DEF CallInit
<1>12. CASE InitReturns
  BY <1>12 DEF InitReturns
<1>13. CASE CallRestart
  BY <1>13 DEF CallRestart
<1>14. CASE Watchdog
  BY <1>14 DEF Watchdog
<1>15. ASSUME NEW c \in Callers, RestartKills(c)
      PROVE  Goal
  BY <1>15 DEF RestartKills, Dies
<1>16. ASSUME NEW c \in Callers, RestartStarts(c)
      PROVE  Goal
  BY <1>16 DEF RestartStarts
<1>17. ASSUME NEW c \in Callers, RestartFails(c)
      PROVE  Goal
  BY <1>17 DEF RestartFails, Fault
<1>18. CASE ChildInit
  BY <1>18 DEF ChildInit, Idle
<1>19. CASE ChildInvalidate
  BY <1>19 DEF ChildInvalidate, Idle
<1>20. CASE ChildRun
  BY <1>20 DEF ChildRun, Idle
<1>21. CASE ChildReturns
  BY <1>21 DEF ChildReturns, Idle
<1>22. CASE ChildRejects
  BY <1>22 DEF ChildRejects, Idle, Fault
<1>23. CASE Subscribe
  BY <1>23 DEF Subscribe
<1>24. CASE DocumentChanges
  BY <1>24 DEF DocumentChanges
<1>25. CASE QueueCacheInvalidation
  BY <1>25 DEF QueueCacheInvalidation
<1>26. CASE Terminate
  BY <1>26 DEF Terminate
<1>27. CASE ChildDies
  BY <1>27 DEF ChildDies, Dies, Fault
<1>28. CASE AutoRestart
  BY <1>28 DEF AutoRestart
<1>29. CASE WorkerDies
  BY <1>29 DEF WorkerDies, Fault
<1> QED BY <1>1, <1>2, <1>3, <1>4, <1>5, <1>6, <1>7, <1>8, <1>9, <1>10, <1>11, <1>12, <1>13,
   <1>14, <1>15, <1>16, <1>17, <1>18, <1>19, <1>20, <1>21, <1>22, <1>23, <1>24, <1>25, <1>26,
   <1>27, <1>28, <1>29 DEF Next, LoopStep, RestartStep, ChildStep, ChangeStep

(* queueJob queues: the job comes after all that wait.                     *)
LEMMA QueueJobRefines ==
  ASSUME QueueTypes, QueueInv, NEW j \in Jobs, QueueJob(j)
  PROVE  Service!Queue(j)
<1> USE JobsAssumption, JobsAreJobs
<1>1. /\ outcome[j] = "none" /\ outcome' = [outcome EXCEPT ![j] = "queued"]
      /\ UNCHANGED <<job, pc, call, child, result>>
  BY DEF QueueJob, loopVars
<1>2. j # job /\ \A i \in DOMAIN jobs : jobs[i] # j
  BY <1>1 DEF QueueInv
<1>3. /\ DOMAIN jobs = 1 .. Len(jobs) /\ DOMAIN jobs' = 1 .. Len(jobs) + 1
      /\ \A i \in DOMAIN jobs : jobs'[i] = jobs[i]
      /\ jobs'[Len(jobs) + 1] = j
  BY JobsAppended DEF QueueJob
<1>4. Len(jobs) \in Nat /\ \A i \in DOMAIN jobs' : i \in DOMAIN jobs \/ i = Len(jobs) + 1
  BY <1>3 DEF QueueTypes
<1>5. \A k \in Jobs : InQueue(k)' <=> InQueue(k) \/ k = j
  BY <1>3, <1>4 DEF InQueue
<1>6. Stage' = [Stage EXCEPT ![j] = "waiting"] /\ Stage[j] = "new"
  <2>1. Stage[j] = "new" /\ Stage'[j] = "waiting"
    BY <1>1, <1>2, <1>5 DEF Stage, InQueue
  <2>2. \A k \in Jobs \ {j} : Stage'[k] = Stage[k]
    BY <1>1, <1>5 DEF Stage, Progress, QueueTypes
  <2>3. Stage = [k \in Jobs |-> Stage[k]] /\ Stage' = [k \in Jobs |-> Stage'[k]]
    BY DEF Stage
  <2> QED BY <2>1, <2>2, <2>3
<1>7. \A k \in Jobs : k \in Service!Waiting <=> InQueue(k)
  <2>1. job # NoJob => Progress # "waiting"
    BY DEF Progress, QueueTypes
  <2> QED BY <2>1 DEF Service!Waiting, Stage, InQueue, QueueInv
<1>8. Before' = Before \cup (Service!Waiting \X {j})
  <2>1. ASSUME NEW a \in Jobs, NEW b \in Jobs
        PROVE  <<a, b>> \in Before' <=> <<a, b>> \in Before \cup (Service!Waiting \X {j})
    <3>1. <<a, b>> \in Before' <=> \E i, k \in DOMAIN jobs' : i < k /\ a = jobs'[i] /\ b = jobs'[k]
      BY DEF Before
    <3>2. <<a, b>> \in Before <=> \E i, k \in DOMAIN jobs : i < k /\ a = jobs[i] /\ b = jobs[k]
      BY DEF Before
    <3>3. <<a, b>> \in Service!Waiting \X {j} <=> InQueue(a) /\ b = j
      BY <1>7
    <3>4. ASSUME NEW i \in DOMAIN jobs', NEW k \in DOMAIN jobs', i < k
          PROVE  i \in DOMAIN jobs /\ (k \in DOMAIN jobs \/ k = Len(jobs) + 1)
      BY <3>4, <1>3, <1>4
    <3>5. \A i \in DOMAIN jobs : i \in DOMAIN jobs' /\ Len(jobs) + 1 \in DOMAIN jobs' /\ i < Len(jobs) + 1
      BY <1>3, <1>4
    <3> QED BY <1>2, <1>3, <3>1, <3>2, <3>3, <3>4, <3>5 DEF InQueue
  <2>2. Before \cup (Service!Waiting \X {j}) \subseteq Jobs \X Jobs /\ Before' \subseteq Jobs \X Jobs
    BY DEF Before, Service!Waiting
  <2> QED BY <2>1, <2>2
<1> QED BY <1>1, <1>6, <1>8 DEF Service!Queue, Service!Moves

(* interruptJobStream is not seen by callers.                              *)
LEMMA InterruptRefines ==
  ASSUME QueueTypes, InterruptJobStream
  PROVE  UNCHANGED Service!vars
<1> USE JobsAssumption, JobsAreJobs
<1>1. UNCHANGED <<outcome, job, pc, call, child, result>>
  BY DEF InterruptJobStream, loopVars
<1>2. CASE UNCHANGED jobs
  BY <1>1, <1>2 DEF Service!vars, Stage, Before, InQueue, Progress
<1>3. CASE jobs' = <<NoJob>> \o jobs
  <2>1. /\ DOMAIN jobs = 1 .. Len(jobs) /\ DOMAIN jobs' = 1 .. Len(jobs) + 1
        /\ \A i \in DOMAIN jobs : jobs'[i + 1] = jobs[i]
        /\ jobs'[1] = NoJob
    BY <1>3, JobsPrepended
  <2>2. \A i \in DOMAIN jobs' : jobs'[i] # NoJob => i - 1 \in DOMAIN jobs /\ jobs'[i] = jobs[i - 1]
    BY <2>1 DEF QueueTypes
  <2>3. \A i \in DOMAIN jobs : i + 1 \in DOMAIN jobs' /\ jobs'[i + 1] = jobs[i]
    BY <2>1 DEF QueueTypes
  <2>4. \A k \in Jobs : InQueue(k)' <=> InQueue(k)
    BY <2>2, <2>3 DEF InQueue
  <2>5. UNCHANGED Stage
    BY <1>1, <2>4 DEF Stage, Progress
  <2>6. ASSUME NEW a \in Jobs, NEW b \in Jobs
        PROVE  <<a, b>> \in Before' <=> <<a, b>> \in Before
    <3>1. <<a, b>> \in Before' <=> \E i, k \in DOMAIN jobs' : i < k /\ a = jobs'[i] /\ b = jobs'[k]
      BY DEF Before
    <3>2. <<a, b>> \in Before <=> \E i, k \in DOMAIN jobs : i < k /\ a = jobs[i] /\ b = jobs[k]
      BY DEF Before
    <3>3. ASSUME NEW i \in DOMAIN jobs, NEW k \in DOMAIN jobs, i < k
          PROVE  i + 1 < k + 1
      BY <3>3
    <3>4. ASSUME NEW i \in DOMAIN jobs', NEW k \in DOMAIN jobs', i < k
          PROVE  i - 1 < k - 1
      BY <3>4, <2>1
    <3> QED BY <2>2, <2>3, <3>1, <3>2, <3>3, <3>4
  <2>7. UNCHANGED Before
    <3>1. Before' \subseteq Jobs \X Jobs /\ Before \subseteq Jobs \X Jobs
      BY DEF Before
    <3> QED BY <2>6, <3>1
  <2> QED BY <1>1, <2>5, <2>7 DEF Service!vars
<1> QED BY <1>2, <1>3 DEF InterruptJobStream

(* getNextJob begins the job that waited longest, when no other is begun,  *)
(* or finds what an interrupt left.                                        *)
LEMMA PopRefines ==
  ASSUME QueueTypes, ThreadTypes, LoopInv, ThreadInv, QueueInv, Pop
  PROVE  [\E j \in Jobs : Service!Begin(j)]_(Service!vars)
<1> USE JobsAssumption, JobsAreJobs
<1>1. job = NoJob /\ UNCHANGED <<outcome, child>>
  BY DEF Pop, LoopInv
<1>2. CASE jobs = << >>
  BY <1>1, <1>2 DEF Pop, Service!vars, Stage, Before, InQueue
<1>3. CASE jobs # << >>
  <2>1. jobs' = Tail(jobs)
    BY <1>3 DEF Pop
  <2>2. /\ DOMAIN jobs = 1 .. Len(jobs) /\ DOMAIN jobs' = 1 .. Len(jobs) - 1 /\ 1 \in DOMAIN jobs
        /\ \A i \in DOMAIN jobs' : jobs'[i] = jobs[i + 1]
        /\ Head(jobs) = jobs[1]
    BY <1>3, <2>1, JobTaken
  <2>3. \A i \in DOMAIN jobs' : i + 1 \in DOMAIN jobs /\ i + 1 # 1
    BY <2>2 DEF QueueTypes
  <2>4. \A i \in DOMAIN jobs : i = 1 \/ (i - 1 \in DOMAIN jobs' /\ jobs'[i - 1] = jobs[i])
    BY <2>2 DEF QueueTypes
  <2>5. \A k \in Jobs : InQueue(k)' <=> InQueue(k) /\ k # jobs[1]
    <3>1. ASSUME NEW k \in Jobs, NEW i \in DOMAIN jobs', jobs'[i] = k
          PROVE  InQueue(k) /\ k # jobs[1]
      BY <2>2, <2>3, <3>1 DEF InQueue, QueueInv
    <3> QED BY <2>4, <3>1 DEF InQueue
  <2>6. \A pair \in Before : pair[1] # jobs[1] => pair \in Before'
    <3> SUFFICES ASSUME NEW i \in DOMAIN jobs, NEW k \in DOMAIN jobs, i < k, <<jobs[i], jobs[k]>> \in Jobs \X Jobs, jobs[i] # jobs[1]
                 PROVE  <<jobs[i], jobs[k]>> \in Before'
      BY DEF Before
    <3>1. i # 1 /\ k # 1 /\ i - 1 < k - 1
      BY <2>2
    <3>2. /\ i - 1 \in DOMAIN jobs' /\ jobs'[i - 1] = jobs[i]
          /\ k - 1 \in DOMAIN jobs' /\ jobs'[k - 1] = jobs[k]
      BY <2>4, <3>1
    <3> QED BY <3>1, <3>2 DEF Before
  <2>7. \A pair \in Before' : pair \in Before /\ pair[1] # jobs[1]
    <3> SUFFICES ASSUME NEW i \in DOMAIN jobs', NEW k \in DOMAIN jobs', i < k, <<jobs'[i], jobs'[k]>> \in Jobs \X Jobs
                 PROVE  <<jobs'[i], jobs'[k]>> \in Before /\ jobs'[i] # jobs[1]
      BY DEF Before
    <3>1. i + 1 < k + 1 /\ i + 1 # 1
      BY <2>2
    <3>2. /\ i + 1 \in DOMAIN jobs /\ jobs'[i] = jobs[i + 1]
          /\ k + 1 \in DOMAIN jobs /\ jobs'[k] = jobs[k + 1]
      BY <2>2, <2>3
    <3>3. jobs[i + 1] # jobs[1]
      BY <2>2, <3>1, <3>2 DEF QueueInv
    <3> QED BY <3>1, <3>2, <3>3 DEF Before
  <2>8. Before' = {pair \in Before : pair[1] # jobs[1]}
    BY <2>6, <2>7
  <2>9. CASE jobs[1] = NoJob
    <3>1. UNCHANGED job
      BY <1>3, <2>2, <2>9 DEF Pop
    <3>2. UNCHANGED Stage
      BY <1>1, <2>5, <2>9, <3>1 DEF Stage
    <3>3. UNCHANGED Before
      BY <2>8, <2>9 DEF Before
    <3> QED BY <1>1, <3>2, <3>3 DEF Service!vars
  <2>10. CASE jobs[1] # NoJob
    <3> DEFINE j == jobs[1]
    <3>1. j \in Jobs /\ job' = j /\ call' = "sent" /\ pc' \in {"run", "invalidate"} /\ pc = "pop"
      BY <1>3, <2>2, <2>10 DEF Pop
    <3>2. child # "busy" /\ Progress' \in {"begun", "running"}
      BY <1>1, <3>1 DEF Progress, ThreadInv
    <3>3. Stage[j] = "waiting" /\ Stage'[j] = Progress'
      BY <1>1, <2>2, <3>1 DEF Stage, InQueue
    <3>4. \A k \in Jobs \ {j} : Stage'[k] = Stage[k]
      BY <1>1, <2>5, <3>1 DEF Stage
    <3>5. Stage = [k \in Jobs |-> Stage[k]] /\ Stage' = [k \in Jobs |-> Stage'[k]]
      BY DEF Stage
    <3>6. Stage' = [Stage EXCEPT ![j] = Progress']
      BY <3>1, <3>3, <3>4, <3>5
    <3>7. \A k \in Jobs : Stage[k] \notin Service!InProgress
      BY <1>1 DEF Stage, Service!InProgress
    <3>8. \A k \in Jobs : <<k, j>> \notin Before
      <4> SUFFICES ASSUME NEW i \in DOMAIN jobs, NEW k \in DOMAIN jobs, i < k, jobs[k] = jobs[1]
                   PROVE  FALSE
        BY DEF Before
      <4>1. k = 1
        BY <2>2, <2>10 DEF QueueInv
      <4> QED BY <4>1, <2>2
    <3> QED BY <1>1, <2>8, <3>1, <3>2, <3>3, <3>6, <3>7, <3>8 DEF Service!Begin, Service!Moves
  <2> QED BY <2>9, <2>10
<1> QED BY <1>2, <1>3

(* Nothing of a job is left when it is over, but what its caller knows.    *)
LEMMA JobIsOver ==
  ASSUME QueueTypes, QueueInv, job # NoJob, UNCHANGED jobs, job' = NoJob,
         NEW end \in {"ok", "failed"},
         outcome' = IF job \in runningJobs THEN [outcome EXCEPT ![job] = end] ELSE outcome
  PROVE  /\ UNCHANGED Before
         /\ Stage' = [Stage EXCEPT ![job] = "over"] /\ Stage[job] = Progress
         /\ Service!Tell(job, end)
<1> USE JobsAssumption, JobsAreJobs
<1>1. UNCHANGED Before /\ \A k \in Jobs : InQueue(k)' <=> InQueue(k)
  BY DEF Before, InQueue
<1>2. job \in Jobs /\ ~ InQueue(job) /\ outcome[job] = "queued"
  BY DEF QueueTypes, QueueInv, InQueue
<1>3. job \in runningJobs <=> job \notin Unwatched
  BY <1>2 DEF QueueInv
<1>4. \A k \in Jobs \ {job} : outcome'[k] = outcome[k]
  BY DEF QueueTypes
<1>5. outcome'[job] # "none"
  BY <1>2 DEF QueueTypes
<1>6. Stage'[job] = "over" /\ Stage[job] = Progress
  BY <1>1, <1>2, <1>5 DEF Stage
<1>7. \A k \in Jobs \ {job} : Stage'[k] = Stage[k]
  BY <1>1, <1>4 DEF Stage
<1>8. Stage = [k \in Jobs |-> Stage[k]] /\ Stage' = [k \in Jobs |-> Stage'[k]]
  BY DEF Stage
<1>9. Stage' = [Stage EXCEPT ![job] = "over"]
  BY <1>2, <1>6, <1>7, <1>8
<1> QED BY <1>1, <1>3, <1>6, <1>9 DEF Service!Tell

(* jobFinished answers,                                                    *)
LEMMA JobFinishedRefines ==
  ASSUME QueueTypes, LoopInv, QueueInv, JobFinished
  PROVE  job \in Jobs /\ Service!Answer(job)
<1>1. job # NoJob /\ Progress = result
  BY DEF JobFinished, LoopInv, Progress
<1>2. /\ UNCHANGED Before
      /\ Stage' = [Stage EXCEPT ![job] = "over"] /\ Stage[job] = result
      /\ Service!Tell(job, result)
  BY <1>1, JobIsOver DEF JobFinished, QueueTypes
<1>3. result \in {"ok", "failed"} /\ job \in Jobs
  BY <1>1 DEF QueueTypes
<1> QED BY <1>2, <1>3 DEF Service!Answer, Service!Moves

(* and the death of the worker process loses the job it worked on.         *)
LEMMA WorkerDiesRefines ==
  ASSUME QueueTypes, ThreadTypes, LoopInv, QueueInv, WorkerDies
  PROVE  [\E j \in Jobs : Service!Lose(j)]_(Service!vars)
<1>1. /\ UNCHANGED jobs /\ job' = NoJob
      /\ outcome' = [j \in Jobs |-> IF j \in runningJobs THEN "failed" ELSE outcome[j]]
  BY DEF WorkerDies
<1>2. CASE job = NoJob
  <2>1. UNCHANGED outcome
    BY <1>1, <1>2, JobsAssumption DEF QueueInv, QueueTypes
  <2> QED BY <1>1, <1>2, <2>1, StageSteps DEF QueueTypes, Service!vars
<1>3. CASE job # NoJob
  <2>1. outcome' = IF job \in runningJobs THEN [outcome EXCEPT ![job] = "failed"] ELSE outcome
    BY <1>1 DEF QueueInv, QueueTypes
  <2>2. /\ UNCHANGED Before
        /\ Stage' = [Stage EXCEPT ![job] = "over"] /\ Stage[job] = Progress
        /\ Service!Tell(job, "failed")
    BY <1>1, <1>3, <2>1, JobIsOver
  <2>3. Progress \in Service!InProgress /\ job \in Jobs
    BY <1>3 DEF Progress, QueueTypes, Service!InProgress
  <2> QED BY <2>2, <2>3 DEF Service!Lose, Service!Moves
<1> QED BY <1>2, <1>3

(***************************************************************************)
(* The theorems.                                                           *)
(***************************************************************************)

(* Every behaviour satisfies the inductive invariant.                      *)
LEMMA InvHolds == Spec => [](TypeOK /\ IInv)
<1>1. Init => TypeOK /\ IInv
  <2> SUFFICES ASSUME Init PROVE TypeOK /\ IInv
    OBVIOUS
  <2>1. DOMAIN jobs = {} /\ jobs \in Seq(Jobs \cup {NoJob})
    BY DEF Init
  <2>2. TypeOK
    <3>1. SwitchTypes
      BY Zenon DEF Init, SwitchTypes
    <3>2. QueueTypes /\ ThreadTypes /\ CounterTypes
      BY <2>1, BoundsAssumption DEF Init, QueueTypes, ThreadTypes, CounterTypes
    <3> QED BY <3>1, <3>2, TypeParts
  <2>3. IInv
    BY <2>1 DEF Init, Callers, IInv, LoopInv, ThreadInv, ReadyIsInitialised, QueueInv
  <2> QED BY <2>2, <2>3
<1>2. TypeOK /\ IInv /\ [Next]_vars => (TypeOK /\ IInv)'
  BY TypeParts, SwitchTypesStep, QueueTypesStep, ThreadTypesStep, CounterTypesStep,
     LoopStepKeeps, ThreadStepKeeps, QueueStep DEF IInv
<1> QED BY <1>1, <1>2, PTL DEF Spec

(* The variables of Meteor, the loop and the thread always hold what the   *)
(* types of worker.ts and parent-base.ts allow.                            *)
THEOREM TypeCorrect == Spec => []TypeOK
BY InvHolds, PTL

(* Whatever restarts meanwhile, the loop takes a thread for ready only     *)
(* while its init() has succeeded.                                         *)
THEOREM ReadyIsInitialisedHolds == Spec => []ReadyIsInitialised
<1>1. IInv => ReadyIsInitialised
  BY DEF IInv, ThreadInv
<1> QED BY <1>1, InvHolds, PTL

(* A job whose caller waits is in the queue, once, or is the one the loop  *)
(* is working on: queueJob, getNextJob, jobFinished and the death of the   *)
(* worker process neither lose nor double it.                              *)
THEOREM NoCallerForgottenHolds == Spec => []NoCallerForgotten
<1>1. TypeOK /\ IInv => NoCallerForgotten
  BY CallersAreKept, TypeParts DEF IInv
<1> QED BY <1>1, InvHolds, PTL

(* If every process can be killed, a job runs only while the watchdog      *)
(* waits for it or has begun to restart the thread.                        *)
THEOREM RunningJobIsWatchedHolds ==
  ASSUME "kill fails" \notin Faults
  PROVE  Spec => []RunningJobIsWatched
<1>1. Init => WatchedInv
  BY DEF Init, WatchedInv
<1>2. TypeOK /\ IInv /\ WatchedInv /\ [Next]_vars => WatchedInv'
  BY WatchedStep, TypeParts DEF IInv
<1>3. IInv /\ WatchedInv => RunningJobIsWatched
  BY DEF IInv, ThreadInv, WatchedInv, RunningJobIsWatched, Callers
<1> QED BY <1>1, <1>2, <1>3, InvHolds, PTL DEF Spec

(* If the change streams are open before anything changes and no reading   *)
(* of a change fails, a stale cache is always about to be read again.      *)
THEOREM NoInvalidationLostHolds ==
  ASSUME "invalidate fails" \notin Faults, EarlyChanges = FALSE
  PROVE  Spec => []NoInvalidationLost
<1>1. Init => NoInvalidationLost
  BY DEF Init, NoInvalidationLost
<1>2. TypeOK /\ IInv /\ NoInvalidationLost /\ [Next]_vars => NoInvalidationLost'
  BY InvalidationStep, TypeParts DEF IInv
<1> QED BY <1>1, <1>2, InvHolds, PTL DEF Spec

(* Every step of the queue, the loop, the restarts and the thread brings   *)
(* one job further as JobService allows, or is invisible to callers.       *)
THEOREM ImplementsJobServiceHolds == Spec => ImplementsJobService
<1>1. Init => Service!Init
  <2> SUFFICES ASSUME Init PROVE Service!Init
    OBVIOUS
  <2>1. DOMAIN jobs = {} /\ job = NoJob /\ outcome = [j \in Jobs |-> "none"]
    BY DEF Init
  <2>2. Before = {} /\ Stage = [j \in Jobs |-> "new"]
    BY <2>1, JobsAssumption DEF Before, Stage, InQueue
  <2> QED BY <2>1, <2>2 DEF Service!Init
<1>2. TypeOK /\ IInv /\ [Next]_vars => [Service!Next]_(Service!vars)
  <2> SUFFICES ASSUME TypeOK, IInv, [Next]_vars
               PROVE  [Service!Next]_(Service!vars)
    OBVIOUS
  <2> USE TypeParts DEF IInv
  <2>1. ASSUME NEW j \in Jobs, QueueJob(j)
        PROVE  Service!Next
    BY <2>1, QueueJobRefines DEF Service!Next
  <2>2. CASE InterruptJobStream
    BY <2>2, InterruptRefines
  <2>3. CASE Pop
    BY <2>3, PopRefines DEF Service!Next
  <2>4. CASE JobFinished
    BY <2>4, JobFinishedRefines DEF Service!Next
  <2>5. CASE WorkerDies
    BY <2>5, WorkerDiesRefines DEF Service!Next
  <2>6. CASE UNCHANGED <<jobs, runningJobs, outcome, job>>
    BY <2>6, ProgressStep, ProgressMade
  <2> QED BY <2>1, <2>2, <2>3, <2>4, <2>5, <2>6, OnlyQueueSteps
<1> QED BY <1>1, <1>2, InvHolds, PTL DEF Spec, ImplementsJobService, Service!Spec
=============================================================================

---------------------------- MODULE StudioLocks ----------------------------
(***************************************************************************)
(* The playlist and rundown locks of one studio: the LocksManager of the   *)
(* worker process (locks.ts), the LocksManager of each worker thread       *)
(* (workers/locks.ts), the job context that takes and releases locks       *)
(* (workers/context.ts) and as much of the worker loop (workers/           *)
(* parent-base.ts) as decides when the locks of a thread are freed.        *)
(*                                                                         *)
(* A thread is a child process.  What it sends to the worker process is    *)
(* handled in the order it was sent; a lockChanged call is an independent  *)
(* promise per lock.  A lock is one call of lockPlaylist or lockRundown:   *)
(* its id is a fresh random string, so that its thread and its resource    *)
(* are part of what it is.                                                 *)
(***************************************************************************)
EXTENDS Integers, Sequences, FiniteSets, Filter

CONSTANTS
  Threads,    \* the studio, ingest and events threads
  Resources,  \* "playlist:<id>" and "rundown:<id>"
  Ids,        \* lock ids: enough for the locks of a thread on a resource in flight at once
  Inner,      \* <<thread, outer, inner>>: a job of thread may take inner while it holds outer
  MaxLocks,   \* bound: the locks a thread has in use at once
  MayTimeout, \* whether a lock operation may run into its timeout
  MayCrash,   \* the threads that may die or be restarted
  MayTerminate, \* whether the worker set may be terminated
  MayAbandon  \* whether a handler may fail while parallel parts of it still run

ASSUME InnerAssumption == Inner \subseteq Threads \X Resources \X Resources
ASSUME MaxLocksAssumption == MaxLocks \in Nat

Locks == [thread : Threads, res : Resources, id : Ids]

NoHolder == [holder |-> "none"]

(* What a thread sends to the worker process: the two lock events, the     *)
(* result of runJob, and, put there by the operating system, the close of  *)
(* the process.                                                            *)
Event == [event : {"lock", "unlock"}, lock : Locks] \cup [event : {"result", "closed"}]

LockChanged == [lock : Locks, locked : BOOLEAN]

VARIABLES
  holder,      \* worker process: LockResource.holder
  waiting,     \* worker process: LockResource.waitingWorkers
  loop,        \* worker process: where the worker loop of a thread is
  terminating, \* worker process: threads whose terminate() was called
  toParent,    \* events on their way from a thread, oldest first
  calls,       \* lockChanged calls that the threads have not answered
  child,       \* the process of a thread
  acquiring,   \* thread: pendingLocks of aquire()
  releasing,   \* thread: pendingLocks of release()
  held,        \* thread: lock objects with isLocked
  abandoned    \* locks of a part of a handler that nothing awaits any more

parentVars == <<holder, waiting, loop, terminating>>
childVars == <<child, acquiring, releasing, held, abandoned>>
vars == <<parentVars, toParent, calls, childVars>>

Alive == {"ready", "busy", "cleaning"}

TypeOK ==
  /\ holder \in [Resources -> Locks \cup {NoHolder}]
  /\ waiting \in [Resources -> Seq(Locks)]
  /\ loop \in [Threads -> {"idle", "running", "cleanup", "leaving", "stopped"}]
  /\ terminating \subseteq Threads
  /\ toParent \in [Threads -> Seq(Event)]
  /\ calls \subseteq LockChanged
  /\ child \in [Threads -> Alive \cup {"crashed", "down"}]
  /\ acquiring \subseteq Locks
  /\ releasing \subseteq Locks
  /\ held \subseteq Locks
  /\ abandoned \subseteq Locks

Init ==
  /\ holder = [r \in Resources |-> NoHolder]
  /\ waiting = [r \in Resources |-> << >>]
  /\ loop = [t \in Threads |-> "idle"]
  /\ terminating = {}
  /\ toParent = [t \in Threads |-> << >>]
  /\ calls = {}
  /\ child = [t \in Threads |-> "down"]
  /\ acquiring = {}
  /\ releasing = {}
  /\ held = {}
  /\ abandoned = {}

-----------------------------------------------------------------------------
(* The lock table of the worker process. *)

Of(t, S) == {l \in S : l.thread = t}
NotOf(t, S) == {l \in S : l.thread # t}

(* The entries of q that are not of thread t, in order. *)
Without(q, t) == Only(q, NotOf(t, Locks))

(* Mutant: the holder is remembered by its thread only. *)
LockNextWorkerToThread(R, h, w, c) ==
  LET next == {r \in R : h[r] = NoHolder /\ w[r] # << >>}
  IN  /\ holder' = [r \in Resources |-> IF r \in next THEN Head(w[r]).thread ELSE h[r]]
      /\ waiting' = [r \in Resources |-> IF r \in next THEN Tail(w[r]) ELSE w[r]]
      /\ calls' = c \cup {[lock |-> Head(w[r]), locked |-> TRUE] : r \in next}

(* Mutant: the waiter that is granted the lock is not shifted. *)
LockNextWorkerWithoutShift(R, h, w, c) ==
  LET next == {r \in R : h[r] = NoHolder /\ w[r] # << >>}
  IN  /\ holder' = [r \in Resources |-> IF r \in next THEN Head(w[r]) ELSE h[r]]
      /\ waiting' = w
      /\ calls' = c \cup {[lock |-> Head(w[r]), locked |-> TRUE] : r \in next}

(* lockNextWorker for the resources R of the table (h, w): a free one goes *)
(* to its first waiter, which is told so.                                  *)
LockNextWorker(R, h, w, c) ==
  LET next == {r \in R : h[r] = NoHolder /\ w[r] # << >>}
  IN  /\ holder' = [r \in Resources |-> IF r \in next THEN Head(w[r]) ELSE h[r]]
      /\ waiting' = [r \in Resources |-> IF r \in next THEN Tail(w[r]) ELSE w[r]]
      /\ calls' = c \cup {[lock |-> Head(w[r]), locked |-> TRUE] : r \in next}

(* Mutant: whoever asks frees the resource. *)
FreedByAnyone(l) == [holder EXCEPT ![l.res] = NoHolder]

(* Frees the resource of lock l if l still has it. *)
FreedBy(l) == IF holder[l.res] = l THEN [holder EXCEPT ![l.res] = NoHolder] ELSE holder

OwnedBy(t) == {r \in Resources : holder[r] # NoHolder /\ holder[r].thread = t}

(* Mutant: the resources are freed, but not given to the next. *)
ReleaseAllWithoutNext(t) ==
  /\ holder' = [r \in Resources |-> IF r \in OwnedBy(t) THEN NoHolder ELSE holder[r]]
  /\ waiting' = [r \in Resources |-> Without(waiting[r], t)]
  /\ UNCHANGED calls

(* Mutant: the thread stays among the waiters. *)
ReleaseAllButWaiting(t) ==
  LockNextWorker(OwnedBy(t),
                 [r \in Resources |-> IF r \in OwnedBy(t) THEN NoHolder ELSE holder[r]],
                 waiting, calls)

(* releaseAllForThread *)
ReleaseAllForThread(t) ==
  LockNextWorker(OwnedBy(t),
                 [r \in Resources |-> IF r \in OwnedBy(t) THEN NoHolder ELSE holder[r]],
                 [r \in Resources |-> Without(waiting[r], t)],
                 calls)

(* Mutant: the newest request goes first. *)
HandleLockFirst(l) ==
  LockNextWorker({l.res}, holder, [waiting EXCEPT ![l.res] = <<l>> \o @], calls)

(* Mutant: an unlock does not look for the next waiter. *)
HandleUnlockOnly(l) ==
  /\ holder' = FreedBy(l)
  /\ calls' = IF holder[l.res] = l THEN calls \cup {[lock |-> l, locked |-> FALSE]} ELSE calls
  /\ UNCHANGED waiting

(* handleLockEvent *)
HandleLock(l) ==
  LockNextWorker({l.res}, holder, [waiting EXCEPT ![l.res] = Append(@, l)], calls)

HandleUnlock(l) ==
  LockNextWorker({l.res}, FreedBy(l), waiting,
                 IF holder[l.res] = l THEN calls \cup {[lock |-> l, locked |-> FALSE]}
                                      ELSE calls)

HandleEvent(t) ==
  /\ toParent[t] # << >>
  /\ toParent' = [toParent EXCEPT ![t] = Tail(@)]
  /\ LET e == Head(toParent[t])
     IN  \/ /\ e.event = "lock"
            /\ HandleLock(e.lock)
            /\ UNCHANGED <<loop, terminating, childVars>>
         \/ /\ e.event = "unlock"
            /\ HandleUnlock(e.lock)
            /\ UNCHANGED <<loop, terminating, childVars>>
         \/ /\ e.event = "result"
            /\ loop' = [loop EXCEPT ![t] = "cleanup"]
            /\ UNCHANGED <<holder, waiting, terminating, calls, childVars>>
         \/ /\ e.event = "closed"   \* the runJob call in progress, if any, is rejected
            /\ loop' = [loop EXCEPT ![t] = IF @ = "running" THEN "cleanup" ELSE @]
            /\ child' = [child EXCEPT ![t] = "down"]
            /\ UNCHANGED <<holder, waiting, terminating, calls,
                           acquiring, releasing, held, abandoned>>

(* Mutant: a failed call frees the resource, whoever has it by now. *)
LockChangeFailsAndFrees(c) ==
  /\ c \in calls
  /\ child[c.lock.thread] = "down"
  /\ LockNextWorker({c.lock.res}, [holder EXCEPT ![c.lock.res] = NoHolder], waiting, calls \ {c})
  /\ UNCHANGED <<loop, terminating, toParent, childVars>>

(* The call failed: the child was not there to take it. *)
LockChangeFails(c) ==
  /\ c \in calls
  /\ child[c.lock.thread] = "down"
  /\ IF c.locked
     THEN LockNextWorker({c.lock.res}, FreedBy(c.lock), waiting, calls \ {c})
     ELSE /\ calls' = calls \ {c}
          /\ UNCHANGED <<holder, waiting>>
  /\ UNCHANGED <<loop, terminating, toParent, childVars>>

-----------------------------------------------------------------------------
(* The worker loop of a thread, in the worker process. *)

InitWorker(t) ==
  /\ loop[t] = "idle"
  /\ t \notin terminating
  /\ child[t] = "down"
  /\ \A c \in calls : c.lock.thread # t   \* calls to the dead child are rejected by now
  /\ child' = [child EXCEPT ![t] = "ready"]
  /\ UNCHANGED <<parentVars, toParent, calls, acquiring, releasing, held, abandoned>>

(* The loop hands a job to the thread.  The thread may have died, or its   *)
(* termination have been asked for, since the loop looked: a job fails     *)
(* that finds the thread dead, and one still runs while it is terminated.  *)
StartJob(t) ==
  /\ loop[t] = "idle"
  /\ loop' = [loop EXCEPT ![t] = IF child[t] = "down" THEN "cleanup" ELSE "running"]
  /\ child' = [child EXCEPT ![t] = IF @ = "ready" THEN "busy" ELSE @]
  /\ UNCHANGED <<holder, waiting, terminating, toParent, calls,
                 acquiring, releasing, held, abandoned>>

(* "Ensure all locks have been freed after the job"; then the loop looks   *)
(* whether it is to go on.                                                 *)
ReleaseAll(t) ==
  /\ loop[t] = "cleanup"
  /\ ReleaseAllForThread(t)
  /\ loop' = [loop EXCEPT ![t] = IF t \in terminating THEN "leaving" ELSE "idle"]
  /\ UNCHANGED <<terminating, toParent, childVars>>

Terminate(t) ==
  /\ MayTerminate
  /\ t \notin terminating
  /\ ReleaseAllForThread(t)
  /\ terminating' = terminating \cup {t}
  /\ UNCHANGED <<loop, toParent, childVars>>

StopThread(t) ==
  /\ t \in terminating
  /\ loop[t] \in {"idle", "leaving"}
  /\ loop' = [loop EXCEPT ![t] = "stopped"]
  /\ child' = [child EXCEPT ![t] = "down"]
  /\ toParent' = [toParent EXCEPT ![t] = << >>]
  /\ acquiring' = NotOf(t, acquiring)
  /\ releasing' = NotOf(t, releasing)
  /\ held' = NotOf(t, held)
  /\ abandoned' = NotOf(t, abandoned)
  /\ UNCHANGED <<holder, waiting, terminating, calls>>

-----------------------------------------------------------------------------
(* The thread. *)

Emit(t, e) == toParent' = [toParent EXCEPT ![t] = Append(@, e)]

InUse == acquiring \cup releasing \cup held

(* A lock some message or table still names; a random id is never one.     *)
Known(l) ==
  \/ l \in InUse \cup abandoned
  \/ \E c \in calls : c.lock = l
  \/ \E r \in Resources : holder[r] = l \/ \E i \in DOMAIN waiting[r] : waiting[r][i] = l
  \/ \E t \in Threads : \E i \in DOMAIN toParent[t] :
       toParent[t][i].event \in {"lock", "unlock"} /\ toParent[t][i].lock = l

(* The locks of the job that t runs. *)
OfJob(t) == Of(t, InUse) \ abandoned

(* lockPlaylist, lockRundown: aquire().  try/finally nests the locks of a  *)
(* job, and no job takes an outer lock inside an inner one.                *)
Acquire(l) ==
  /\ child[l.thread] = "busy"
  /\ ~ Known(l)
  /\ Cardinality(Of(l.thread, InUse)) < MaxLocks
  /\ \A k \in OfJob(l.thread) : <<l.thread, l.res, k.res>> \notin Inner
  /\ acquiring' = acquiring \cup {l}
  /\ Emit(l.thread, [event |-> "lock", lock |-> l])
  /\ UNCHANGED <<parentVars, calls, child, releasing, held, abandoned>>

(* release(), at the end of the try block of the lock, or of whatever is   *)
(* still held when the handler is over: by cleanupResources, which awaits  *)
(* it, or by the part of the handler that took it, which nothing awaits.   *)
Release(l) ==
  /\ l \in held
  /\ child[l.thread] \in Alive
  /\ \/ child[l.thread] = "cleaning"
     \/ \A k \in OfJob(l.thread) : <<l.thread, l.res, k.res>> \notin Inner
  /\ held' = held \ {l}
  /\ releasing' = releasing \cup {l}
  /\ \/ child[l.thread] = "cleaning" /\ abandoned' \in {abandoned \ {l}, abandoned \cup {l}}
     \/ child[l.thread] # "cleaning" /\ UNCHANGED abandoned
  /\ Emit(l.thread, [event |-> "unlock", lock |-> l])
  /\ UNCHANGED <<parentVars, calls, child, acquiring>>

(* lockChange(): changeEvent settles the operation that waits for it.  One *)
(* that nobody waits for is logged and dropped.                            *)
LockChange(c) ==
  /\ c \in calls
  /\ child[c.lock.thread] \in Alive
  /\ calls' = calls \ {c}
  /\ acquiring' = acquiring \ {c.lock}
  /\ releasing' = releasing \ {c.lock}
  /\ held' = IF c.locked /\ c.lock \in acquiring THEN held \cup {c.lock} ELSE held
  /\ abandoned' = IF c.lock \in held' THEN abandoned ELSE abandoned \ {c.lock}
  /\ UNCHANGED <<parentVars, toParent, child>>

AcquireTimeout(l) ==
  /\ MayTimeout
  /\ l \in acquiring
  /\ acquiring' = acquiring \ {l}
  /\ abandoned' = abandoned \ {l}
  /\ UNCHANGED <<parentVars, toParent, calls, child, releasing, held>>

ReleaseTimeout(l) ==
  /\ MayTimeout
  /\ l \in releasing
  /\ releasing' = releasing \ {l}
  /\ abandoned' = abandoned \ {l}
  /\ UNCHANGED <<parentVars, toParent, calls, child, acquiring, held>>

(* The job handler is over. *)
HandlerReturns(t) ==
  /\ child[t] = "busy"
  /\ OfJob(t) = {}
  /\ child' = [child EXCEPT ![t] = "cleaning"]
  /\ UNCHANGED <<parentVars, toParent, calls, acquiring, releasing, held, abandoned>>

(* One part of a Promise.all failed: the handler is over, its other parts  *)
(* are not, and go on with the requests and releases they have made.       *)
HandlerAbandons(t) ==
  /\ MayAbandon
  /\ child[t] = "busy"
  /\ OfJob(t) # {}
  /\ child' = [child EXCEPT ![t] = "cleaning"]
  /\ abandoned' = abandoned \cup Of(t, acquiring \cup releasing)
  /\ UNCHANGED <<parentVars, toParent, calls, acquiring, releasing, held>>

(* cleanupResources has released what was left: runJob returns.  It does   *)
(* not wait for what others release, and does not see what is granted now. *)
FinishJob(t) ==
  /\ child[t] = "cleaning"
  /\ Of(t, held \cup releasing) \subseteq abandoned
  /\ child' = [child EXCEPT ![t] = "ready"]
  /\ Emit(t, [event |-> "result"])
  /\ UNCHANGED <<parentVars, calls, acquiring, releasing, held, abandoned>>

(* The process dies: by itself, or killed by the watchdog of the loop.     *)
(* Events that had not arrived are lost.                                   *)
Crash(t) ==
  /\ t \in MayCrash
  /\ child[t] \in Alive
  /\ child' = [child EXCEPT ![t] = "crashed"]
  /\ \E n \in 0 .. Len(toParent[t]) :
       toParent' = [toParent EXCEPT ![t] = Append(SubSeq(@, 1, n), [event |-> "closed"])]
  /\ acquiring' = NotOf(t, acquiring)
  /\ releasing' = NotOf(t, releasing)
  /\ held' = NotOf(t, held)
  /\ abandoned' = NotOf(t, abandoned)
  /\ UNCHANGED <<parentVars, calls>>

-----------------------------------------------------------------------------
ThreadStep(t) ==
  \/ HandleEvent(t)
  \/ InitWorker(t) \/ StartJob(t) \/ ReleaseAll(t) \/ Terminate(t) \/ StopThread(t)
  \/ HandlerReturns(t) \/ HandlerAbandons(t) \/ FinishJob(t) \/ Crash(t)

LockStep(l) == Acquire(l) \/ Release(l) \/ AcquireTimeout(l) \/ ReleaseTimeout(l)

CallStep(c) == LockChange(c) \/ LockChangeFails(c)

Next ==
  \/ \E t \in Threads : ThreadStep(t)
  \/ \E l \in Locks : LockStep(l)
  \/ \E c \in calls : CallStep(c)

Spec == Init /\ [][Next]_vars

(* The event loops of the processes turn, a closed process is restarted,   *)
(* and a handler leaves each of its critical sections.  Nothing makes a    *)
(* job start, ask for a lock, time out, crash or terminate.                *)
Fairness ==
  /\ \A t \in Threads :
       /\ WF_vars(HandleEvent(t))
       /\ WF_vars(InitWorker(t))
       /\ WF_vars(ReleaseAll(t))
       /\ WF_vars(HandlerReturns(t))
       /\ WF_vars(FinishJob(t))
  /\ \A l \in Locks :
       /\ SF_vars(Release(l))
       /\ \A b \in BOOLEAN : WF_vars(CallStep([lock |-> l, locked |-> b]))

FairSpec == Spec /\ Fairness

-----------------------------------------------------------------------------
(* Properties. *)

(* A lock that still protects: its thread is not being terminated, and the *)
(* part of the handler that took it is still awaited.                      *)
Protecting == {l \in held : l.thread \notin terminating /\ l \notin abandoned}

(* No two critical sections on one playlist or rundown at a time, whatever *)
(* crashes, timeouts and late messages do (locks.ts, workers/locks.ts).    *)
MutualExclusion == \A k, l \in Protecting : k.res = l.res => k = l

(* The lock table of the worker process never forgets a waiter: a resource *)
(* without a holder has nobody waiting, also after a refused grant, a      *)
(* death of the holder or a release in bulk (lockNextWorker).              *)
NoForgottenWaiter == \A r \in Resources : holder[r] = NoHolder => waiting[r] = << >>

(* Between two jobs a thread neither holds nor waits for anything in the   *)
(* table, although locks that timed out in the thread were never taken     *)
(* back from it (releaseAllForThread after the job).                       *)
NothingLeftBetweenJobs ==
  \A t \in Threads :
    loop[t] \in {"idle", "leaving", "stopped"} =>
      \A r \in Resources :
        /\ holder[r] # NoHolder => holder[r].thread # t
        /\ \A i \in DOMAIN waiting[r] : waiting[r][i].thread # t

(* A lock is in the table at most once, as holder or as one waiter: no     *)
(* second grant of it can follow its release.                              *)
InTableOnce ==
  \A r, s \in Resources :
    /\ holder[r] \in Locks =>
         \A i \in DOMAIN waiting[s] : waiting[s][i] # holder[r]
    /\ \A i \in DOMAIN waiting[r], j \in DOMAIN waiting[s] :
         waiting[r][i] = waiting[s][j] => r = s /\ i = j

(* Locks are granted in the order their requests arrived: of whoever still *)
(* waits, nobody who came later gets ahead, in the queue or by being       *)
(* granted the resource (handleLockEvent, lockNextWorker).                 *)
NoOvertaking ==
  [][\A r \in Resources : \A i \in DOMAIN waiting[r], k \in DOMAIN waiting'[r] :
       waiting'[r][k] = waiting[r][i] =>
         /\ \A j \in 1 .. k - 1 : \E h \in 1 .. i - 1 : waiting'[r][j] = waiting[r][h]
         /\ holder'[r] \in Locks \ {holder[r]} =>
              \E h \in 1 .. i - 1 : holder'[r] = waiting[r][h]]_vars

(* Without a single timeout every request of an orderly job is granted:    *)
(* no deadlock between jobs that hold one lock and wait for another, no    *)
(* grant lost between the processes, whatever crashes.                     *)
EveryRequestGranted == \A l \in Locks : l \in acquiring ~> l \notin acquiring

(* The whole implements the abstract lock service.  To a job, a critical   *)
(* section begins when the thread hears of its lock, and ends when it      *)
(* gives the lock back, dies, or is terminated (context.ts, locks.ts).     *)
Service == INSTANCE LockService WITH inside <- Protecting

ImplementsLockService == Service!Spec

-----------------------------------------------------------------------------
(* The inductive invariant behind MutualExclusion. *)

GrantOf(l) == [lock |-> l, locked |-> TRUE]

(* A lock that is held, or whose grant is on its way to a thread that      *)
(* waits for it, is the holder of its resource in the worker process.      *)
GuardedIsHolder ==
  \A l \in held \cup acquiring :
    /\ l \in held \/ GrantOf(l) \in calls
    /\ l.thread \notin terminating
    /\ l \notin abandoned
    => holder[l.res] = l

(* A lock that is released is neither held nor asked for again. *)
ReleasedIsGone ==
  \A t \in Threads : \A i \in DOMAIN toParent[t] :
    toParent[t][i].event = "unlock" =>
      /\ toParent[t][i].lock \notin held
      /\ toParent[t][i].lock \notin acquiring

WaitingInPlace == \A r \in Resources : \A i \in DOMAIN waiting[r] : waiting[r][i].res = r

(* A dead thread has no locks; one whose handler is over asks for nothing  *)
(* and, once its job is finished, holds nothing that is still awaited.     *)
LocksOfThread ==
  \A l \in held \cup acquiring :
    /\ child[l.thread] \in Alive
    /\ child[l.thread] = "cleaning" => l \in held \cup abandoned
    /\ child[l.thread] = "ready" => l \in abandoned

(* The loop frees the locks of a thread only when its job is over: the     *)
(* result is sent once, after the job, and the close of the process is the *)
(* last thing that is heard of it.                                         *)
JobEndsOnce ==
  \A t \in Threads :
    /\ child[t] \in {"busy", "cleaning"} => loop[t] = "running"
    /\ \A i \in DOMAIN toParent[t] :
         /\ toParent[t][i].event = "result" =>
              /\ loop[t] = "running"
              /\ child[t] \notin {"busy", "cleaning"}
              /\ \A j \in DOMAIN toParent[t] : toParent[t][j].event = "result" => i = j
         /\ toParent[t][i].event = "closed" => child[t] = "crashed" /\ i = Len(toParent[t])

Disjoint ==
  /\ acquiring \cap held = {}
  /\ releasing \cap (acquiring \cup held) = {}

Inv == Disjoint /\ GuardedIsHolder /\ ReleasedIsGone /\ LocksOfThread /\ JobEndsOnce

IInv == TypeOK /\ WaitingInPlace /\ Inv

-----------------------------------------------------------------------------
(* The inductive invariant behind InTableOnce, NothingLeftBetweenJobs and  *)
(* NoOvertaking.                                                           *)

InTable(l) ==
  \E r \in Resources : holder[r] = l \/ \E i \in DOMAIN waiting[r] : waiting[r][i] = l

HolderInPlace == \A r \in Resources : holder[r] \in Locks => holder[r].res = r

IsRequest(e) == e.event = "lock"

(* A request on its way is of its own thread, and the first and only one   *)
(* of its lock: the table does not know the lock yet.                      *)
RequestsAreNew ==
  \A t \in Threads : \A i \in DOMAIN toParent[t] :
    IsRequest(toParent[t][i]) =>
      /\ toParent[t][i].lock.thread = t
      /\ ~ InTable(toParent[t][i].lock)
      /\ \A j \in DOMAIN toParent[t] :
           IsRequest(toParent[t][j]) /\ toParent[t][j].lock = toParent[t][i].lock => i = j

(* A request arrives while its job runs, ahead of the end of the job. *)
RequestsPrecedeResult ==
  \A t \in Threads : \A i \in DOMAIN toParent[t] :
    IsRequest(toParent[t][i]) =>
      /\ loop[t] = "running"
      /\ \A j \in 1 .. i : toParent[t][j].event \notin {"result", "closed"}

TableInv ==
  HolderInPlace /\ InTableOnce /\ RequestsAreNew /\ RequestsPrecedeResult /\ NothingLeftBetweenJobs
=============================================================================

------------------------- MODULE StudioLocks_proofs -------------------------
(***************************************************************************)
(* Type correctness and mutual exclusion of StudioLocks; then what its     *)
(* lock table contains, and in which order: a lock is in it at most once,  *)
(* nothing is left of a job that is over, and no request overtakes         *)
(* another.  For any threads, resources, lock ids and bound.               *)
(***************************************************************************)
EXTENDS StudioLocks, Filter_proofs

(***************************************************************************)
(* The filter of releaseAllForThread.                                      *)
(***************************************************************************)

(* releaseAllForThread keeps only entries of the queue, none of the        *)
(* thread.                                                                 *)
LEMMA WithoutLemma ==
  ASSUME NEW q \in Seq(Locks), NEW t
  PROVE  /\ Without(q, t) \in Seq(Locks)
         /\ \A k \in DOMAIN Without(q, t) :
              \E i \in DOMAIN q : Without(q, t)[k] = q[i] /\ q[i].thread # t
<1>1. \A l \in NotOf(t, Locks) : l.thread # t
  BY DEF NotOf
<1> QED BY <1>1, OnlyHas DEF Without

(***************************************************************************)
(* lockNextWorker and releaseAllForThread on a lock table.                 *)
(***************************************************************************)

(* lockNextWorker takes no resource away, grants only free ones, and what  *)
(* it grants is recorded in the table.                                     *)
LEMMA LockNextWorkerLemma ==
  ASSUME NEW STATE R, NEW STATE h, NEW STATE w, NEW STATE c,
         h \in [Resources -> Locks \cup {NoHolder}],
         w \in [Resources -> Seq(Locks)],
         c \subseteq LockChanged,
         \A r \in Resources : \A i \in DOMAIN w[r] : w[r][i].res = r,
         R \subseteq Resources,
         LockNextWorker(R, h, w, c)
  PROVE  /\ holder' \in [Resources -> Locks \cup {NoHolder}]
         /\ waiting' \in [Resources -> Seq(Locks)]
         /\ calls' \subseteq LockChanged
         /\ WaitingInPlace'
         /\ \A r \in Resources : h[r] # NoHolder => holder'[r] = h[r]
         /\ \A l \in Locks : GrantOf(l) \in calls' => GrantOf(l) \in c \/ holder'[l.res] = l
<1> DEFINE next == {r \in R : h[r] = NoHolder /\ w[r] # << >>}
<1>1. /\ holder' = [r \in Resources |-> IF r \in next THEN Head(w[r]) ELSE h[r]]
      /\ waiting' = [r \in Resources |-> IF r \in next THEN Tail(w[r]) ELSE w[r]]
      /\ calls' = c \cup {[lock |-> Head(w[r]), locked |-> TRUE] : r \in next}
  BY DEF LockNextWorker
<1>2. \A r \in next : /\ r \in Resources
                      /\ Head(w[r]) \in Locks
                      /\ Head(w[r]).res = r
                      /\ Tail(w[r]) \in Seq(Locks)
                      /\ \A i \in DOMAIN Tail(w[r]) : Tail(w[r])[i].res = r
  <2> SUFFICES ASSUME NEW r \in next
               PROVE  /\ r \in Resources
                      /\ Head(w[r]) \in Locks
                      /\ Head(w[r]).res = r
                      /\ Tail(w[r]) \in Seq(Locks)
                      /\ \A i \in DOMAIN Tail(w[r]) : Tail(w[r])[i].res = r
    OBVIOUS
  <2>1. r \in Resources /\ w[r] \in Seq(Locks) /\ w[r] # << >>
    OBVIOUS
  <2>2. \A i \in DOMAIN w[r] : w[r][i].res = r
    BY <2>1
  <2> HIDE DEF next
  <2>3. Head(w[r]) = w[r][1] /\ 1 \in DOMAIN w[r] /\ w[r][1] \in Locks
    BY <2>1
  <2>4. /\ Tail(w[r]) \in Seq(Locks)
        /\ \A i \in DOMAIN Tail(w[r]) : i + 1 \in DOMAIN w[r] /\ Tail(w[r])[i] = w[r][i + 1]
    BY <2>1
  <2> QED BY <2>1, <2>2, <2>3, <2>4
<1>3. \A r \in Resources : h[r] # NoHolder => r \notin next
  OBVIOUS
<1> HIDE DEF next
<1>4. holder' \in [Resources -> Locks \cup {NoHolder}]
  BY <1>1, <1>2
<1>5. waiting' \in [Resources -> Seq(Locks)]
  BY <1>1, <1>2
<1>6. calls' \subseteq LockChanged
  <2>1. \A r \in next : [lock |-> Head(w[r]), locked |-> TRUE] \in LockChanged
    BY <1>2 DEF LockChanged
  <2> QED BY <1>1, <2>1
<1>7. WaitingInPlace'
  BY <1>1, <1>2 DEF WaitingInPlace
<1>8. \A r \in Resources : h[r] # NoHolder => holder'[r] = h[r]
  BY <1>1, <1>3
<1>9. \A l \in Locks : GrantOf(l) \in calls' => GrantOf(l) \in c \/ holder'[l.res] = l
  <2> SUFFICES ASSUME NEW l \in Locks, GrantOf(l) \in calls', GrantOf(l) \notin c
               PROVE  holder'[l.res] = l
    OBVIOUS
  <2>1. PICK r \in next : GrantOf(l) = [lock |-> Head(w[r]), locked |-> TRUE]
    BY <1>1
  <2>2. l = Head(w[r])
    BY <2>1 DEF GrantOf
  <2>3. l.res = r /\ r \in Resources
    BY <1>2, <2>2
  <2> QED BY <1>1, <2>2, <2>3
<1> QED BY <1>4, <1>5, <1>6, <1>7, <1>8, <1>9

(* releaseAllForThread keeps the holders of the other threads. *)
LEMMA ReleaseAllLemma ==
  ASSUME TypeOK, WaitingInPlace, NEW t \in Threads, ReleaseAllForThread(t)
  PROVE  /\ holder' \in [Resources -> Locks \cup {NoHolder}]
         /\ waiting' \in [Resources -> Seq(Locks)]
         /\ calls' \subseteq LockChanged
         /\ WaitingInPlace'
         /\ \A l \in Locks : holder[l.res] = l /\ l.thread # t => holder'[l.res] = l
         /\ \A l \in Locks : GrantOf(l) \in calls' => GrantOf(l) \in calls \/ holder'[l.res] = l
<1> DEFINE h == [r \in Resources |-> IF r \in OwnedBy(t) THEN NoHolder ELSE holder[r]]
           w == [r \in Resources |-> Without(waiting[r], t)]
<1>1. h \in [Resources -> Locks \cup {NoHolder}]
  BY DEF TypeOK
<1>2. \A r \in Resources :
        /\ Without(waiting[r], t) \in Seq(Locks)
        /\ \A k \in DOMAIN Without(waiting[r], t) : Without(waiting[r], t)[k].res = r
  <2> SUFFICES ASSUME NEW r \in Resources
               PROVE  /\ Without(waiting[r], t) \in Seq(Locks)
                      /\ \A k \in DOMAIN Without(waiting[r], t) : Without(waiting[r], t)[k].res = r
    OBVIOUS
  <2>1. waiting[r] \in Seq(Locks)
    BY DEF TypeOK
  <2>2. /\ Without(waiting[r], t) \in Seq(Locks)
        /\ \A k \in DOMAIN Without(waiting[r], t) :
             \E i \in DOMAIN waiting[r] : Without(waiting[r], t)[k] = waiting[r][i]
    BY <2>1, WithoutLemma
  <2>3. \A i \in DOMAIN waiting[r] : waiting[r][i].res = r
    BY DEF WaitingInPlace
  <2> QED BY <2>2, <2>3
<1>3. w \in [Resources -> Seq(Locks)]
  BY <1>2
<1>4. \A r \in Resources : \A i \in DOMAIN w[r] : w[r][i].res = r
  BY <1>2
<1>5. LockNextWorker(OwnedBy(t), h, w, calls)
  BY DEF ReleaseAllForThread
<1>6. OwnedBy(t) \subseteq Resources /\ calls \subseteq LockChanged
  BY DEF OwnedBy, TypeOK
<1>7. \A l \in Locks : holder[l.res] = l /\ l.thread # t => h[l.res] = l /\ l # NoHolder
  <2> SUFFICES ASSUME NEW l \in Locks, holder[l.res] = l, l.thread # t
               PROVE  h[l.res] = l /\ l # NoHolder
    OBVIOUS
  <2>1. l.res \in Resources /\ l # NoHolder
    BY DEF Locks, NoHolder
  <2>2. l.res \notin OwnedBy(t)
    BY DEF OwnedBy
  <2> QED BY <2>1, <2>2
<1>8. \A l \in Locks : l.res \in Resources
  BY DEF Locks
<1> HIDE DEF h, w
<1>9. /\ holder' \in [Resources -> Locks \cup {NoHolder}]
      /\ waiting' \in [Resources -> Seq(Locks)]
      /\ calls' \subseteq LockChanged
      /\ WaitingInPlace'
      /\ \A r \in Resources : h[r] # NoHolder => holder'[r] = h[r]
      /\ \A l \in Locks : GrantOf(l) \in calls' => GrantOf(l) \in calls \/ holder'[l.res] = l
  BY <1>1, <1>3, <1>4, <1>5, <1>6, LockNextWorkerLemma
<1> QED BY <1>7, <1>8, <1>9

(***************************************************************************)
(* Type correctness.  The type of the lock table depends on the entries of *)
(* a queue being locks of its own resource, so the two go together.        *)
(***************************************************************************)

LEMMA FreedByType ==
  ASSUME TypeOK, NEW l \in Locks
  PROVE  /\ l.res \in Resources
         /\ l.thread \in Threads
         /\ FreedBy(l) \in [Resources -> Locks \cup {NoHolder}]
         /\ \A k \in Locks : holder[k.res] = k /\ k # l => FreedBy(l)[k.res] = k
<1>1. l.res \in Resources /\ l.thread \in Threads
  BY DEF Locks
<1>2. \A k \in Locks : k.res \in Resources
  BY DEF Locks
<1> QED BY <1>1, <1>2 DEF FreedBy, TypeOK

(* A queue and its tail. *)
LEMMA TailOfSeq ==
  ASSUME NEW S, NEW q \in Seq(S), q # << >>
  PROVE  /\ 1 \in DOMAIN q /\ Head(q) = q[1] /\ Head(q) \in S
         /\ Len(q) \in Nat \ {0}
         /\ Tail(q) \in Seq(S)
         /\ Len(Tail(q)) = Len(q) - 1
         /\ \A i \in DOMAIN Tail(q) :
              i \in Nat \ {0} /\ i + 1 \in DOMAIN q /\ Tail(q)[i] = q[i + 1]
OBVIOUS

(* A queue and one entry more. *)
LEMMA AppendToSeq ==
  ASSUME NEW S, NEW q \in Seq(S), NEW x \in S
  PROVE  /\ Append(q, x) \in Seq(S)
         /\ \A i \in DOMAIN Append(q, x) :
              \/ i \in DOMAIN q /\ Append(q, x)[i] = q[i]
              \/ i = Len(q) + 1 /\ Append(q, x)[i] = x
OBVIOUS

(* A lock event takes nothing away. *)
LEMMA HandleLockLemma ==
  ASSUME TypeOK, WaitingInPlace, NEW l \in Locks, HandleLock(l)
  PROVE  /\ holder' \in [Resources -> Locks \cup {NoHolder}]
         /\ waiting' \in [Resources -> Seq(Locks)]
         /\ calls' \subseteq LockChanged
         /\ WaitingInPlace'
         /\ \A k \in Locks : holder[k.res] = k => holder'[k.res] = k
         /\ \A k \in Locks : GrantOf(k) \in calls' => GrantOf(k) \in calls \/ holder'[k.res] = k
<1> DEFINE w == [waiting EXCEPT ![l.res] = Append(@, l)]
<1>1. l.res \in Resources
  BY DEF Locks
<1>2. w \in [Resources -> Seq(Locks)]
  <2>1. Append(waiting[l.res], l) \in Seq(Locks)
    BY <1>1 DEF TypeOK
  <2> QED BY <1>1, <2>1 DEF TypeOK
<1>3. \A r \in Resources : \A i \in DOMAIN w[r] : w[r][i].res = r
  <2> SUFFICES ASSUME NEW r \in Resources
               PROVE  \A i \in DOMAIN w[r] : w[r][i].res = r
    OBVIOUS
  <2>1. waiting[r] \in Seq(Locks) /\ \A j \in DOMAIN waiting[r] : waiting[r][j].res = r
    BY DEF TypeOK, WaitingInPlace
  <2>2. CASE r = l.res
    <3>1. w[r] = Append(waiting[r], l)
      BY <1>1, <2>2 DEF TypeOK
    <3> HIDE DEF w
    <3>2. \A i \in DOMAIN w[r] :
            (i \in DOMAIN waiting[r] /\ w[r][i] = waiting[r][i]) \/ w[r][i] = l
      BY <2>1, <3>1, AppendToSeq
    <3> QED BY <2>1, <2>2, <3>2
  <2>3. CASE r # l.res
    <3>1. w[r] = waiting[r]
      BY <2>3 DEF TypeOK
    <3> QED BY <2>1, <3>1
  <2> QED BY <2>2, <2>3
<1>4. LockNextWorker({l.res}, holder, w, calls)
  BY DEF HandleLock
<1> HIDE DEF w
<1>5. /\ holder \in [Resources -> Locks \cup {NoHolder}]
      /\ calls \subseteq LockChanged
      /\ {l.res} \subseteq Resources
  BY <1>1 DEF TypeOK
<1>6. /\ holder' \in [Resources -> Locks \cup {NoHolder}]
      /\ waiting' \in [Resources -> Seq(Locks)]
      /\ calls' \subseteq LockChanged
      /\ WaitingInPlace'
      /\ \A r \in Resources : holder[r] # NoHolder => holder'[r] = holder[r]
      /\ \A k \in Locks : GrantOf(k) \in calls' => GrantOf(k) \in calls \/ holder'[k.res] = k
  BY <1>2, <1>3, <1>4, <1>5, LockNextWorkerLemma
<1>7. \A k \in Locks : k.res \in Resources /\ k # NoHolder
  BY DEF Locks, NoHolder
<1> QED BY <1>6, <1>7

(* The resource of a lock is freed, if the lock has it, and goes to the    *)
(* next one: of an unlock event, and of a grant that did not arrive.       *)
LEMMA FreeAndNext ==
  ASSUME TypeOK, WaitingInPlace, NEW l \in Locks, NEW STATE c, c \subseteq LockChanged,
         \A k \in Locks : GrantOf(k) \in c => GrantOf(k) \in calls,
         LockNextWorker({l.res}, FreedBy(l), waiting, c)
  PROVE  /\ holder' \in [Resources -> Locks \cup {NoHolder}]
         /\ waiting' \in [Resources -> Seq(Locks)]
         /\ calls' \subseteq LockChanged
         /\ WaitingInPlace'
         /\ \A k \in Locks : holder[k.res] = k /\ k # l => holder'[k.res] = k
         /\ \A k \in Locks : GrantOf(k) \in calls' => GrantOf(k) \in calls \/ holder'[k.res] = k
<1>1. /\ FreedBy(l) \in [Resources -> Locks \cup {NoHolder}]
      /\ \A k \in Locks : holder[k.res] = k /\ k # l => FreedBy(l)[k.res] = k
      /\ waiting \in [Resources -> Seq(Locks)]
      /\ \A r \in Resources : \A i \in DOMAIN waiting[r] : waiting[r][i].res = r
      /\ {l.res} \subseteq Resources
  BY FreedByType DEF TypeOK, WaitingInPlace
<1>2. /\ holder' \in [Resources -> Locks \cup {NoHolder}]
      /\ waiting' \in [Resources -> Seq(Locks)]
      /\ calls' \subseteq LockChanged
      /\ WaitingInPlace'
      /\ \A r \in Resources : FreedBy(l)[r] # NoHolder => holder'[r] = FreedBy(l)[r]
      /\ \A k \in Locks : GrantOf(k) \in calls' => GrantOf(k) \in c \/ holder'[k.res] = k
  BY <1>1, LockNextWorkerLemma
<1>3. \A k \in Locks : k.res \in Resources /\ k # NoHolder
  BY DEF Locks, NoHolder
<1> QED BY <1>1, <1>2, <1>3

(* An unlock event takes the resource from no other lock. *)
LEMMA HandleUnlockLemma ==
  ASSUME TypeOK, WaitingInPlace, NEW l \in Locks, HandleUnlock(l)
  PROVE  /\ holder' \in [Resources -> Locks \cup {NoHolder}]
         /\ waiting' \in [Resources -> Seq(Locks)]
         /\ calls' \subseteq LockChanged
         /\ WaitingInPlace'
         /\ \A k \in Locks : holder[k.res] = k /\ k # l => holder'[k.res] = k
         /\ \A k \in Locks : GrantOf(k) \in calls' => GrantOf(k) \in calls \/ holder'[k.res] = k
<1> DEFINE c == IF holder[l.res] = l THEN calls \cup {[lock |-> l, locked |-> FALSE]} ELSE calls
<1>1. c \subseteq LockChanged
  <2>1. [lock |-> l, locked |-> FALSE] \in LockChanged
    BY DEF LockChanged
  <2> QED BY <2>1 DEF TypeOK
<1>2. \A k \in Locks : GrantOf(k) \in c => GrantOf(k) \in calls
  <2>1. \A k \in Locks : GrantOf(k) # [lock |-> l, locked |-> FALSE]
    BY DEF GrantOf
  <2> QED BY <2>1
<1>3. LockNextWorker({l.res}, FreedBy(l), waiting, c)
  BY DEF HandleUnlock
<1> HIDE DEF c
<1> QED BY <1>1, <1>2, <1>3, FreeAndNext

LEMMA TypeStep ==
  ASSUME TypeOK, WaitingInPlace, [Next]_vars
  PROVE  TypeOK' /\ WaitingInPlace'
<1> USE DEF Alive
<1>1. CASE UNCHANGED vars
  BY <1>1 DEF vars, parentVars, childVars, TypeOK, WaitingInPlace
<1>2. ASSUME NEW t \in Threads, HandleEvent(t)
      PROVE  TypeOK' /\ WaitingInPlace'
  <2> DEFINE e == Head(toParent[t])
  <2>1. toParent' \in [Threads -> Seq(Event)] /\ e \in Event
    <3>1. toParent[t] \in Seq(Event) /\ toParent[t] # << >>
      BY <1>2 DEF HandleEvent, TypeOK
    <3>2. Tail(toParent[t]) \in Seq(Event) /\ Head(toParent[t]) \in Event
      BY <3>1
    <3>3. toParent' = [toParent EXCEPT ![t] = Tail(@)]
      BY <1>2 DEF HandleEvent
    <3> QED BY <3>2, <3>3 DEF TypeOK
  <2> HIDE DEF e
  <2>2. CASE e.event = "lock" /\ HandleLock(e.lock) /\ UNCHANGED <<loop, terminating, childVars>>
    <3>1. e.lock \in Locks
      BY <2>1, <2>2 DEF Event
    <3> QED BY <2>1, <2>2, <3>1, HandleLockLemma DEF TypeOK, childVars
  <2>3. CASE e.event = "unlock" /\ HandleUnlock(e.lock) /\ UNCHANGED <<loop, terminating, childVars>>
    <3>1. e.lock \in Locks
      BY <2>1, <2>3 DEF Event
    <3> QED BY <2>1, <2>3, <3>1, HandleUnlockLemma DEF TypeOK, childVars
  <2>4. CASE /\ e.event \in {"result", "closed"}
             /\ loop' \in [Threads -> {"idle", "running", "cleanup", "leaving", "stopped"}]
             /\ child' \in [Threads -> Alive \cup {"crashed", "down"}]
             /\ UNCHANGED <<holder, waiting, terminating, calls,
                            acquiring, releasing, held, abandoned>>
    BY <2>1, <2>4 DEF TypeOK, WaitingInPlace
  <2> QED BY <1>2, <2>2, <2>3, <2>4 DEF HandleEvent, e, TypeOK, childVars
<1>3. ASSUME NEW t \in Threads, ReleaseAll(t) \/ Terminate(t)
      PROVE  TypeOK' /\ WaitingInPlace'
  <2>1. ReleaseAllForThread(t)
    BY <1>3 DEF ReleaseAll, Terminate
  <2>2. /\ holder' \in [Resources -> Locks \cup {NoHolder}]
        /\ waiting' \in [Resources -> Seq(Locks)]
        /\ calls' \subseteq LockChanged
        /\ WaitingInPlace'
    BY <2>1, ReleaseAllLemma
  <2> QED BY <1>3, <2>2 DEF ReleaseAll, Terminate, TypeOK, childVars
<1>4. ASSUME NEW t \in Threads, InitWorker(t) \/ StartJob(t) \/ HandlerReturns(t) \/ HandlerAbandons(t)
      PROVE  TypeOK' /\ WaitingInPlace'
  BY <1>4 DEF InitWorker, StartJob, HandlerReturns, HandlerAbandons, TypeOK, WaitingInPlace,
              parentVars, Of
<1>5. ASSUME NEW t \in Threads, StopThread(t)
      PROVE  TypeOK' /\ WaitingInPlace'
  BY <1>5 DEF StopThread, TypeOK, WaitingInPlace, NotOf
<1>6. ASSUME NEW t \in Threads, NEW e \in Event, Emit(t, e)
      PROVE  toParent' \in [Threads -> Seq(Event)]
  <2>1. Append(toParent[t], e) \in Seq(Event)
    BY DEF TypeOK
  <2> QED BY <1>6, <2>1 DEF Emit, TypeOK
<1>7. ASSUME NEW t \in Threads, FinishJob(t)
      PROVE  TypeOK' /\ WaitingInPlace'
  <2>1. [event |-> "result"] \in Event
    BY DEF Event
  <2> QED BY <1>6, <1>7, <2>1 DEF FinishJob, TypeOK, WaitingInPlace, parentVars
<1>8. ASSUME NEW t \in Threads, Crash(t)
      PROVE  TypeOK' /\ WaitingInPlace'
  <2>1. toParent' \in [Threads -> Seq(Event)]
    <3>1. PICK n \in 0 .. Len(toParent[t]) :
            toParent' = [toParent EXCEPT ![t] = Append(SubSeq(@, 1, n), [event |-> "closed"])]
      BY <1>8 DEF Crash
    <3>2. toParent[t] \in Seq(Event) /\ [event |-> "closed"] \in Event
      BY DEF TypeOK, Event
    <3>3. SubSeq(toParent[t], 1, n) \in Seq(Event)
      BY <3>2
    <3>4. Append(SubSeq(toParent[t], 1, n), [event |-> "closed"]) \in Seq(Event)
      BY <3>2, <3>3
    <3> QED BY <3>1, <3>4 DEF TypeOK
  <2> QED BY <1>8, <2>1 DEF Crash, TypeOK, WaitingInPlace, parentVars, NotOf
<1>9. ASSUME NEW l \in Locks, LockStep(l)
      PROVE  TypeOK' /\ WaitingInPlace'
  <2>1. l.thread \in Threads /\ [event |-> "lock", lock |-> l] \in Event
                            /\ [event |-> "unlock", lock |-> l] \in Event
    BY DEF Locks, Event
  <2>2. CASE Acquire(l)
    BY <1>6, <2>1, <2>2 DEF Acquire, TypeOK, WaitingInPlace, parentVars
  <2>3. CASE Release(l)
    BY <1>6, <2>1, <2>3 DEF Release, TypeOK, WaitingInPlace, parentVars
  <2>4. CASE AcquireTimeout(l) \/ ReleaseTimeout(l)
    BY <2>4 DEF AcquireTimeout, ReleaseTimeout, TypeOK, WaitingInPlace, parentVars
  <2> QED BY <1>9, <2>2, <2>3, <2>4 DEF LockStep
<1>10. ASSUME NEW c \in calls, LockChange(c)
       PROVE  TypeOK' /\ WaitingInPlace'
  <2>1. c.lock \in Locks
    BY DEF TypeOK, LockChanged
  <2> QED BY <1>10, <2>1 DEF LockChange, TypeOK, WaitingInPlace, parentVars
<1>11. ASSUME NEW c \in calls, LockChangeFails(c)
       PROVE  TypeOK' /\ WaitingInPlace'
  <2>1. c.lock \in Locks
    BY DEF TypeOK, LockChanged
  <2>2. c.lock.res \in Resources /\ FreedBy(c.lock) \in [Resources -> Locks \cup {NoHolder}]
    BY <2>1, FreedByType
  <2>3. CASE c.locked
    <3>1. LockNextWorker({c.lock.res}, FreedBy(c.lock), waiting, calls \ {c})
      BY <1>11, <2>3 DEF LockChangeFails
    <3>2. /\ holder' \in [Resources -> Locks \cup {NoHolder}]
          /\ waiting' \in [Resources -> Seq(Locks)]
          /\ calls' \subseteq LockChanged
          /\ WaitingInPlace'
      <4>1. calls \ {c} \subseteq LockChanged /\ {c.lock.res} \subseteq Resources
        BY <2>2 DEF TypeOK
      <4> QED BY <2>2, <3>1, <4>1, LockNextWorkerLemma DEF TypeOK, WaitingInPlace
    <3> QED BY <1>11, <3>2 DEF LockChangeFails, TypeOK, childVars
  <2>4. CASE ~ c.locked
    BY <1>11, <2>4 DEF LockChangeFails, TypeOK, WaitingInPlace, childVars
  <2> QED BY <2>3, <2>4
<1> QED BY <1>1, <1>2, <1>3, <1>4, <1>5, <1>7, <1>8, <1>9, <1>10, <1>11
        DEF Next, ThreadStep, CallStep

(* The variables of the lock table, of the threads and of the messages     *)
(* between them keep their types.                                          *)
THEOREM TypeCorrect == Spec => []TypeOK
<1>1. Init => TypeOK /\ WaitingInPlace
  BY DEF Init, TypeOK, WaitingInPlace, Alive
<1>2. TypeOK /\ WaitingInPlace /\ [Next]_vars => TypeOK' /\ WaitingInPlace'
  BY TypeStep
<1> QED BY <1>1, <1>2, PTL DEF Spec

(***************************************************************************)
(* Mutual exclusion.                                                       *)
(***************************************************************************)

(* A step of the lock table that keeps the holders which are guarded, and  *)
(* whose grants are recorded, keeps GuardedIsHolder.                       *)
LEMMA TableStep ==
  ASSUME TypeOK, GuardedIsHolder,
         UNCHANGED <<held, acquiring, abandoned>>,
         terminating \subseteq terminating',
         \A l \in Locks : GrantOf(l) \in calls' => GrantOf(l) \in calls \/ holder'[l.res] = l,
         \A l \in held \cup acquiring :
           holder[l.res] = l /\ l.thread \notin terminating' /\ l \notin abandoned
             => holder'[l.res] = l
  PROVE  GuardedIsHolder'
<1> SUFFICES ASSUME NEW l \in held \cup acquiring,
                    l \in held \/ GrantOf(l) \in calls',
                    l.thread \notin terminating', l \notin abandoned
             PROVE  holder'[l.res] = l
  BY DEF GuardedIsHolder, GrantOf
<1>1. l \in Locks /\ l.thread \notin terminating
  BY DEF TypeOK
<1>2. l \in held \/ GrantOf(l) \in calls => holder[l.res] = l
  BY <1>1 DEF GuardedIsHolder
<1> QED BY <1>1, <1>2

(* A new event at the end of the channel of a thread. *)
LEMMA EmitLemma ==
  ASSUME TypeOK, NEW t \in Threads, NEW e \in Event, Emit(t, e)
  PROVE  /\ \A u \in Threads : u # t => toParent'[u] = toParent[u]
         /\ \A i \in DOMAIN toParent'[t] :
              \/ i \in DOMAIN toParent[t] /\ toParent'[t][i] = toParent[t][i]
              \/ i = Len(toParent[t]) + 1 /\ toParent'[t][i] = e
<1>1. /\ toParent[t] \in Seq(Event)
      /\ toParent'[t] = Append(toParent[t], e)
      /\ \A u \in Threads : u # t => toParent'[u] = toParent[u]
  BY DEF Emit, TypeOK
<1> QED BY <1>1, AppendToSeq

(* Taking the first event out of the channel of a thread. *)
LEMMA TakeLemma ==
  ASSUME TypeOK, NEW t \in Threads, toParent[t] # << >>,
         toParent' = [toParent EXCEPT ![t] = Tail(@)]
  PROVE  /\ 1 \in DOMAIN toParent[t] /\ Head(toParent[t]) = toParent[t][1]
         /\ toParent[t][1] \in Event
         /\ Len(toParent[t]) \in Nat \ {0}
         /\ Len(toParent'[t]) = Len(toParent[t]) - 1
         /\ \A i \in DOMAIN toParent'[t] :
              i \in Nat \ {0} /\ i + 1 \in DOMAIN toParent[t] /\ toParent'[t][i] = toParent[t][i + 1]
         /\ \A u \in Threads : u # t => toParent'[u] = toParent[u]
<1>1. toParent[t] \in Seq(Event) /\ toParent'[t] = Tail(toParent[t])
  BY DEF TypeOK
<1>2. \A u \in Threads : u # t => toParent'[u] = toParent[u]
  BY DEF TypeOK
<1> DEFINE q == toParent[t]
<1> HIDE DEF q
<1>3. q \in Seq(Event) /\ q # << >>
  BY <1>1 DEF q
<1>4. /\ 1 \in DOMAIN q /\ Head(q) = q[1] /\ q[1] \in Event
      /\ Len(q) \in Nat \ {0}
      /\ Len(Tail(q)) = Len(q) - 1
      /\ \A i \in DOMAIN Tail(q) : i \in Nat \ {0} /\ i + 1 \in DOMAIN q /\ Tail(q)[i] = q[i + 1]
  BY <1>3, TailOfSeq
<1> QED BY <1>1, <1>2, <1>4 DEF q

(* What JobEndsOnce says of one thread. *)
Ends(c, lp, q) ==
  /\ c \in {"busy", "cleaning"} => lp = "running"
  /\ \A i \in DOMAIN q :
       /\ q[i].event = "result" =>
            /\ lp = "running"
            /\ c \notin {"busy", "cleaning"}
            /\ \A j \in DOMAIN q : q[j].event = "result" => i = j
       /\ q[i].event = "closed" => c = "crashed" /\ i = Len(q)

LEMMA JobEnds == JobEndsOnce <=> \A u \in Threads : Ends(child[u], loop[u], toParent[u])
BY DEF JobEndsOnce, Ends

LEMMA JobEndsNext == JobEndsOnce' <=> \A u \in Threads : Ends(child'[u], loop'[u], toParent'[u])
BY DEF JobEndsOnce, Ends

(* Taking an event that says nothing of the job. *)
LEMMA TakeKeeps ==
  ASSUME TypeOK, ReleasedIsGone, JobEndsOnce, NEW t \in Threads, toParent[t] # << >>,
         toParent' = [toParent EXCEPT ![t] = Tail(@)],
         UNCHANGED <<held, acquiring>>
  PROVE  /\ ReleasedIsGone'
         /\ child'[t] = child[t] /\ loop'[t] = loop[t] => Ends(child'[t], loop'[t], toParent'[t])
         /\ \A u \in Threads :
              u # t /\ child'[u] = child[u] /\ loop'[u] = loop[u]
                => Ends(child'[u], loop'[u], toParent'[u])
<1>1. \A i \in DOMAIN toParent'[t] :
        /\ i \in Nat \ {0} /\ i + 1 \in DOMAIN toParent[t]
        /\ toParent'[t][i] = toParent[t][i + 1]
  BY TakeLemma
<1>2. \A u \in Threads : u # t => toParent'[u] = toParent[u]
  BY TakeLemma
<1>3. ReleasedIsGone'
  <2> SUFFICES ASSUME NEW u \in Threads, NEW i \in DOMAIN toParent'[u],
                      toParent'[u][i].event = "unlock"
               PROVE  toParent'[u][i].lock \notin held /\ toParent'[u][i].lock \notin acquiring
    BY DEF ReleasedIsGone
  <2>1. CASE u = t
    BY <1>1, <2>1 DEF ReleasedIsGone
  <2>2. CASE u # t
    BY <1>2, <2>2 DEF ReleasedIsGone
  <2> QED BY <2>1, <2>2
<1>4. \A u \in Threads : Ends(child[u], loop[u], toParent[u])
  BY JobEnds
<1>5. child'[t] = child[t] /\ loop'[t] = loop[t] => Ends(child'[t], loop'[t], toParent'[t])
  <2>1. Len(toParent'[t]) = Len(toParent[t]) - 1 /\ Len(toParent[t]) \in Nat
    BY TakeLemma
  <2>2. \A i, j \in DOMAIN toParent'[t] : i + 1 = j + 1 => i = j
    BY <1>1
  <2>3. \A i \in DOMAIN toParent'[t] : i + 1 = Len(toParent[t]) => i = Len(toParent'[t])
    BY <1>1, <2>1
  <2>4. Ends(child[t], loop[t], toParent[t])
    BY <1>4
  <2> QED BY <1>1, <2>2, <2>3, <2>4 DEF Ends
<1> QED BY <1>2, <1>3, <1>4, <1>5

LEMMA HandleEventInv ==
  ASSUME TypeOK, WaitingInPlace, Inv, NEW t \in Threads, HandleEvent(t)
  PROVE  Inv'
<1> USE DEF Inv
<1> DEFINE e == toParent[t][1]
<1>1. /\ toParent[t] # << >>
      /\ toParent' = [toParent EXCEPT ![t] = Tail(@)]
      /\ Head(toParent[t]) = e /\ e \in Event /\ 1 \in DOMAIN toParent[t]
  BY TakeLemma DEF HandleEvent
<1>2. CASE e.event = "lock" /\ HandleLock(e.lock) /\ UNCHANGED <<loop, terminating, childVars>>
  <2>1. e.lock \in Locks
    BY <1>1, <1>2 DEF Event
  <2>2. /\ \A k \in Locks : holder[k.res] = k => holder'[k.res] = k
        /\ \A l \in Locks : GrantOf(l) \in calls' => GrantOf(l) \in calls \/ holder'[l.res] = l
    BY <1>2, <2>1, HandleLockLemma
  <2>3. GuardedIsHolder'
    BY <1>2, <2>2, TableStep DEF childVars, TypeOK
  <2>4. ReleasedIsGone' /\ JobEndsOnce'
    BY <1>1, <1>2, TakeKeeps, JobEndsNext DEF childVars
  <2> QED BY <1>2, <2>3, <2>4 DEF childVars, Disjoint, LocksOfThread
<1>3. CASE e.event = "unlock" /\ HandleUnlock(e.lock) /\ UNCHANGED <<loop, terminating, childVars>>
  <2>1. e.lock \in Locks
    BY <1>1, <1>3 DEF Event
  <2>2. e.lock \notin held /\ e.lock \notin acquiring
    BY <1>1, <1>3 DEF ReleasedIsGone
  <2>3. /\ \A k \in Locks : holder[k.res] = k /\ k # e.lock => holder'[k.res] = k
        /\ \A l \in Locks : GrantOf(l) \in calls' => GrantOf(l) \in calls \/ holder'[l.res] = l
    BY <1>3, <2>1, HandleUnlockLemma
  <2>4. GuardedIsHolder'
    BY <1>3, <2>2, <2>3, TableStep DEF childVars, TypeOK
  <2>5. ReleasedIsGone' /\ JobEndsOnce'
    BY <1>1, <1>3, TakeKeeps, JobEndsNext DEF childVars
  <2> QED BY <1>3, <2>4, <2>5 DEF childVars, Disjoint, LocksOfThread
<1>4. CASE /\ e.event = "result"
           /\ loop' = [loop EXCEPT ![t] = "cleanup"]
           /\ UNCHANGED <<holder, waiting, terminating, calls, childVars>>
  <2>1. /\ child[t] \notin {"busy", "cleaning"}
        /\ \A j \in DOMAIN toParent[t] : toParent[t][j].event = "result" => j = 1
        /\ \A j \in DOMAIN toParent[t] :
             toParent[t][j].event = "closed" => child[t] = "crashed" /\ j = Len(toParent[t])
    BY <1>1, <1>4 DEF JobEndsOnce
  <2>2. \A i \in DOMAIN toParent'[t] :
          i \in Nat \ {0} /\ i + 1 \in DOMAIN toParent[t] /\ toParent'[t][i] = toParent[t][i + 1]
    BY <1>1, TakeLemma
  <2>3. \A i \in DOMAIN toParent'[t] : i + 1 = Len(toParent[t]) => i = Len(toParent'[t])
    <3>1. Len(toParent'[t]) = Len(toParent[t]) - 1 /\ Len(toParent[t]) \in Nat
      BY <1>1, TakeLemma
    <3> QED BY <2>2, <3>1
  <2>4. \A i \in DOMAIN toParent'[t] : toParent'[t][i].event # "result"
    <3>1. \A i \in DOMAIN toParent'[t] : i + 1 # 1
      BY <2>2
    <3> QED BY <2>1, <2>2, <3>1
  <2>5. Ends(child'[t], loop'[t], toParent'[t])
    BY <1>4, <2>1, <2>2, <2>3, <2>4 DEF Ends, childVars
  <2>6. \A u \in Threads : u # t => loop'[u] = loop[u] /\ child'[u] = child[u]
    BY <1>4 DEF TypeOK, childVars
  <2>7. ReleasedIsGone' /\ JobEndsOnce'
    BY <1>1, <1>4, <2>5, <2>6, TakeKeeps, JobEndsNext DEF childVars
  <2> QED BY <1>4, <2>7 DEF childVars, Disjoint, LocksOfThread, GuardedIsHolder, GrantOf
<1>5. CASE /\ e.event = "closed"
           /\ loop' = [loop EXCEPT ![t] = IF @ = "running" THEN "cleanup" ELSE @]
           /\ child' = [child EXCEPT ![t] = "down"]
           /\ UNCHANGED <<holder, waiting, terminating, calls,
                          acquiring, releasing, held, abandoned>>
  <2>1. child[t] = "crashed" /\ Len(toParent[t]) = 1
    BY <1>1, <1>5 DEF JobEndsOnce
  <2>2. \A i \in DOMAIN toParent'[t] : FALSE
    <3>1. \A i \in DOMAIN toParent'[t] : i \in Nat \ {0} /\ i + 1 \in DOMAIN toParent[t]
      BY <1>1, TakeLemma
    <3>2. toParent[t] \in Seq(Event)
      BY DEF TypeOK
    <3> QED BY <2>1, <3>1, <3>2
  <2>3. child'[t] = "down" /\ \A u \in Threads : u # t => loop'[u] = loop[u] /\ child'[u] = child[u]
    BY <1>5 DEF TypeOK
  <2>4. Ends(child'[t], loop'[t], toParent'[t])
    BY <2>2, <2>3 DEF Ends
  <2>5. ReleasedIsGone' /\ JobEndsOnce'
    BY <1>1, <1>5, <2>3, <2>4, TakeKeeps, JobEndsNext
  <2>6. \A l \in held \cup acquiring : l.thread \in Threads /\ l.thread # t
    BY <2>1 DEF LocksOfThread, Alive, TypeOK, Locks
  <2>7. LocksOfThread'
    BY <1>5, <2>3, <2>6 DEF LocksOfThread
  <2> QED BY <1>5, <2>5, <2>7 DEF Disjoint, GuardedIsHolder, GrantOf
<1> QED BY <1>1, <1>2, <1>3, <1>4, <1>5 DEF HandleEvent

(* The loop of a thread: the locks it frees belong to a job that is over.  *)
LEMMA LoopInv ==
  ASSUME TypeOK, WaitingInPlace, Inv, NEW t \in Threads,
         InitWorker(t) \/ StartJob(t) \/ ReleaseAll(t) \/ Terminate(t) \/ StopThread(t)
  PROVE  Inv'
<1> USE DEF Inv
<1>0. \A u \in Threads : Ends(child[u], loop[u], toParent[u])
  BY JobEnds
<1>1. CASE InitWorker(t)
  <2>1. \A u \in Threads : u # t => child'[u] = child[u]
    BY <1>1 DEF InitWorker, TypeOK
  <2>2. child[t] = "down" /\ child'[t] = "ready"
    BY <1>1 DEF InitWorker, TypeOK
  <2>3. \A u \in Threads : Ends(child'[u], loop[u], toParent[u])
    BY <1>0, <2>1, <2>2 DEF Ends
  <2>4. JobEndsOnce'
    BY <1>1, <2>3, JobEndsNext DEF InitWorker, parentVars
  <2>5. \A l \in held \cup acquiring : l.thread # t
    BY <2>2 DEF LocksOfThread, Alive
  <2>6. LocksOfThread'
    BY <1>1, <2>1, <2>5 DEF LocksOfThread, InitWorker, TypeOK, Locks
  <2> QED BY <1>1, <2>4, <2>6
          DEF InitWorker, parentVars, Disjoint, GuardedIsHolder, GrantOf, ReleasedIsGone
<1>2. CASE StartJob(t)
  <2>1. \A u \in Threads : u # t => child'[u] = child[u] /\ loop'[u] = loop[u]
    BY <1>2 DEF StartJob, TypeOK
  <2>2. /\ loop[t] = "idle"
        /\ loop'[t] = IF child[t] = "down" THEN "cleanup" ELSE "running"
        /\ child'[t] = IF child[t] = "ready" THEN "busy" ELSE child[t]
    BY <1>2 DEF StartJob, TypeOK
  <2>3. \A u \in Threads : Ends(child'[u], loop'[u], toParent[u])
    BY <1>0, <2>1, <2>2 DEF Ends
  <2>4. JobEndsOnce'
    BY <1>2, <2>3, JobEndsNext DEF StartJob
  <2>5. LocksOfThread'
    BY <1>2, <2>1, <2>2 DEF LocksOfThread, StartJob, TypeOK, Locks, Alive
  <2> QED BY <1>2, <2>4, <2>5 DEF StartJob, Disjoint, GuardedIsHolder, GrantOf, ReleasedIsGone
<1>3. CASE ReleaseAll(t)
  <2>1. loop[t] = "cleanup" /\ loop'[t] \in {"idle", "leaving"}
    BY <1>3 DEF ReleaseAll, TypeOK
  <2>2. \A l \in held \cup acquiring : l.thread = t => l \in abandoned
    BY <1>0, <2>1 DEF LocksOfThread, Ends, Alive
  <2>3. /\ \A l \in Locks : holder[l.res] = l /\ l.thread # t => holder'[l.res] = l
        /\ \A l \in Locks : GrantOf(l) \in calls' => GrantOf(l) \in calls \/ holder'[l.res] = l
    BY <1>3, ReleaseAllLemma DEF ReleaseAll
  <2>4. GuardedIsHolder'
    BY <1>3, <2>2, <2>3, TableStep DEF ReleaseAll, childVars, TypeOK
  <2>5. \A u \in Threads : u # t => loop'[u] = loop[u]
    BY <1>3 DEF ReleaseAll, TypeOK
  <2>6. \A u \in Threads : Ends(child[u], loop'[u], toParent[u])
    BY <1>0, <2>1, <2>5 DEF Ends
  <2>7. JobEndsOnce'
    BY <1>3, <2>6, JobEndsNext DEF ReleaseAll, childVars
  <2> QED BY <1>3, <2>4, <2>7 DEF ReleaseAll, childVars, Disjoint, ReleasedIsGone, LocksOfThread
<1>4. CASE Terminate(t)
  <2>1. /\ \A l \in Locks : holder[l.res] = l /\ l.thread # t => holder'[l.res] = l
        /\ \A l \in Locks : GrantOf(l) \in calls' => GrantOf(l) \in calls \/ holder'[l.res] = l
    BY <1>4, ReleaseAllLemma DEF Terminate
  <2>2. terminating' = terminating \cup {t} /\ UNCHANGED <<loop, toParent, childVars>>
    BY <1>4 DEF Terminate
  <2>3. GuardedIsHolder'
    BY <2>1, <2>2, TableStep DEF childVars, TypeOK
  <2> QED BY <2>2, <2>3 DEF childVars, Disjoint, ReleasedIsGone, LocksOfThread, JobEndsOnce
<1>5. CASE StopThread(t)
  <2>1. \A u \in Threads : u # t => /\ child'[u] = child[u]
                                    /\ loop'[u] = loop[u]
                                    /\ toParent'[u] = toParent[u]
    BY <1>5 DEF StopThread, TypeOK
  <2>2. child'[t] = "down" /\ toParent'[t] = << >>
    BY <1>5 DEF StopThread, TypeOK
  <2>3. \A u \in Threads : Ends(child'[u], loop'[u], toParent'[u])
    BY <1>0, <2>1, <2>2 DEF Ends
  <2>4. JobEndsOnce'
    BY <2>3, JobEndsNext
  <2>5. /\ held' = NotOf(t, held) /\ acquiring' = NotOf(t, acquiring)
        /\ releasing' = NotOf(t, releasing) /\ abandoned' = NotOf(t, abandoned)
    BY <1>5 DEF StopThread
  <2>6. Disjoint' /\ LocksOfThread'
    BY <2>1, <2>5 DEF Disjoint, LocksOfThread, NotOf, TypeOK, Locks
  <2>7. GuardedIsHolder'
    BY <1>5, <2>5 DEF GuardedIsHolder, GrantOf, NotOf, StopThread
  <2>8. ReleasedIsGone'
    BY <2>1, <2>2, <2>5 DEF ReleasedIsGone, NotOf
  <2> QED BY <2>4, <2>6, <2>7, <2>8
<1> QED BY <1>1, <1>2, <1>3, <1>4, <1>5

(* The job of a thread: an event it sends says of its locks and of its job *)
(* what is so from then on.                                                *)
LEMMA JobInv ==
  ASSUME TypeOK, WaitingInPlace, Inv, NEW t \in Threads,
         HandlerReturns(t) \/ HandlerAbandons(t) \/ FinishJob(t) \/ Crash(t)
  PROVE  Inv'
<1> USE DEF Inv
<1>0. \A u \in Threads : Ends(child[u], loop[u], toParent[u])
  BY JobEnds
<1>1. CASE HandlerReturns(t) \/ HandlerAbandons(t)
  <2>1. /\ child[t] = "busy" /\ child'[t] = "cleaning"
        /\ \A u \in Threads : u # t => child'[u] = child[u]
    BY <1>1 DEF HandlerReturns, HandlerAbandons, TypeOK
  <2>2. /\ UNCHANGED <<parentVars, toParent, calls, acquiring, releasing, held>>
        /\ abandoned \subseteq abandoned'
    BY <1>1 DEF HandlerReturns, HandlerAbandons
  <2>3. \A u \in Threads : Ends(child'[u], loop[u], toParent[u])
    BY <1>0, <2>1 DEF Ends
  <2>4. JobEndsOnce'
    BY <2>2, <2>3, JobEndsNext DEF parentVars
  <2>5. \A l \in acquiring : l.thread = t => l \in abandoned'
    BY <1>1 DEF HandlerReturns, HandlerAbandons, OfJob, Of, InUse
  <2>6. LocksOfThread'
    BY <2>1, <2>2, <2>5 DEF LocksOfThread, TypeOK, Locks, Alive
  <2> QED BY <2>2, <2>4, <2>6 DEF parentVars, Disjoint, GuardedIsHolder, GrantOf, ReleasedIsGone
<1>2. CASE FinishJob(t)
  <2>1. /\ child[t] = "cleaning" /\ child'[t] = "ready"
        /\ \A u \in Threads : u # t => child'[u] = child[u]
    BY <1>2 DEF FinishJob, TypeOK
  <2>2. UNCHANGED <<parentVars, calls, acquiring, releasing, held, abandoned>>
    BY <1>2 DEF FinishJob
  <2> DEFINE e == [event |-> "result"]
  <2>3. e \in Event /\ Emit(t, e)
    BY <1>2 DEF FinishJob, Event
  <2>4. /\ \A u \in Threads : u # t => toParent'[u] = toParent[u]
        /\ \A i \in DOMAIN toParent'[t] :
             \/ i \in DOMAIN toParent[t] /\ toParent'[t][i] = toParent[t][i]
             \/ i = Len(toParent[t]) + 1 /\ toParent'[t][i] = e
    BY <2>3, EmitLemma
  <2>5. \A u \in Threads : Ends(child'[u], loop[u], toParent'[u])
    <3>1. loop[t] = "running" /\ \A i \in DOMAIN toParent[t] : /\ toParent[t][i].event # "result"
                                                                /\ toParent[t][i].event # "closed"
      BY <1>0, <2>1 DEF Ends
    <3>2. \A i, j \in DOMAIN toParent'[t] :
            toParent'[t][i].event = "result" /\ toParent'[t][j].event = "result" => i = j
      BY <2>4, <3>1
    <3>3. \A i \in DOMAIN toParent'[t] : toParent'[t][i].event # "closed"
      BY <2>4, <3>1
    <3>4. Ends(child'[t], loop[t], toParent'[t])
      BY <2>1, <3>1, <3>2, <3>3 DEF Ends
    <3> QED BY <1>0, <2>1, <2>4, <3>4
  <2>6. JobEndsOnce'
    BY <2>2, <2>5, JobEndsNext DEF parentVars
  <2>7. ReleasedIsGone'
    BY <2>2, <2>4 DEF ReleasedIsGone
  <2>8. \A l \in held \cup acquiring : l.thread = t => l \in abandoned
    BY <1>2, <2>1 DEF FinishJob, LocksOfThread, Of
  <2>9. LocksOfThread'
    BY <2>1, <2>2, <2>8 DEF LocksOfThread, TypeOK, Locks, Alive
  <2> QED BY <2>2, <2>6, <2>7, <2>9 DEF parentVars, Disjoint, GuardedIsHolder, GrantOf
<1>3. CASE Crash(t)
  <2>1. /\ child[t] \in Alive /\ child'[t] = "crashed"
        /\ \A u \in Threads : u # t => child'[u] = child[u] /\ toParent'[u] = toParent[u]
    BY <1>3 DEF Crash, TypeOK
  <2>2. PICK n \in 0 .. Len(toParent[t]) :
          toParent' = [toParent EXCEPT ![t] = Append(SubSeq(@, 1, n), [event |-> "closed"])]
    BY <1>3 DEF Crash
  <2> DEFINE q == toParent[t]
  <2> HIDE DEF q
  <2>3. q \in Seq(Event) /\ n \in 0 .. Len(q) /\ toParent'[t] = Append(SubSeq(q, 1, n), [event |-> "closed"])
    BY <2>2 DEF TypeOK, q
  <2>4. /\ Len(toParent'[t]) = n + 1
        /\ \A i \in DOMAIN toParent'[t] :
             \/ i \in DOMAIN q /\ toParent'[t][i] = q[i]
             \/ i = n + 1 /\ toParent'[t][i] = [event |-> "closed"]
    <3> DEFINE p == SubSeq(q, 1, n)
    <3>1. /\ p \in Seq(Event) /\ Len(p) = n
          /\ \A i \in DOMAIN p : i \in DOMAIN q /\ p[i] = q[i]
      BY <2>3
    <3>2. [event |-> "closed"] \in Event
      BY DEF Event
    <3> HIDE DEF p
    <3>3. Len(Append(p, [event |-> "closed"])) = n + 1
      BY <2>3, <3>1, <3>2
    <3>4. \A i \in DOMAIN Append(p, [event |-> "closed"]) :
            \/ i \in DOMAIN p /\ Append(p, [event |-> "closed"])[i] = p[i]
            \/ i = Len(p) + 1 /\ Append(p, [event |-> "closed"])[i] = [event |-> "closed"]
      BY <3>1, <3>2, AppendToSeq
    <3> QED BY <2>3, <3>1, <3>3, <3>4 DEF p
  <2>5. Ends(child[t], loop[t], q) /\ child[t] # "crashed"
    BY <1>0, <2>1 DEF Alive, q
  <2>6. Ends(child'[t], loop[t], toParent'[t])
    BY <2>1, <2>4, <2>5 DEF Ends
  <2>7. JobEndsOnce'
    BY <1>0, <1>3, <2>1, <2>6, JobEndsNext DEF Crash, parentVars
  <2>8. /\ held' = NotOf(t, held) /\ acquiring' = NotOf(t, acquiring)
        /\ releasing' = NotOf(t, releasing) /\ abandoned' = NotOf(t, abandoned)
    BY <1>3 DEF Crash
  <2>9. Disjoint' /\ LocksOfThread'
    BY <2>1, <2>8 DEF Disjoint, LocksOfThread, NotOf, TypeOK, Locks
  <2>10. GuardedIsHolder'
    BY <1>3, <2>8 DEF GuardedIsHolder, GrantOf, NotOf, Crash, parentVars
  <2>11. ReleasedIsGone'
    BY <2>1, <2>4, <2>8 DEF ReleasedIsGone, NotOf, q
  <2> QED BY <2>7, <2>9, <2>10, <2>11
<1> QED BY <1>1, <1>2, <1>3

(* A lock from its request to its end in the thread. *)
LEMMA LockInv ==
  ASSUME TypeOK, WaitingInPlace, Inv, NEW l \in Locks, LockStep(l)
  PROVE  Inv'
<1> USE DEF Inv
<1>0. l.thread \in Threads /\ \A u \in Threads : Ends(child[u], loop[u], toParent[u])
  BY JobEnds DEF Locks
<1>1. ASSUME NEW e \in Event, e.event \notin {"result", "closed"}, Emit(l.thread, e),
             child[l.thread] \in Alive, UNCHANGED <<child, loop>>
      PROVE  JobEndsOnce'
  <2>1. /\ \A u \in Threads : u # l.thread => toParent'[u] = toParent[u]
        /\ \A i \in DOMAIN toParent'[l.thread] :
             \/ /\ i \in DOMAIN toParent[l.thread]
                /\ toParent'[l.thread][i] = toParent[l.thread][i]
             \/ toParent'[l.thread][i] = e
    BY <1>0, <1>1, EmitLemma
  <2>2. child[l.thread] \in Alive =>
          Ends(child[l.thread], loop[l.thread], toParent'[l.thread])
    BY <1>0, <1>1, <2>1 DEF Ends, Alive
  <2>3. child[l.thread] \in Alive
    BY <1>1
  <2> QED BY <1>0, <1>1, <2>1, <2>2, <2>3, JobEndsNext
<1>2. CASE Acquire(l)
  <2> DEFINE e == [event |-> "lock", lock |-> l]
  <2>1. e \in Event /\ Emit(l.thread, e)
    BY <1>2 DEF Acquire, Event
  <2>2. /\ child[l.thread] = "busy"
        /\ acquiring' = acquiring \cup {l}
        /\ UNCHANGED <<parentVars, calls, child, releasing, held, abandoned>>
    BY <1>2 DEF Acquire
  <2>3. /\ l \notin held
        /\ l \notin releasing
        /\ GrantOf(l) \notin calls
        /\ \A u \in Threads : \A i \in DOMAIN toParent[u] :
             toParent[u][i].event = "unlock" => toParent[u][i].lock # l
    BY <1>2 DEF Acquire, Known, InUse, GrantOf
  <2>4. JobEndsOnce'
    BY <1>1, <2>1, <2>2 DEF parentVars, Alive
  <2>5. /\ \A u \in Threads : u # l.thread => toParent'[u] = toParent[u]
        /\ \A i \in DOMAIN toParent'[l.thread] :
             \/ /\ i \in DOMAIN toParent[l.thread]
                /\ toParent'[l.thread][i] = toParent[l.thread][i]
             \/ toParent'[l.thread][i] = e
    BY <1>0, <2>1, EmitLemma
  <2>6. ReleasedIsGone'
    BY <2>2, <2>3, <2>5 DEF ReleasedIsGone
  <2>7. LocksOfThread' /\ Disjoint'
    BY <2>2, <2>3 DEF LocksOfThread, Disjoint, Alive
  <2>8. GuardedIsHolder'
    BY <2>2, <2>3 DEF GuardedIsHolder, GrantOf, parentVars
  <2> QED BY <2>4, <2>6, <2>7, <2>8
<1>3. CASE Release(l)
  <2> DEFINE e == [event |-> "unlock", lock |-> l]
  <2>1. e \in Event /\ Emit(l.thread, e)
    BY <1>3 DEF Release, Event
  <2>2. /\ child[l.thread] \in Alive
        /\ l \in held
        /\ held' = held \ {l}
        /\ releasing' = releasing \cup {l}
        /\ \A k \in Locks : k # l => (k \in abandoned' <=> k \in abandoned)
        /\ UNCHANGED <<parentVars, calls, child, acquiring>>
    BY <1>3 DEF Release
  <2>3. l \notin acquiring
    BY <2>2 DEF Disjoint
  <2>4. JobEndsOnce'
    BY <1>1, <2>1, <2>2 DEF parentVars, Alive
  <2>5. /\ \A u \in Threads : u # l.thread => toParent'[u] = toParent[u]
        /\ \A i \in DOMAIN toParent'[l.thread] :
             \/ /\ i \in DOMAIN toParent[l.thread]
                /\ toParent'[l.thread][i] = toParent[l.thread][i]
             \/ toParent'[l.thread][i] = e
    BY <1>0, <2>1, EmitLemma
  <2>6. ReleasedIsGone'
    BY <2>2, <2>3, <2>5 DEF ReleasedIsGone
  <2>7. LocksOfThread' /\ Disjoint'
    BY <2>2, <2>3 DEF LocksOfThread, Disjoint, TypeOK
  <2>8. GuardedIsHolder'
    BY <2>2, <2>3 DEF GuardedIsHolder, GrantOf, parentVars, TypeOK
  <2> QED BY <2>4, <2>6, <2>7, <2>8
<1>4. CASE AcquireTimeout(l)
  <2>1. /\ acquiring' = acquiring \ {l}
        /\ abandoned' = abandoned \ {l}
        /\ l \notin held
        /\ UNCHANGED <<parentVars, toParent, calls, child, releasing, held>>
    BY <1>4 DEF AcquireTimeout, Disjoint
  <2> QED BY <2>1 DEF parentVars, Disjoint, GuardedIsHolder, GrantOf, ReleasedIsGone,
                      LocksOfThread, JobEndsOnce
<1>5. CASE ReleaseTimeout(l)
  BY <1>5 DEF ReleaseTimeout, parentVars, Disjoint, GuardedIsHolder, GrantOf, ReleasedIsGone,
              LocksOfThread, JobEndsOnce
<1> QED BY <1>2, <1>3, <1>4, <1>5 DEF LockStep

(* The answer of the worker process, taken or lost. *)
LEMMA CallInv ==
  ASSUME TypeOK, WaitingInPlace, Inv, NEW c \in calls, CallStep(c)
  PROVE  Inv'
<1> USE DEF Inv
<1>1. c.lock \in Locks /\ c.locked \in BOOLEAN /\ c = [lock |-> c.lock, locked |-> c.locked]
  BY DEF TypeOK, LockChanged
<1>2. CASE LockChange(c)
  <2>1. /\ calls' = calls \ {c}
        /\ acquiring' = acquiring \ {c.lock}
        /\ releasing' = releasing \ {c.lock}
        /\ held' = IF c.locked /\ c.lock \in acquiring THEN held \cup {c.lock} ELSE held
        /\ abandoned' = IF c.lock \in held' THEN abandoned ELSE abandoned \ {c.lock}
        /\ UNCHANGED <<parentVars, toParent, child>>
    BY <1>2 DEF LockChange
  <2>2. held' \cup acquiring' \subseteq held \cup acquiring
    BY <2>1
  <2>3. \A l \in held' \cup acquiring' : l \in abandoned' <=> l \in abandoned
    BY <2>1
  <2>4. GuardedIsHolder'
    <3> SUFFICES ASSUME NEW l \in held' \cup acquiring',
                        l \in held' \/ GrantOf(l) \in calls',
                        l.thread \notin terminating, l \notin abandoned
                 PROVE  holder[l.res] = l
      BY <2>1, <2>3 DEF GuardedIsHolder, GrantOf, parentVars
    <3>1. l \in held \/ GrantOf(l) \in calls
      BY <1>1, <2>1 DEF GrantOf
    <3> QED BY <2>2, <3>1 DEF GuardedIsHolder
  <2>5. Disjoint' /\ ReleasedIsGone' /\ JobEndsOnce'
    BY <2>1 DEF Disjoint, ReleasedIsGone, JobEndsOnce, parentVars
  <2>6. LocksOfThread'
    BY <2>1, <2>2, <2>3 DEF LocksOfThread
  <2> QED BY <2>4, <2>5, <2>6
<1>3. CASE LockChangeFails(c)
  <2>1. UNCHANGED <<loop, terminating, toParent, childVars>>
    BY <1>3 DEF LockChangeFails
  <2>2. c.lock \notin held \cup acquiring
    BY <1>3 DEF LockChangeFails, LocksOfThread, Alive
  <2>3. GuardedIsHolder'
    <3>1. CASE c.locked
      <4>1. LockNextWorker({c.lock.res}, FreedBy(c.lock), waiting, calls \ {c})
        BY <1>3, <3>1 DEF LockChangeFails
      <4>2. calls \ {c} \subseteq LockChanged
        BY DEF TypeOK
      <4>3. /\ \A k \in Locks : holder[k.res] = k /\ k # c.lock => holder'[k.res] = k
            /\ \A k \in Locks : GrantOf(k) \in calls' => GrantOf(k) \in calls \/ holder'[k.res] = k
        BY <1>1, <4>1, <4>2, FreeAndNext
      <4> QED BY <2>1, <2>2, <4>3, TableStep DEF childVars, TypeOK
    <3>2. CASE ~ c.locked
      <4>1. calls' \subseteq calls /\ holder' = holder
        BY <1>3, <3>2 DEF LockChangeFails
      <4> QED BY <2>1, <4>1 DEF GuardedIsHolder, GrantOf, childVars
    <3> QED BY <3>1, <3>2
  <2> QED BY <2>1, <2>3 DEF childVars, Disjoint, ReleasedIsGone, LocksOfThread, JobEndsOnce
<1> QED BY <1>2, <1>3 DEF CallStep

(* The inductive invariant holds. *)
THEOREM InvHolds == Spec => []IInv
<1>1. Init => IInv
  BY DEF Init, IInv, TypeOK, WaitingInPlace, Inv, Disjoint, GuardedIsHolder, ReleasedIsGone,
         LocksOfThread, JobEndsOnce, Alive
<1>2. IInv /\ [Next]_vars => IInv'
  <2> USE DEF IInv
  <2> SUFFICES ASSUME TypeOK, WaitingInPlace, Inv, [Next]_vars
               PROVE  Inv'
    BY TypeStep
  <2>1. CASE UNCHANGED vars
    BY <2>1 DEF vars, parentVars, childVars, Inv, Disjoint, GuardedIsHolder, GrantOf,
                ReleasedIsGone, LocksOfThread, JobEndsOnce
  <2>2. CASE Next
    BY <2>2, HandleEventInv, LoopInv, JobInv, LockInv, CallInv DEF Next, ThreadStep
  <2> QED BY <2>1, <2>2
<1> QED BY <1>1, <1>2, PTL DEF Spec

(* No two critical sections on one playlist or rundown at a time, with any *)
(* number of threads, resources and locks, whatever times out, crashes or  *)
(* arrives late.                                                           *)
THEOREM MutualExclusionHolds == Spec => []MutualExclusion
<1>1. IInv => MutualExclusion
  BY DEF IInv, Inv, GuardedIsHolder, MutualExclusion, Protecting
<1> QED BY <1>1, InvHolds, PTL

(***************************************************************************)
(* The abstract lock service.                                              *)
(***************************************************************************)

(* A critical section begins in LockChange only, and alone; in any other   *)
(* step none begins.                                                       *)
LEMMA SectionsBegin ==
  ASSUME Disjoint, Next
  PROVE  \/ Protecting' \subseteq Protecting
         \/ \E c \in calls : Protecting' \subseteq Protecting \cup {c.lock} /\ Protecting \subseteq Protecting'
<1>1. ASSUME NEW t \in Threads, ThreadStep(t)
      PROVE  Protecting' \subseteq Protecting
  <2>1. held' \subseteq held /\ terminating \subseteq terminating'
    BY <1>1 DEF ThreadStep, HandleEvent, InitWorker, StartJob, ReleaseAll, Terminate, StopThread,
                HandlerReturns, HandlerAbandons, FinishJob, Crash, NotOf, childVars, parentVars
  <2>2. \A l \in held' : l \in abandoned => l \in abandoned'
    BY <1>1 DEF ThreadStep, HandleEvent, InitWorker, StartJob, ReleaseAll, Terminate, StopThread,
                HandlerReturns, HandlerAbandons, FinishJob, Crash, NotOf, childVars, parentVars
  <2> QED BY <2>1, <2>2 DEF Protecting
<1>2. ASSUME NEW l \in Locks, LockStep(l)
      PROVE  Protecting' \subseteq Protecting
  BY <1>2 DEF LockStep, Acquire, Release, AcquireTimeout, ReleaseTimeout, Protecting, Disjoint, parentVars
<1>3. ASSUME NEW c \in calls, CallStep(c)
      PROVE  Protecting' \subseteq Protecting \cup {c.lock} /\ Protecting \subseteq Protecting'
  BY <1>3 DEF CallStep, LockChange, LockChangeFails, Protecting, childVars, parentVars
<1> QED BY <1>1, <1>2, <1>3 DEF Next

(* StudioLocks implements the abstract lock service: a step begins one     *)
(* critical section, with no other on its resource, or ends some, or does  *)
(* neither (locks.ts, workers/locks.ts, workers/context.ts).               *)
THEOREM ImplementsLockServiceHolds == Spec => ImplementsLockService
<1>1. Init => Service!Init
  BY DEF Init, Service!Init, Protecting
<1>2. TypeOK /\ Disjoint /\ MutualExclusion' /\ [Next]_vars => [Service!Next]_Protecting
  <2> SUFFICES ASSUME TypeOK, Disjoint, MutualExclusion', [Next]_vars, Protecting' # Protecting
               PROVE  Service!Next
    OBVIOUS
  <2>1. Next
    BY DEF vars, parentVars, childVars, Protecting
  <2>2. CASE Protecting' \subseteq Protecting
    BY <2>2 DEF Service!Next, Service!Leave
  <2>3. ASSUME NEW c \in calls, Protecting' \subseteq Protecting \cup {c.lock}, Protecting \subseteq Protecting'
        PROVE  Service!Next
    <3>1. c.lock \in Locks /\ Protecting' = Protecting \cup {c.lock} /\ c.lock \notin Protecting
      BY <2>3 DEF TypeOK, LockChanged
    <3>2. \A k \in Protecting : k.res # c.lock.res
      BY <3>1 DEF MutualExclusion
    <3> QED BY <3>1, <3>2 DEF Service!Next, Service!Enter
  <2> QED BY <2>1, <2>2, <2>3, SectionsBegin
<1>3. Spec => []TypeOK /\ []Disjoint /\ []MutualExclusion
  BY TypeCorrect, InvHolds, MutualExclusionHolds, PTL DEF IInv, Inv
<1> QED BY <1>1, <1>2, <1>3, PTL DEF Spec, ImplementsLockService, Service!Spec

(***************************************************************************)
(* Waiters.                                                                *)
(***************************************************************************)

LEMMA LocksAreNotNoHolder == NoHolder \notin Locks
<1>1. DOMAIN NoHolder = {"holder"}
  BY DEF NoHolder
<1>2. \A l \in Locks : "thread" \in DOMAIN l
  BY DEF Locks
<1> QED BY <1>1, <1>2

(* lockNextWorker serves every resource that it is called for. *)
LEMMA NextWorkerServes ==
  ASSUME NEW STATE R, NEW STATE h, NEW STATE w, NEW STATE c,
         h \in [Resources -> Locks \cup {NoHolder}],
         w \in [Resources -> Seq(Locks)],
         R \subseteq Resources,
         \A r \in Resources \ R : h[r] = NoHolder => w[r] = << >>,
         LockNextWorker(R, h, w, c)
  PROVE  NoForgottenWaiter'
<1> DEFINE next == {r \in R : h[r] = NoHolder /\ w[r] # << >>}
<1>1. /\ holder' = [r \in Resources |-> IF r \in next THEN Head(w[r]) ELSE h[r]]
      /\ waiting' = [r \in Resources |-> IF r \in next THEN Tail(w[r]) ELSE w[r]]
  BY DEF LockNextWorker
<1>2. \A r \in next : Head(w[r]) # NoHolder
  <2> SUFFICES ASSUME NEW r \in next PROVE Head(w[r]) # NoHolder
    OBVIOUS
  <2>1. w[r] \in Seq(Locks) /\ w[r] # << >>
    OBVIOUS
  <2>2. Head(w[r]) \in Locks
    BY <2>1, TailOfSeq
  <2> QED BY <2>2, LocksAreNotNoHolder
<1>3. \A r \in Resources : r \notin next => (h[r] = NoHolder => w[r] = << >>)
  OBVIOUS
<1> HIDE DEF next
<1> QED BY <1>1, <1>2, <1>3 DEF NoForgottenWaiter

LEMMA NoForgottenStep ==
  ASSUME TypeOK, NoForgottenWaiter, [Next]_vars
  PROVE  NoForgottenWaiter'
<1>0. /\ holder \in [Resources -> Locks \cup {NoHolder}] /\ waiting \in [Resources -> Seq(Locks)]
      /\ \A r \in Resources : holder[r] = NoHolder => waiting[r] = << >>
  BY DEF TypeOK, NoForgottenWaiter
<1>1. ASSUME UNCHANGED <<holder, waiting>> PROVE NoForgottenWaiter'
  BY <1>1 DEF NoForgottenWaiter
<1>2. ASSUME NEW l \in Locks, NEW STATE c, LockNextWorker({l.res}, FreedBy(l), waiting, c)
      PROVE  NoForgottenWaiter'
  <2>1. /\ l.res \in Resources /\ FreedBy(l) \in [Resources -> Locks \cup {NoHolder}]
        /\ \A r \in Resources \ {l.res} : FreedBy(l)[r] = holder[r]
    BY <1>0, FreedByType DEF FreedBy
  <2> QED BY <1>0, <1>2, <2>1, NextWorkerServes
<1>3. ASSUME NEW l \in Locks, HandleLock(l) PROVE NoForgottenWaiter'
  <2> DEFINE w == [waiting EXCEPT ![l.res] = Append(@, l)]
  <2>1. /\ l.res \in Resources /\ w \in [Resources -> Seq(Locks)]
        /\ \A r \in Resources \ {l.res} : w[r] = waiting[r]
    BY <1>0, FreedByType
  <2>2. LockNextWorker({l.res}, holder, w, calls)
    BY <1>3 DEF HandleLock
  <2> HIDE DEF w
  <2>3. {l.res} \subseteq Resources
    BY <2>1
  <2>4. \A r \in Resources \ {l.res} : holder[r] = NoHolder => w[r] = << >>
    BY <1>0, <2>1
  <2>5. holder \in [Resources -> Locks \cup {NoHolder}] /\ w \in [Resources -> Seq(Locks)]
    BY <1>0, <2>1
  <2> QED BY <2>2, <2>3, <2>4, <2>5, NextWorkerServes
<1>4. ASSUME NEW t \in Threads, ReleaseAllForThread(t) PROVE NoForgottenWaiter'
  <2> DEFINE h == [r \in Resources |-> IF r \in OwnedBy(t) THEN NoHolder ELSE holder[r]]
             w == [r \in Resources |-> Without(waiting[r], t)]
  <2>1. h \in [Resources -> Locks \cup {NoHolder}] /\ OwnedBy(t) \subseteq Resources
    BY <1>0 DEF OwnedBy
  <2>2. w \in [Resources -> Seq(Locks)]
    BY <1>0, WithoutLemma
  <2>3. \A r \in Resources \ OwnedBy(t) : h[r] = NoHolder => w[r] = << >>
    <3> SUFFICES ASSUME NEW r \in Resources \ OwnedBy(t), h[r] = NoHolder PROVE w[r] = << >>
      OBVIOUS
    <3>1. waiting[r] = << >> /\ waiting[r] \in Seq(Locks)
      BY <1>0
    <3>2. w[r] = Without(waiting[r], t) /\ w[r] \in Seq(Locks)
      BY <2>2
    <3>3. DOMAIN w[r] = {}
      <4>1. \A k \in DOMAIN Without(waiting[r], t) : \E i \in DOMAIN waiting[r] : TRUE
        BY <3>1, WithoutLemma
      <4>2. DOMAIN waiting[r] = {}
        BY <3>1
      <4> HIDE DEF w
      <4> QED BY <3>2, <4>1, <4>2
    <3> HIDE DEF w
    <3> QED BY <3>2, <3>3
  <2>4. LockNextWorker(OwnedBy(t), h, w, calls)
    BY <1>4 DEF ReleaseAllForThread
  <2> HIDE DEF h, w
  <2> QED BY <2>1, <2>2, <2>3, <2>4, NextWorkerServes
<1>5. CASE UNCHANGED vars
  BY <1>1, <1>5 DEF vars, parentVars
<1>6. ASSUME NEW t \in Threads, HandleEvent(t) PROVE NoForgottenWaiter'
  <2> DEFINE e == Head(toParent[t])
  <2>1. e \in Event
    BY <1>6, TailOfSeq DEF HandleEvent, TypeOK
  <2>2. \/ e.event = "lock" /\ HandleLock(e.lock)
        \/ e.event = "unlock" /\ HandleUnlock(e.lock)
        \/ UNCHANGED <<holder, waiting>>
    BY <1>6 DEF HandleEvent
  <2> HIDE DEF e
  <2>3. e.event \in {"lock", "unlock"} => e.lock \in Locks
    BY <2>1 DEF Event
  <2>4. ASSUME NEW l \in Locks, HandleUnlock(l) PROVE NoForgottenWaiter'
    BY <1>2, <2>4 DEF HandleUnlock
  <2> QED BY <1>1, <1>3, <2>2, <2>3, <2>4
<1>7. ASSUME NEW t \in Threads, ReleaseAll(t) \/ Terminate(t) PROVE NoForgottenWaiter'
  BY <1>4, <1>7 DEF ReleaseAll, Terminate
<1>8. ASSUME NEW c \in calls, LockChangeFails(c) PROVE NoForgottenWaiter'
  <2>1. c.lock \in Locks
    BY DEF TypeOK, LockChanged
  <2> QED BY <1>1, <1>2, <1>8, <2>1 DEF LockChangeFails
<1>9. ASSUME NEW t \in Threads,
             InitWorker(t) \/ StartJob(t) \/ StopThread(t) \/ HandlerReturns(t)
               \/ HandlerAbandons(t) \/ FinishJob(t) \/ Crash(t)
      PROVE  NoForgottenWaiter'
  BY <1>1, <1>9 DEF InitWorker, StartJob, StopThread, HandlerReturns, HandlerAbandons,
                    FinishJob, Crash, parentVars
<1>10. ASSUME NEW l \in Locks, LockStep(l) PROVE NoForgottenWaiter'
  BY <1>1, <1>10 DEF LockStep, Acquire, Release, AcquireTimeout, ReleaseTimeout, parentVars
<1>11. ASSUME NEW c \in calls, LockChange(c) PROVE NoForgottenWaiter'
  BY <1>1, <1>11 DEF LockChange, parentVars
<1> QED BY <1>5, <1>6, <1>7, <1>8, <1>9, <1>10, <1>11, Zenon DEF Next, ThreadStep, CallStep

(* The lock table never forgets a waiter. *)
THEOREM NoForgottenWaiterHolds == Spec => []NoForgottenWaiter
<1>1. Init => NoForgottenWaiter
  BY DEF Init, NoForgottenWaiter
<1>2. TypeOK /\ NoForgottenWaiter /\ [Next]_vars => NoForgottenWaiter'
  BY NoForgottenStep
<1> QED BY <1>1, <1>2, TypeCorrect, PTL DEF Spec

-----------------------------------------------------------------------------
(***************************************************************************)
(* A lock table, as a pair of its holders and its queues.                  *)
(***************************************************************************)

(* Lock l is in the table (h, w). *)
Has(h, w, l) == \E r \in Resources : h[r] = l \/ \E i \in DOMAIN w[r] : w[r][i] = l

(* Every lock in the table is where it belongs, and only there. *)
Once(h, w) ==
  \A r \in Resources :
    /\ h[r] \in Locks => h[r].res = r
    /\ \A i \in DOMAIN w[r] : w[r][i].res = r /\ w[r][i] # h[r]
    /\ \A i, j \in DOMAIN w[r] : w[r][i] = w[r][j] => i = j

TableType(h, w) == h \in [Resources -> Locks \cup {NoHolder}] /\ w \in [Resources -> Seq(Locks)]

(* Queue w keeps the order of queue q: what is ahead in w of an entry of q *)
(* is ahead of it in q.                                                    *)
InOrder(w, q) ==
  \A i \in DOMAIN q, k \in DOMAIN w :
    w[k] = q[i] => \A j \in 1 .. k - 1 : \E h \in 1 .. i - 1 : w[j] = q[h]

(* What NoOvertaking says of one resource in one step. *)
NobodyOvertakes(r) ==
  \A i \in DOMAIN waiting[r], k \in DOMAIN waiting'[r] :
    waiting'[r][k] = waiting[r][i] =>
      /\ \A j \in 1 .. k - 1 : \E h \in 1 .. i - 1 : waiting'[r][j] = waiting[r][h]
      /\ holder'[r] \in Locks \ {holder[r]} =>
           \E h \in 1 .. i - 1 : holder'[r] = waiting[r][h]

(* A queue without its first entry. *)
LEMMA TailOnce ==
  ASSUME NEW q \in Seq(Locks), q # << >>,
         \A i, j \in DOMAIN q : q[i] = q[j] => i = j
  PROVE  /\ \A i \in DOMAIN Tail(q) : i + 1 \in DOMAIN q /\ Tail(q)[i] = q[i + 1] /\ Tail(q)[i] # q[1]
         /\ \A i, j \in DOMAIN Tail(q) : Tail(q)[i] = Tail(q)[j] => i = j
<1>1. /\ 1 \in DOMAIN q
      /\ \A i \in DOMAIN Tail(q) :
           i \in Nat \ {0} /\ i + 1 \in DOMAIN q /\ Tail(q)[i] = q[i + 1]
  BY TailOfSeq
<1>2. \A i \in DOMAIN Tail(q) : i + 1 # 1
  BY <1>1
<1>3. \A i, j \in DOMAIN Tail(q) : i + 1 = j + 1 => i = j
  BY <1>1
<1> QED BY <1>1, <1>2, <1>3, Zenon

(* lockNextWorker moves locks within the table only, each to where it      *)
(* belongs.                                                                *)
LEMMA NextWorkerOnce ==
  ASSUME NEW STATE R, NEW STATE h, NEW STATE w, NEW STATE c,
         TableType(h, w), Once(h, w), R \subseteq Resources,
         LockNextWorker(R, h, w, c)
  PROVE  /\ Once(holder', waiting')
         /\ \A l \in Locks : Has(holder', waiting', l) => Has(h, w, l)
<1> DEFINE next == {r \in R : h[r] = NoHolder /\ w[r] # << >>}
<1>1. /\ holder' = [r \in Resources |-> IF r \in next THEN Head(w[r]) ELSE h[r]]
      /\ waiting' = [r \in Resources |-> IF r \in next THEN Tail(w[r]) ELSE w[r]]
  BY DEF LockNextWorker
<1>2. \A r \in Resources : w[r] \in Seq(Locks)
  BY DEF TableType
<1>3. \A r \in next : r \in Resources /\ w[r] # << >>
  OBVIOUS
<1> HIDE DEF next
<1>4. ASSUME NEW r \in next
      PROVE  /\ r \in Resources
             /\ 1 \in DOMAIN w[r] /\ Head(w[r]) = w[r][1] /\ Head(w[r]) \in Locks
             /\ \A i \in DOMAIN Tail(w[r]) :
                  i + 1 \in DOMAIN w[r] /\ Tail(w[r])[i] = w[r][i + 1] /\ Tail(w[r])[i] # w[r][1]
             /\ \A i, j \in DOMAIN Tail(w[r]) : Tail(w[r])[i] = Tail(w[r])[j] => i = j
  <2>1. r \in Resources /\ w[r] # << >> /\ w[r] \in Seq(Locks)
    BY <1>2, <1>3
  <2>2. \A i, j \in DOMAIN w[r] : w[r][i] = w[r][j] => i = j
    BY <2>1 DEF Once
  <2> QED BY <2>1, <2>2, TailOfSeq, TailOnce
<1>5. ASSUME NEW r \in next
      PROVE  /\ holder'[r] = w[r][1] /\ holder'[r] \in Locks /\ 1 \in DOMAIN w[r]
             /\ \A i \in DOMAIN waiting'[r] :
                  i + 1 \in DOMAIN w[r] /\ waiting'[r][i] = w[r][i + 1] /\ waiting'[r][i] # w[r][1]
             /\ \A i, j \in DOMAIN waiting'[r] : waiting'[r][i] = waiting'[r][j] => i = j
  <2>1. holder'[r] = Head(w[r]) /\ waiting'[r] = Tail(w[r])
    BY <1>1, <1>4
  <2>2. /\ \A i \in DOMAIN waiting'[r] :
             i + 1 \in DOMAIN w[r] /\ waiting'[r][i] = w[r][i + 1] /\ waiting'[r][i] # w[r][1]
        /\ \A i, j \in DOMAIN waiting'[r] : waiting'[r][i] = waiting'[r][j] => i = j
    <3>1. /\ \A i \in DOMAIN Tail(w[r]) :
               i + 1 \in DOMAIN w[r] /\ Tail(w[r])[i] = w[r][i + 1] /\ Tail(w[r])[i] # w[r][1]
          /\ \A i, j \in DOMAIN Tail(w[r]) : Tail(w[r])[i] = Tail(w[r])[j] => i = j
      BY <1>4
    <3> QED BY <2>1, <3>1, Zenon
  <2>3. holder'[r] = w[r][1] /\ holder'[r] \in Locks /\ 1 \in DOMAIN w[r]
    BY <1>4, <2>1
  <2> QED BY <2>2, <2>3
<1>0. ASSUME NEW r \in Resources, r \notin next
      PROVE  holder'[r] = h[r] /\ waiting'[r] = w[r]
  BY <1>0, <1>1
<1>6. Once(holder', waiting')
  <2> SUFFICES ASSUME NEW r \in Resources
               PROVE  /\ holder'[r] \in Locks => holder'[r].res = r
                      /\ \A i \in DOMAIN waiting'[r] :
                           waiting'[r][i].res = r /\ waiting'[r][i] # holder'[r]
                      /\ \A i, j \in DOMAIN waiting'[r] : waiting'[r][i] = waiting'[r][j] => i = j
    BY DEF Once
  <2>1. /\ h[r] \in Locks => h[r].res = r
        /\ \A i \in DOMAIN w[r] : w[r][i].res = r /\ w[r][i] # h[r]
        /\ \A i, j \in DOMAIN w[r] : w[r][i] = w[r][j] => i = j
    BY DEF Once
  <2>2. CASE r \in next
    BY <1>5, <2>1, <2>2
  <2>3. CASE r \notin next
    BY <1>0, <2>1, <2>3
  <2> QED BY <2>2, <2>3
<1>7. \A l \in Locks : Has(holder', waiting', l) => Has(h, w, l)
  <2> SUFFICES ASSUME NEW l \in Locks, NEW r \in Resources,
                      holder'[r] = l \/ \E i \in DOMAIN waiting'[r] : waiting'[r][i] = l
               PROVE  h[r] = l \/ \E i \in DOMAIN w[r] : w[r][i] = l
    BY DEF Has
  <2>1. CASE r \in next
    BY <1>5, <2>1
  <2>2. CASE r \notin next
    BY <1>0, <2>2
  <2> QED BY <2>1, <2>2
<1> QED BY <1>6, <1>7

(* lockNextWorker lets nobody overtake, if the queues it is given keep the *)
(* order of those of the table, and no new holder.                         *)
LEMMA NextWorkerInOrder ==
  ASSUME NEW STATE R, NEW STATE h, NEW STATE w, NEW STATE c,
         TableType(h, w), R \subseteq Resources,
         \A r \in Resources : waiting[r] \in Seq(Locks) /\ InOrder(w[r], waiting[r]),
         \A r \in Resources : h[r] \in {NoHolder, holder[r]},
         LockNextWorker(R, h, w, c)
  PROVE  \A r \in Resources : NobodyOvertakes(r)
<1> DEFINE next == {r \in R : h[r] = NoHolder /\ w[r] # << >>}
<1>1. /\ holder' = [r \in Resources |-> IF r \in next THEN Head(w[r]) ELSE h[r]]
      /\ waiting' = [r \in Resources |-> IF r \in next THEN Tail(w[r]) ELSE w[r]]
  BY DEF LockNextWorker
<1>2. \A r \in next : w[r] # << >>
  OBVIOUS
<1> HIDE DEF next
<1> TAKE r \in Resources
<1>3. /\ r \in next => holder'[r] = Head(w[r]) /\ waiting'[r] = Tail(w[r])
      /\ r \notin next => holder'[r] = h[r] /\ waiting'[r] = w[r]
  BY <1>1
<1>4. CASE r \in next
  <2>1. w[r] \in Seq(Locks) /\ w[r] # << >>
    BY <1>2, <1>4 DEF TableType
  <2>2. Head(w[r]) = w[r][1]
    BY <2>1, TailOfSeq
  <2>3. \A k \in DOMAIN Tail(w[r]) :
          /\ k \in Nat \ {0} /\ k + 1 \in DOMAIN w[r] /\ Tail(w[r])[k] = w[r][k + 1]
    BY <2>1, TailOfSeq
  <2>4. \A k \in DOMAIN Tail(w[r]) : \A j \in 1 .. k - 1 :
          j \in DOMAIN Tail(w[r]) /\ j + 1 \in 1 .. (k + 1) - 1
    <3>1. DOMAIN Tail(w[r]) = 1 .. Len(Tail(w[r])) /\ Len(Tail(w[r])) \in Nat
      BY <2>1
    <3> QED BY <3>1
  <2>5. holder'[r] = w[r][1] /\ waiting'[r] = Tail(w[r])
    BY <1>3, <1>4, <2>2
  <2>6. /\ \A k \in DOMAIN waiting'[r] :
             k \in Nat \ {0} /\ k + 1 \in DOMAIN w[r] /\ waiting'[r][k] = w[r][k + 1]
        /\ \A k \in DOMAIN waiting'[r] : \A j \in 1 .. k - 1 :
             j \in DOMAIN waiting'[r] /\ j + 1 \in 1 .. (k + 1) - 1
    BY <2>3, <2>4, <2>5, Zenon
  <2> SUFFICES ASSUME NEW i \in DOMAIN waiting[r], NEW k \in DOMAIN waiting'[r],
                      waiting'[r][k] = waiting[r][i]
               PROVE  /\ \A j \in 1 .. k - 1 : \E g \in 1 .. i - 1 : waiting'[r][j] = waiting[r][g]
                      /\ \E g \in 1 .. i - 1 : holder'[r] = waiting[r][g]
    BY DEF NobodyOvertakes
  <2>7. \A j \in 1 .. (k + 1) - 1 : \E g \in 1 .. i - 1 : w[r][j] = waiting[r][g]
    <3>1. w[r][k + 1] = waiting[r][i] /\ k + 1 \in DOMAIN w[r]
      BY <2>6
    <3> QED BY <3>1 DEF InOrder
  <2>8. \E g \in 1 .. i - 1 : holder'[r] = waiting[r][g]
    <3>1. 1 \in 1 .. (k + 1) - 1
      BY <2>6
    <3> QED BY <2>5, <2>7, <3>1
  <2>9. ASSUME NEW j \in 1 .. k - 1
        PROVE  \E g \in 1 .. i - 1 : waiting'[r][j] = waiting[r][g]
    <3>1. j \in DOMAIN waiting'[r] /\ j + 1 \in 1 .. (k + 1) - 1 /\ waiting'[r][j] = w[r][j + 1]
      BY <2>6
    <3> QED BY <2>7, <3>1
  <2> QED BY <2>8, <2>9
<1>5. CASE r \notin next
  <2>1. holder'[r] \notin Locks \ {holder[r]}
    BY <1>3, <1>5, LocksAreNotNoHolder
  <2> QED BY <1>3, <1>5, <2>1 DEF NobodyOvertakes, InOrder
<1> QED BY <1>4, <1>5

(* A queue keeps its own order, and so does one with a new entry at its    *)
(* end.                                                                    *)
LEMMA OwnOrder ==
  ASSUME NEW q \in Seq(Locks), \A i, j \in DOMAIN q : q[i] = q[j] => i = j
  PROVE  InOrder(q, q)
<1> SUFFICES ASSUME NEW i \in DOMAIN q, NEW k \in DOMAIN q, q[k] = q[i]
             PROVE  \A j \in 1 .. k - 1 : \E h \in 1 .. i - 1 : q[j] = q[h]
  BY DEF InOrder
<1>1. k = i
  OBVIOUS
<1> QED BY <1>1

(* A new entry at the end of a queue overtakes nothing. *)
LEMMA AppendOnce ==
  ASSUME NEW q \in Seq(Locks), \A i, j \in DOMAIN q : q[i] = q[j] => i = j,
         NEW l \in Locks, \A i \in DOMAIN q : q[i] # l
  PROVE  /\ \A i, j \in DOMAIN Append(q, l) : Append(q, l)[i] = Append(q, l)[j] => i = j
         /\ InOrder(Append(q, l), q)
<1>1. \A i \in DOMAIN Append(q, l) :
        \/ i \in DOMAIN q /\ Append(q, l)[i] = q[i]
        \/ i = Len(q) + 1 /\ Append(q, l)[i] = l
  BY AppendToSeq
<1>2. \A i, j \in DOMAIN Append(q, l) : Append(q, l)[i] = Append(q, l)[j] => i = j
  BY <1>1
<1>3. InOrder(Append(q, l), q)
  <2> SUFFICES ASSUME NEW i \in DOMAIN q, NEW k \in DOMAIN Append(q, l), Append(q, l)[k] = q[i]
               PROVE  \A j \in 1 .. k - 1 : \E h \in 1 .. i - 1 : Append(q, l)[j] = q[h]
    BY DEF InOrder
  <2>1. k \in DOMAIN q /\ k = i
    BY <1>1
  <2>2. \A j \in 1 .. k - 1 : j \in DOMAIN q /\ Append(q, l)[j] = q[j]
    BY <2>1
  <2> QED BY <2>1, <2>2
<1> QED BY <1>2, <1>3

(* releaseAllForThread neither repeats nor reorders what it keeps. *)
LEMMA WithoutOnce ==
  ASSUME NEW q \in Seq(Locks), \A i, j \in DOMAIN q : q[i] = q[j] => i = j, NEW t
  PROVE  /\ \A i, j \in DOMAIN Without(q, t) : Without(q, t)[i] = Without(q, t)[j] => i = j
         /\ InOrder(Without(q, t), q)
<1> DEFINE I == Places(q, NotOf(t, Locks))
           w == Without(q, t)
<1>1. /\ DOMAIN q = 1 .. Len(q) /\ Len(q) \in Nat
      /\ \A k \in DOMAIN w : k \in Nat /\ \A j \in 1 .. k - 1 : j \in DOMAIN w /\ j < k
  <2>1. Cardinality(I) \in Nat /\ DOMAIN w = 1 .. Cardinality(I)
    BY OnlyPlaces DEF Without
  <2> QED BY <2>1
<1>2. /\ \A k \in DOMAIN w : Nth(I, k) \in DOMAIN q /\ w[k] = q[Nth(I, k)]
      /\ \A j, k \in DOMAIN w : j < k <=> Nth(I, j) < Nth(I, k)
  BY OnlyPlaces DEF Without
<1>3. \A i, j \in DOMAIN w : w[i] = w[j] => i = j
  BY OnlyOnce DEF Without
<1> HIDE DEF I, w
<1>4. InOrder(w, q)
  <2> SUFFICES ASSUME NEW i \in DOMAIN q, NEW k \in DOMAIN w, w[k] = q[i],
                      NEW j \in 1 .. k - 1
               PROVE  \E h \in 1 .. i - 1 : w[j] = q[h]
    BY DEF InOrder
  <2>1. i = Nth(I, k)
    BY <1>2
  <2>2. Nth(I, j) < i /\ Nth(I, j) \in DOMAIN q /\ w[j] = q[Nth(I, j)]
    BY <1>1, <1>2, <2>1
  <2>3. Nth(I, j) \in 1 .. i - 1
    BY <1>1, <2>2
  <2> QED BY <2>2, <2>3
<1> QED BY <1>3, <1>4 DEF w

(***************************************************************************)
(* The three things that happen to the table.                              *)
(***************************************************************************)

(* The properties of the table, as operators of its two parts. *)
LEMMA TableForm ==
  ASSUME TypeOK, WaitingInPlace
  PROVE  /\ TableType(holder, waiting)
         /\ HolderInPlace /\ InTableOnce <=> Once(holder, waiting)
         /\ \A l \in Locks : InTable(l) <=> Has(holder, waiting, l)
<1>1. TableType(holder, waiting)
  BY DEF TypeOK, TableType
<1>2. \A l \in Locks : InTable(l) <=> Has(holder, waiting, l)
  BY DEF InTable, Has
<1>3. \A r \in Resources : \A i \in DOMAIN waiting[r] :
        waiting[r][i] \in Locks /\ waiting[r][i].res = r
  BY DEF TypeOK, WaitingInPlace
<1>4. HolderInPlace /\ InTableOnce => Once(holder, waiting)
  BY <1>3 DEF HolderInPlace, InTableOnce, Once
<1>5. Once(holder, waiting) => HolderInPlace /\ InTableOnce
  BY <1>3 DEF HolderInPlace, InTableOnce, Once
<1> QED BY <1>1, <1>2, <1>4, <1>5

(* The resource of a lock is freed, if the lock has it, and goes to the    *)
(* next one.                                                               *)
LEMMA FreeOnce ==
  ASSUME TypeOK, WaitingInPlace, HolderInPlace, InTableOnce,
         NEW l \in Locks, NEW STATE c, LockNextWorker({l.res}, FreedBy(l), waiting, c)
  PROVE  /\ Once(holder', waiting')
         /\ \A k \in Locks : Has(holder', waiting', k) => Has(holder, waiting, k)
         /\ \A r \in Resources : NobodyOvertakes(r)
<1>1. TableType(FreedBy(l), waiting) /\ {l.res} \subseteq Resources
  BY FreedByType DEF TypeOK, TableType
<1>2. Once(holder, waiting)
  BY TableForm
<1>3. \A r \in Resources : FreedBy(l)[r] \in {NoHolder, holder[r]}
  BY DEF FreedBy, TypeOK
<1>4. \A r \in Resources : \A i \in DOMAIN waiting[r] : waiting[r][i] \in Locks
  BY DEF TypeOK
<1>5. Once(FreedBy(l), waiting)
  BY <1>2, <1>3, <1>4, LocksAreNotNoHolder DEF Once
<1>6. \A k \in Locks : Has(FreedBy(l), waiting, k) => Has(holder, waiting, k)
  BY <1>3, LocksAreNotNoHolder DEF Has
<1>7. \A r \in Resources : waiting[r] \in Seq(Locks) /\ InOrder(waiting[r], waiting[r])
  <2> TAKE r \in Resources
  <2>1. waiting[r] \in Seq(Locks) /\ \A i, j \in DOMAIN waiting[r] : waiting[r][i] = waiting[r][j] => i = j
    BY <1>2 DEF TypeOK, Once
  <2> QED BY <2>1, OwnOrder
<1>8. /\ Once(holder', waiting')
      /\ \A k \in Locks : Has(holder', waiting', k) => Has(FreedBy(l), waiting, k)
  BY <1>1, <1>5, NextWorkerOnce
<1>9. \A r \in Resources : NobodyOvertakes(r)
  BY <1>1, <1>3, <1>7, NextWorkerInOrder
<1> QED BY <1>6, <1>8, <1>9

(* A request that the table does not know is put at the end of its queue. *)
LEMMA RequestOnce ==
  ASSUME TypeOK, WaitingInPlace, HolderInPlace, InTableOnce,
         NEW l \in Locks, ~ Has(holder, waiting, l), HandleLock(l)
  PROVE  /\ Once(holder', waiting')
         /\ \A k \in Locks : Has(holder', waiting', k) => Has(holder, waiting, k) \/ k = l
         /\ \A r \in Resources : NobodyOvertakes(r)
<1> DEFINE w == [waiting EXCEPT ![l.res] = Append(@, l)]
<1>1. l.res \in Resources
  BY DEF Locks
<1>2. Once(holder, waiting)
  BY TableForm
<1>3. \A r \in Resources : r # l.res => w[r] = waiting[r]
  BY DEF TypeOK
<1>4. w[l.res] = Append(waiting[l.res], l)
  BY <1>1 DEF TypeOK
<1>5. \A r \in Resources :
        /\ waiting[r] \in Seq(Locks)
        /\ \A i, j \in DOMAIN waiting[r] : waiting[r][i] = waiting[r][j] => i = j
  BY <1>2 DEF TypeOK, Once
<1>6. \A i \in DOMAIN waiting[l.res] : waiting[l.res][i] # l
  BY <1>1 DEF Has
<1>7. /\ w[l.res] \in Seq(Locks)
      /\ \A i \in DOMAIN w[l.res] :
           (i \in DOMAIN waiting[l.res] /\ w[l.res][i] = waiting[l.res][i]) \/ w[l.res][i] = l
  BY <1>1, <1>4, <1>5, AppendToSeq
<1>8. /\ \A i, j \in DOMAIN w[l.res] : w[l.res][i] = w[l.res][j] => i = j
      /\ InOrder(w[l.res], waiting[l.res])
  BY <1>1, <1>4, <1>5, <1>6, AppendOnce
<1>9. DOMAIN w = Resources /\ w = [r \in Resources |-> w[r]]
  BY DEF TypeOK
<1>10. LockNextWorker({l.res}, holder, w, calls)
  BY DEF HandleLock
<1> HIDE DEF w
<1>11. TableType(holder, w) /\ {l.res} \subseteq Resources
  <2>1. \A r \in Resources : w[r] \in Seq(Locks)
    BY <1>3, <1>5, <1>7
  <2>2. w \in [Resources -> Seq(Locks)]
    BY <1>9, <2>1
  <2> QED BY <1>1, <2>2 DEF TableType, TypeOK
<1>12. Once(holder, w)
  <2> SUFFICES ASSUME NEW r \in Resources
               PROVE  /\ holder[r] \in Locks => holder[r].res = r
                      /\ \A i \in DOMAIN w[r] : w[r][i].res = r /\ w[r][i] # holder[r]
                      /\ \A i, j \in DOMAIN w[r] : w[r][i] = w[r][j] => i = j
    BY DEF Once
  <2>1. /\ holder[r] \in Locks => holder[r].res = r
        /\ \A i \in DOMAIN waiting[r] : waiting[r][i].res = r /\ waiting[r][i] # holder[r]
        /\ \A i, j \in DOMAIN waiting[r] : waiting[r][i] = waiting[r][j] => i = j
    BY <1>2 DEF Once
  <2>2. holder[r] # l
    BY DEF Has
  <2>3. CASE r = l.res
    BY <1>7, <1>8, <2>1, <2>2, <2>3
  <2>4. CASE r # l.res
    BY <1>3, <2>1, <2>4
  <2> QED BY <2>3, <2>4
<1>13. \A k \in Locks : Has(holder, w, k) => Has(holder, waiting, k) \/ k = l
  BY <1>1, <1>3, <1>7, Zenon DEF Has
<1>14. \A r \in Resources : waiting[r] \in Seq(Locks) /\ InOrder(w[r], waiting[r])
  <2> TAKE r \in Resources
  <2>1. InOrder(waiting[r], waiting[r])
    BY <1>5, OwnOrder
  <2> QED BY <1>3, <1>5, <1>8, <2>1
<1>15. /\ Once(holder', waiting')
       /\ \A k \in Locks : Has(holder', waiting', k) => Has(holder, w, k)
  BY <1>10, <1>11, <1>12, NextWorkerOnce
<1>16. \A r \in Resources : NobodyOvertakes(r)
  BY <1>10, <1>11, <1>14, NextWorkerInOrder
<1> QED BY <1>13, <1>15, <1>16

(* releaseAllForThread leaves nothing of its thread. *)
LEMMA ReleaseAllOnce ==
  ASSUME TypeOK, WaitingInPlace, HolderInPlace, InTableOnce,
         NEW t \in Threads, ReleaseAllForThread(t)
  PROVE  /\ Once(holder', waiting')
         /\ \A k \in Locks : Has(holder', waiting', k) => Has(holder, waiting, k) /\ k.thread # t
         /\ \A r \in Resources : NobodyOvertakes(r)
<1> DEFINE h == [r \in Resources |-> IF r \in OwnedBy(t) THEN NoHolder ELSE holder[r]]
           w == [r \in Resources |-> Without(waiting[r], t)]
<1>1. Once(holder, waiting)
  BY TableForm
<1>2. \A r \in Resources :
        /\ waiting[r] \in Seq(Locks)
        /\ \A i, j \in DOMAIN waiting[r] : waiting[r][i] = waiting[r][j] => i = j
  BY <1>1 DEF TypeOK, Once
<1>3. \A r \in Resources :
        /\ w[r] \in Seq(Locks)
        /\ \A k \in DOMAIN w[r] : \E i \in DOMAIN waiting[r] : w[r][k] = waiting[r][i] /\ waiting[r][i].thread # t
        /\ \A i, j \in DOMAIN w[r] : w[r][i] = w[r][j] => i = j
        /\ InOrder(w[r], waiting[r])
  <2> TAKE r \in Resources
  <2>1. w[r] = Without(waiting[r], t)
    OBVIOUS
  <2> HIDE DEF w
  <2> QED BY <1>2, <2>1, WithoutLemma, WithoutOnce
<1>4. \A r \in Resources :
        /\ h[r] \in {NoHolder, holder[r]}
        /\ h[r] # NoHolder => h[r].thread # t
  BY DEF OwnedBy, TypeOK
<1>5. OwnedBy(t) \subseteq Resources
  BY DEF OwnedBy
<1>6. TableType(h, w)
  <2>1. h \in [Resources -> Locks \cup {NoHolder}]
    BY DEF TypeOK
  <2>2. w \in [Resources -> Seq(Locks)]
    BY <1>3
  <2> QED BY <2>1, <2>2 DEF TableType
<1>7. LockNextWorker(OwnedBy(t), h, w, calls)
  BY DEF ReleaseAllForThread
<1> HIDE DEF h, w
<1>8. Once(h, w)
  <2> SUFFICES ASSUME NEW r \in Resources
               PROVE  /\ h[r] \in Locks => h[r].res = r
                      /\ \A i \in DOMAIN w[r] : w[r][i].res = r /\ w[r][i] # h[r]
                      /\ \A i, j \in DOMAIN w[r] : w[r][i] = w[r][j] => i = j
    BY DEF Once
  <2>1. /\ holder[r] \in Locks => holder[r].res = r
        /\ \A i \in DOMAIN waiting[r] :
             waiting[r][i] \in Locks /\ waiting[r][i].res = r /\ waiting[r][i] # holder[r]
    BY <1>1, <1>2 DEF Once
  <2>2. \A i \in DOMAIN w[r] : w[r][i].res = r /\ w[r][i] # h[r]
    <3> TAKE k \in DOMAIN w[r]
    <3>1. PICK i \in DOMAIN waiting[r] : w[r][k] = waiting[r][i]
      BY <1>3
    <3> QED BY <1>4, <2>1, <3>1, LocksAreNotNoHolder
  <2>3. h[r] \in Locks => h[r].res = r
    BY <1>4, <2>1, LocksAreNotNoHolder
  <2>4. \A i, j \in DOMAIN w[r] : w[r][i] = w[r][j] => i = j
    BY <1>3
  <2> QED BY <2>2, <2>3, <2>4
<1>9. \A k \in Locks : Has(h, w, k) => Has(holder, waiting, k) /\ k.thread # t
  <2> SUFFICES ASSUME NEW k \in Locks, NEW r \in Resources,
                      h[r] = k \/ \E i \in DOMAIN w[r] : w[r][i] = k
               PROVE  (holder[r] = k \/ \E i \in DOMAIN waiting[r] : waiting[r][i] = k) /\ k.thread # t
    BY DEF Has
  <2>1. CASE h[r] = k
    BY <1>4, <2>1, LocksAreNotNoHolder
  <2>2. ASSUME NEW j \in DOMAIN w[r], w[r][j] = k
        PROVE  (\E i \in DOMAIN waiting[r] : waiting[r][i] = k) /\ k.thread # t
    BY <1>3, <2>2
  <2> QED BY <2>1, <2>2
<1>10. /\ Once(holder', waiting')
       /\ \A k \in Locks : Has(holder', waiting', k) => Has(h, w, k)
  BY <1>5, <1>6, <1>7, <1>8, NextWorkerOnce
<1>11. \A r \in Resources : waiting[r] \in Seq(Locks) /\ InOrder(w[r], waiting[r])
  BY <1>2, <1>3
<1>12. \A r \in Resources : NobodyOvertakes(r)
  <2>1. \A r \in Resources : h[r] \in {NoHolder, holder[r]}
    BY <1>4
  <2> QED BY <1>5, <1>6, <1>7, <1>11, <2>1, NextWorkerInOrder
<1> QED BY <1>9, <1>10, <1>12

(***************************************************************************)
(* Requests on their way.                                                  *)
(***************************************************************************)

(* What is said of the requests in the channel of one thread. *)
Asks(t, lp, q) ==
  \A i \in DOMAIN q :
    IsRequest(q[i]) =>
      /\ q[i].lock.thread = t
      /\ \A j \in DOMAIN q : IsRequest(q[j]) /\ q[j].lock = q[i].lock => i = j
      /\ lp = "running"
      /\ \A j \in 1 .. i : q[j].event \notin {"result", "closed"}

(* The properties of the requests, thread by thread. *)
LEMMA RequestForm ==
  RequestsAreNew /\ RequestsPrecedeResult <=>
    \A t \in Threads :
      /\ Asks(t, loop[t], toParent[t])
      /\ \A i \in DOMAIN toParent[t] :
           IsRequest(toParent[t][i]) => ~ Has(holder, waiting, toParent[t][i].lock)
<1>1. \A l : InTable(l) <=> Has(holder, waiting, l)
  BY Zenon DEF InTable, Has
<1> QED BY <1>1, Zenon DEF RequestsAreNew, RequestsPrecedeResult, Asks

(* The parts of TableInv in the next state. *)
LEMMA TableInvNext ==
  ASSUME TypeOK', WaitingInPlace', Once(holder', waiting'),
         \A t \in Threads :
           /\ Asks(t, loop'[t], toParent'[t])
           /\ \A i \in DOMAIN toParent'[t] :
                IsRequest(toParent'[t][i]) => ~ Has(holder', waiting', toParent'[t][i].lock)
           /\ loop'[t] \in {"idle", "leaving", "stopped"} =>
                \A l \in Locks : l.thread = t => ~ Has(holder', waiting', l)
  PROVE  TableInv'
<1>1. /\ holder' \in [Resources -> Locks \cup {NoHolder}]
      /\ \A r \in Resources : \A i \in DOMAIN waiting'[r] :
           waiting'[r][i] \in Locks /\ waiting'[r][i].res = r
  BY DEF TypeOK, WaitingInPlace
<1>2. HolderInPlace'
  BY DEF HolderInPlace, Once
<1>3. InTableOnce'
  BY <1>1 DEF InTableOnce, Once
<1>4. RequestsAreNew'
  BY Zenon DEF RequestsAreNew, Asks, InTable, Has
<1>5. RequestsPrecedeResult'
  BY Zenon DEF RequestsPrecedeResult, Asks
<1>6. NothingLeftBetweenJobs'
  <2> SUFFICES ASSUME NEW t \in Threads, loop'[t] \in {"idle", "leaving", "stopped"}, NEW r \in Resources
               PROVE  /\ holder'[r] # NoHolder => holder'[r].thread # t
                      /\ \A i \in DOMAIN waiting'[r] : waiting'[r][i].thread # t
    BY DEF NothingLeftBetweenJobs
  <2>1. \A l \in Locks : l.thread = t => ~ Has(holder', waiting', l)
    OBVIOUS
  <2>2. holder'[r] # NoHolder => holder'[r] \in Locks
    BY <1>1
  <2> QED BY <1>1, <2>1, <2>2, ZenonT(30) DEF Has
<1> QED BY <1>2, <1>3, <1>4, <1>5, <1>6 DEF TableInv

(* What NothingLeftBetweenJobs says of the table as a set. *)
LEMMA NothingLeftForm ==
  ASSUME TypeOK, NothingLeftBetweenJobs, NEW t \in Threads, loop[t] \in {"idle", "leaving", "stopped"}
  PROVE  \A l \in Locks : l.thread = t => ~ Has(holder, waiting, l)
BY LocksAreNotNoHolder DEF NothingLeftBetweenJobs, Has

(* A request is of a lock. *)
LEMMA RequestsLock ==
  ASSUME NEW e \in Event, IsRequest(e)
  PROVE  e.lock \in Locks
BY DEF Event, IsRequest

(* Taking the first event of a channel. *)
LEMMA AsksTail ==
  ASSUME NEW t, NEW lp, NEW q \in Seq(Event), q # << >>, Asks(t, lp, q)
  PROVE  /\ Asks(t, lp, Tail(q))
         /\ \A i \in DOMAIN Tail(q) :
              IsRequest(Tail(q)[i]) =>
                /\ IsRequest(Head(q)) => Tail(q)[i].lock # Head(q).lock
                /\ Head(q).event \notin {"result", "closed"}
<1>1. /\ 1 \in DOMAIN q /\ Head(q) = q[1]
      /\ \A i \in DOMAIN Tail(q) : i \in Nat \ {0} /\ i + 1 \in DOMAIN q /\ Tail(q)[i] = q[i + 1]
  BY TailOfSeq
<1>2. \A i \in DOMAIN Tail(q) : \A j \in 1 .. i : j \in DOMAIN Tail(q) /\ j + 1 \in 1 .. i + 1
  <2>1. DOMAIN Tail(q) = 1 .. Len(Tail(q)) /\ Len(Tail(q)) \in Nat
    OBVIOUS
  <2> QED BY <2>1
<1>3. \A i, j \in DOMAIN Tail(q) : i + 1 = j + 1 => i = j
  BY <1>1
<1>4. \A i \in DOMAIN Tail(q) : i + 1 # 1 /\ 1 \in 1 .. i + 1
  BY <1>1
<1> DEFINE p == Tail(q)
<1> HIDE DEF p
<1>5. /\ \A i \in DOMAIN p : i + 1 \in DOMAIN q /\ p[i] = q[i + 1] /\ i + 1 # 1 /\ 1 \in 1 .. i + 1
      /\ \A i \in DOMAIN p : \A j \in 1 .. i : j \in DOMAIN p /\ j + 1 \in 1 .. i + 1
      /\ \A i, j \in DOMAIN p : i + 1 = j + 1 => i = j
  BY <1>1, <1>2, <1>3, <1>4 DEF p
<1>6. ASSUME NEW i \in DOMAIN p, IsRequest(p[i])
      PROVE  /\ p[i].lock.thread = t
             /\ \A j \in DOMAIN p : IsRequest(p[j]) /\ p[j].lock = p[i].lock => i = j
             /\ lp = "running"
             /\ \A j \in 1 .. i : p[j].event \notin {"result", "closed"}
             /\ IsRequest(q[1]) => p[i].lock # q[1].lock
             /\ q[1].event \notin {"result", "closed"}
  <2>1. i + 1 \in DOMAIN q /\ p[i] = q[i + 1] /\ IsRequest(q[i + 1])
    BY <1>5, <1>6
  <2>2. /\ q[i + 1].lock.thread = t
        /\ \A j \in DOMAIN q : IsRequest(q[j]) /\ q[j].lock = q[i + 1].lock => i + 1 = j
        /\ lp = "running"
        /\ \A j \in 1 .. i + 1 : q[j].event \notin {"result", "closed"}
    BY <2>1 DEF Asks
  <2> QED BY <1>1, <1>5, <2>1, <2>2
<1>7. Asks(t, lp, p)
  BY <1>6 DEF Asks
<1> QED BY <1>1, <1>6, <1>7 DEF p

(* A new event at the end of a channel: not a request, or the first one of *)
(* its lock, of a job that runs.                                           *)
LEMMA AsksAppend ==
  ASSUME NEW t, NEW lp, NEW q \in Seq(Event), NEW e \in Event, Asks(t, lp, q),
         IsRequest(e) =>
           /\ e.lock.thread = t /\ lp = "running"
           /\ \A i \in DOMAIN q : /\ IsRequest(q[i]) => q[i].lock # e.lock
                                  /\ q[i].event \notin {"result", "closed"}
  PROVE  /\ Asks(t, lp, Append(q, e))
         /\ \A i \in DOMAIN Append(q, e) :
              IsRequest(Append(q, e)[i]) =>
                (i \in DOMAIN q /\ Append(q, e)[i] = q[i]) \/ Append(q, e)[i] = e
<1> DEFINE p == Append(q, e)
<1>1. \A i \in DOMAIN p :
        (i \in DOMAIN q /\ p[i] = q[i]) \/ (i = Len(q) + 1 /\ p[i] = e)
  BY AppendToSeq
<1>2. \A i \in DOMAIN p : \A j \in 1 .. i : j \in DOMAIN p
  OBVIOUS
<1>3. \A i \in DOMAIN q : \A j \in 1 .. i : j \in DOMAIN q /\ j # Len(q) + 1
  OBVIOUS
<1> HIDE DEF p
<1>4. IsRequest(e) => e.event \notin {"result", "closed"}
  BY DEF IsRequest
<1>5. ASSUME NEW i \in DOMAIN p, IsRequest(p[i])
      PROVE  /\ p[i].lock.thread = t
             /\ \A j \in DOMAIN p : IsRequest(p[j]) /\ p[j].lock = p[i].lock => i = j
             /\ lp = "running"
             /\ \A j \in 1 .. i : p[j].event \notin {"result", "closed"}
  <2>1. CASE i \in DOMAIN q /\ p[i] = q[i]
    <3>1. /\ q[i].lock.thread = t /\ lp = "running"
          /\ \A j \in DOMAIN q : IsRequest(q[j]) /\ q[j].lock = q[i].lock => i = j
          /\ \A j \in 1 .. i : q[j].event \notin {"result", "closed"}
      BY <1>5, <2>1 DEF Asks
    <3>2. \A j \in DOMAIN p : IsRequest(p[j]) /\ p[j].lock = p[i].lock => i = j
      BY <1>1, <1>5, <2>1, <3>1
    <3>3. \A j \in 1 .. i : p[j] = q[j]
      BY <1>1, <1>2, <1>3, <2>1
    <3> QED BY <2>1, <3>1, <3>2, <3>3
  <2>2. CASE i = Len(q) + 1 /\ p[i] = e
    <3>1. \A j \in DOMAIN p : IsRequest(p[j]) /\ p[j].lock = p[i].lock => i = j
      BY <1>1, <1>5, <2>2
    <3>2. \A j \in 1 .. i : p[j].event \notin {"result", "closed"}
      BY <1>1, <1>2, <1>4, <1>5, <2>2
    <3> QED BY <1>5, <2>2, <3>1, <3>2
  <2> QED BY <1>1, <2>1, <2>2
<1>6. Asks(t, lp, p)
  BY <1>5 DEF Asks
<1> QED BY <1>1, <1>6 DEF p

(* The events that had arrived before a crash. *)
LEMMA AsksPrefix ==
  ASSUME NEW t, NEW lp, NEW q \in Seq(Event), Asks(t, lp, q), NEW n \in 0 .. Len(q)
  PROVE  /\ SubSeq(q, 1, n) \in Seq(Event)
         /\ Asks(t, lp, SubSeq(q, 1, n))
         /\ \A i \in DOMAIN SubSeq(q, 1, n) : i \in DOMAIN q /\ SubSeq(q, 1, n)[i] = q[i]
<1> DEFINE p == SubSeq(q, 1, n)
<1>1. /\ p \in Seq(Event) /\ Len(p) \in Nat /\ DOMAIN p = 1 .. Len(p)
      /\ \A i \in DOMAIN p : i \in DOMAIN q /\ p[i] = q[i]
  OBVIOUS
<1>2. \A i \in DOMAIN p : \A j \in 1 .. i : j \in DOMAIN p
  BY <1>1
<1> HIDE DEF p
<1>3. Asks(t, lp, p)
  BY <1>1, <1>2 DEF Asks
<1> QED BY <1>1, <1>3 DEF p

(***************************************************************************)
(* The invariant of the table.                                             *)
(***************************************************************************)

(* What a step has to do with the table: each lock is where it belongs,    *)
(* nobody overtakes, and nothing new is in it but perhaps the lock l.      *)
TableStepsTo(l) ==
  /\ Once(holder', waiting')
  /\ \A k \in Locks : Has(holder', waiting', k) => Has(holder, waiting, k) \/ k = l
  /\ \A r \in Resources : NobodyOvertakes(r)

(* A step that leaves the table alone. *)
LEMMA UnchangedTable ==
  ASSUME TypeOK, WaitingInPlace, HolderInPlace, InTableOnce, UNCHANGED <<holder, waiting>>, NEW l
  PROVE  TableStepsTo(l)
<1>1. Once(holder, waiting)
  BY TableForm
<1>2. \A r \in Resources : InOrder(waiting[r], waiting[r])
  <2> TAKE r \in Resources
  <2>1. waiting[r] \in Seq(Locks) /\ \A i, j \in DOMAIN waiting[r] : waiting[r][i] = waiting[r][j] => i = j
    BY <1>1 DEF TypeOK, Once
  <2> QED BY <2>1, OwnOrder
<1>3. \A r \in Resources : NobodyOvertakes(r)
  BY <1>2 DEF NobodyOvertakes, InOrder
<1> QED BY <1>1, <1>3 DEF TableStepsTo

(* A step that adds nothing to the table, makes no request and ends or     *)
(* begins no job.                                                          *)
LEMMA QuietStep ==
  ASSUME TypeOK, WaitingInPlace, TableInv, TypeOK', WaitingInPlace',
         TableStepsTo(NoHolder), UNCHANGED loop,
         \A t \in Threads :
           /\ Asks(t, loop[t], toParent'[t])
           /\ \A i \in DOMAIN toParent'[t] :
                IsRequest(toParent'[t][i]) =>
                  \E j \in DOMAIN toParent[t] : toParent'[t][i] = toParent[t][j]
  PROVE  TableInv'
<1>1. \A t \in Threads : \A i \in DOMAIN toParent[t] :
        IsRequest(toParent[t][i]) =>
          toParent[t][i].lock \in Locks /\ ~ Has(holder, waiting, toParent[t][i].lock)
  BY RequestForm, RequestsLock DEF TypeOK, TableInv
<1>2. \A k \in Locks : Has(holder', waiting', k) => Has(holder, waiting, k)
  BY LocksAreNotNoHolder DEF TableStepsTo
<1>3. \A t \in Threads : \A i \in DOMAIN toParent'[t] :
        IsRequest(toParent'[t][i]) => ~ Has(holder', waiting', toParent'[t][i].lock)
  BY <1>1, <1>2
<1>4. \A t \in Threads : loop'[t] \in {"idle", "leaving", "stopped"} =>
        \A l \in Locks : l.thread = t => ~ Has(holder', waiting', l)
  BY <1>2, NothingLeftForm DEF TableInv
<1> QED BY <1>3, <1>4, TableInvNext DEF TableStepsTo

(* Only the requests of the thread that is told of, and the table, differ. *)
LEMMA ChannelOf ==
  ASSUME TypeOK, TableInv, NEW t \in Threads
  PROVE  /\ toParent[t] \in Seq(Event) /\ Asks(t, loop[t], toParent[t])
         /\ \A i \in DOMAIN toParent[t] :
              IsRequest(toParent[t][i]) => ~ Has(holder, waiting, toParent[t][i].lock)
BY RequestForm DEF TypeOK, TableInv

(* An event reaches the worker process. *)
LEMMA HandleEventTable ==
  ASSUME TypeOK, WaitingInPlace, TableInv, TypeOK', WaitingInPlace',
         NEW t \in Threads, HandleEvent(t)
  PROVE  TableInv' /\ \A r \in Resources : NobodyOvertakes(r)
<1> DEFINE e == Head(toParent[t])
<1>0. HolderInPlace /\ InTableOnce
  BY DEF TableInv
<1>1. /\ toParent[t] # << >> /\ toParent[t] \in Seq(Event)
      /\ toParent'[t] = Tail(toParent[t])
      /\ \A u \in Threads : u # t => toParent'[u] = toParent[u]
      /\ e \in Event /\ 1 \in DOMAIN toParent[t] /\ e = toParent[t][1]
  BY TakeLemma DEF HandleEvent, TypeOK
<1>2. /\ Asks(t, loop[t], toParent'[t])
      /\ \A i \in DOMAIN toParent'[t] :
           IsRequest(toParent'[t][i]) =>
             /\ IsRequest(e) => toParent'[t][i].lock # e.lock
             /\ e.event \notin {"result", "closed"}
  <2>1. Asks(t, loop[t], toParent[t])
    BY ChannelOf
  <2>2. /\ Asks(t, loop[t], Tail(toParent[t]))
        /\ \A i \in DOMAIN Tail(toParent[t]) :
             IsRequest(Tail(toParent[t])[i]) =>
               /\ IsRequest(e) => Tail(toParent[t])[i].lock # e.lock
               /\ e.event \notin {"result", "closed"}
    BY <1>1, <2>1, AsksTail
  <2> HIDE DEF e
  <2> QED BY <1>1, <2>2, Zenon
<1>3. \A i \in DOMAIN toParent'[t] : \E j \in DOMAIN toParent[t] : toParent'[t][i] = toParent[t][j]
  BY TakeLemma, <1>1 DEF HandleEvent
<1>4. \A u \in Threads :
        /\ Asks(u, loop[u], toParent'[u])
        /\ \A i \in DOMAIN toParent'[u] :
             IsRequest(toParent'[u][i]) =>
               \E j \in DOMAIN toParent[u] : toParent'[u][i] = toParent[u][j]
  <2> TAKE u \in Threads
  <2>1. CASE u = t
    BY <1>2, <1>3, <2>1, Zenon
  <2>2. CASE u # t
    BY <1>1, <2>2, ChannelOf, Zenon
  <2> QED BY <2>1, <2>2
<1>5. CASE e.event = "lock" /\ HandleLock(e.lock) /\ UNCHANGED loop
  <2>1. IsRequest(e) /\ e.lock \in Locks
    BY <1>1, <1>5, RequestsLock DEF IsRequest
  <2>2. /\ ~ Has(holder, waiting, e.lock) /\ e.lock.thread = t /\ loop[t] = "running"
    BY <1>1, <2>1, ChannelOf DEF Asks
  <2>3. /\ Once(holder', waiting')
        /\ \A k \in Locks : Has(holder', waiting', k) => Has(holder, waiting, k) \/ k = e.lock
        /\ \A r \in Resources : NobodyOvertakes(r)
    BY <1>0, <1>5, <2>1, <2>2, RequestOnce
  <2>4. \A u \in Threads : \A i \in DOMAIN toParent'[u] :
          IsRequest(toParent'[u][i]) => /\ toParent'[u][i].lock \in Locks
                                        /\ toParent'[u][i].lock # e.lock
                                        /\ ~ Has(holder, waiting, toParent'[u][i].lock)
    <3> SUFFICES ASSUME NEW u \in Threads, NEW i \in DOMAIN toParent'[u], IsRequest(toParent'[u][i])
                 PROVE  /\ toParent'[u][i].lock \in Locks
                        /\ toParent'[u][i].lock # e.lock
                        /\ ~ Has(holder, waiting, toParent'[u][i].lock)
      OBVIOUS
    <3>1. toParent'[u][i].lock \in Locks
      BY RequestsLock DEF TypeOK
    <3>2. ~ Has(holder, waiting, toParent'[u][i].lock)
      BY <1>4, ChannelOf
    <3>3. toParent'[u][i].lock.thread = u
      BY <1>4 DEF Asks
    <3> QED BY <1>2, <2>1, <2>2, <3>1, <3>2, <3>3
  <2>5. \A u \in Threads : loop'[u] \in {"idle", "leaving", "stopped"} =>
          \A l \in Locks : l.thread = u => ~ Has(holder', waiting', l)
    BY <1>5, <2>2, <2>3, NothingLeftForm DEF TableInv
  <2> QED BY <1>4, <1>5, <2>3, <2>4, <2>5, TableInvNext
<1>6. CASE e.event = "unlock" /\ HandleUnlock(e.lock) /\ UNCHANGED loop
  <2>1. e.lock \in Locks
    BY <1>1, <1>6 DEF Event
  <2>2. TableStepsTo(NoHolder)
    BY <1>0, <1>6, <2>1, FreeOnce DEF HandleUnlock, TableStepsTo
  <2> QED BY <1>4, <1>6, <2>2, QuietStep DEF TableStepsTo
<1>7. CASE /\ e.event \in {"result", "closed"}
           /\ UNCHANGED <<holder, waiting>>
           /\ \A u \in Threads : u # t => loop'[u] = loop[u]
           /\ loop'[t] \in {"cleanup", loop[t]}
  <2>1. TableStepsTo(NoHolder)
    BY <1>0, <1>7, UnchangedTable
  <2>2. \A i \in DOMAIN toParent'[t] : ~ IsRequest(toParent'[t][i])
    BY <1>2, <1>7
  <2>3. \A u \in Threads :
          /\ Asks(u, loop'[u], toParent'[u])
          /\ \A i \in DOMAIN toParent'[u] :
               IsRequest(toParent'[u][i]) => ~ Has(holder', waiting', toParent'[u][i].lock)
    <3> TAKE u \in Threads
    <3>1. CASE u = t
      BY <2>2, <3>1 DEF Asks
    <3>2. CASE u # t
      BY <1>1, <1>7, <3>2, ChannelOf
    <3> QED BY <3>1, <3>2
  <2>4. \A u \in Threads : loop'[u] \in {"idle", "leaving", "stopped"} =>
          \A l \in Locks : l.thread = u => ~ Has(holder', waiting', l)
    BY <1>7, NothingLeftForm DEF TableInv
  <2> QED BY <2>1, <2>3, <2>4, TableInvNext DEF TableStepsTo
<1>8. \/ e.event = "lock" /\ HandleLock(e.lock) /\ UNCHANGED loop
      \/ e.event = "unlock" /\ HandleUnlock(e.lock) /\ UNCHANGED loop
      \/ /\ e.event \in {"result", "closed"}
         /\ UNCHANGED <<holder, waiting>>
         /\ loop' \in {[loop EXCEPT ![t] = "cleanup"],
                       [loop EXCEPT ![t] = IF @ = "running" THEN "cleanup" ELSE @]}
  BY DEF HandleEvent
<1>9. loop' \in {[loop EXCEPT ![t] = "cleanup"],
                 [loop EXCEPT ![t] = IF @ = "running" THEN "cleanup" ELSE @]}
      => /\ \A u \in Threads : u # t => loop'[u] = loop[u]
         /\ loop'[t] \in {"cleanup", loop[t]}
  BY DEF TypeOK
<1> QED BY <1>5, <1>6, <1>7, <1>8, <1>9

(* The loop of a thread. *)
LEMMA LoopTable ==
  ASSUME TypeOK, WaitingInPlace, TableInv, TypeOK', WaitingInPlace', NEW t \in Threads,
         InitWorker(t) \/ StartJob(t) \/ ReleaseAll(t) \/ Terminate(t) \/ StopThread(t)
  PROVE  TableInv' /\ \A r \in Resources : NobodyOvertakes(r)
<1>0. HolderInPlace /\ InTableOnce
  BY DEF TableInv
<1>1. \A u \in Threads :
        /\ Asks(u, loop[u], toParent[u])
        /\ \A i \in DOMAIN toParent[u] : IsRequest(toParent[u][i]) =>
             /\ toParent[u][i].lock \in Locks
             /\ ~ Has(holder, waiting, toParent[u][i].lock)
             /\ loop[u] = "running"
  BY ChannelOf, RequestsLock DEF Asks, TypeOK
<1>2. CASE InitWorker(t)
  <2>1. UNCHANGED <<holder, waiting, loop, toParent>>
    BY <1>2 DEF InitWorker, parentVars
  <2> QED BY <1>0, <1>1, <2>1, UnchangedTable, QuietStep DEF TableStepsTo
<1>3. CASE Terminate(t)
  <2>1. ReleaseAllForThread(t) /\ UNCHANGED <<loop, toParent>>
    BY <1>3 DEF Terminate
  <2>2. TableStepsTo(NoHolder)
    BY <1>0, <2>1, ReleaseAllOnce DEF TableStepsTo
  <2> QED BY <1>1, <2>1, <2>2, QuietStep DEF TableStepsTo
<1>4. CASE StartJob(t)
  <2>1. /\ loop[t] = "idle" /\ loop'[t] \in {"cleanup", "running"}
        /\ \A u \in Threads : u # t => loop'[u] = loop[u]
        /\ UNCHANGED <<holder, waiting, toParent>>
    BY <1>4 DEF StartJob, TypeOK
  <2>2. TableStepsTo(NoHolder)
    BY <1>0, <2>1, UnchangedTable
  <2>3. \A u \in Threads : Asks(u, loop'[u], toParent'[u])
    BY <1>1, <2>1 DEF Asks
  <2>4. \A u \in Threads : loop'[u] \in {"idle", "leaving", "stopped"} =>
          \A l \in Locks : l.thread = u => ~ Has(holder', waiting', l)
    BY <2>1, NothingLeftForm DEF TableInv
  <2> QED BY <1>1, <2>1, <2>2, <2>3, <2>4, TableInvNext DEF TableStepsTo
<1>5. CASE ReleaseAll(t)
  <2>1. /\ loop[t] = "cleanup" /\ ReleaseAllForThread(t) /\ UNCHANGED toParent
        /\ \A u \in Threads : u # t => loop'[u] = loop[u]
    BY <1>5 DEF ReleaseAll, TypeOK
  <2>2. /\ Once(holder', waiting')
        /\ \A k \in Locks : Has(holder', waiting', k) => Has(holder, waiting, k) /\ k.thread # t
        /\ \A r \in Resources : NobodyOvertakes(r)
    BY <1>0, <2>1, ReleaseAllOnce
  <2>3. \A u \in Threads : Asks(u, loop'[u], toParent'[u])
    BY <1>1, <2>1 DEF Asks
  <2>4. \A u \in Threads : loop'[u] \in {"idle", "leaving", "stopped"} =>
          \A l \in Locks : l.thread = u => ~ Has(holder', waiting', l)
    BY <2>1, <2>2, NothingLeftForm DEF TableInv
  <2>5. \A u \in Threads : \A i \in DOMAIN toParent'[u] :
          IsRequest(toParent'[u][i]) => ~ Has(holder', waiting', toParent'[u][i].lock)
    BY <1>1, <2>1, <2>2
  <2> QED BY <2>2, <2>3, <2>4, <2>5, TableInvNext
<1>6. CASE StopThread(t)
  <2>1. /\ loop[t] \in {"idle", "leaving"} /\ toParent'[t] = << >>
        /\ \A u \in Threads : u # t => loop'[u] = loop[u] /\ toParent'[u] = toParent[u]
        /\ UNCHANGED <<holder, waiting>>
    BY <1>6 DEF StopThread, TypeOK
  <2>2. TableStepsTo(NoHolder)
    BY <1>0, <2>1, UnchangedTable
  <2>3. \A u \in Threads :
          /\ Asks(u, loop'[u], toParent'[u])
          /\ \A i \in DOMAIN toParent'[u] :
               IsRequest(toParent'[u][i]) => ~ Has(holder', waiting', toParent'[u][i].lock)
    <3> TAKE u \in Threads
    <3>1. CASE u = t
      <4>1. DOMAIN toParent'[u] = {}
        BY <2>1, <3>1
      <4> QED BY <4>1 DEF Asks
    <3>2. CASE u # t
      BY <1>1, <2>1, <3>2
    <3> QED BY <3>1, <3>2
  <2>4. \A u \in Threads : loop'[u] \in {"idle", "leaving", "stopped"} =>
          \A l \in Locks : l.thread = u => ~ Has(holder', waiting', l)
    BY <2>1, NothingLeftForm DEF TableInv
  <2> QED BY <2>2, <2>3, <2>4, TableInvNext DEF TableStepsTo
<1> QED BY <1>2, <1>3, <1>4, <1>5, <1>6

(* The job of a thread, and the process of a thread. *)
LEMMA JobTable ==
  ASSUME TypeOK, WaitingInPlace, TableInv, TypeOK', WaitingInPlace', NEW t \in Threads,
         HandlerReturns(t) \/ HandlerAbandons(t) \/ FinishJob(t) \/ Crash(t)
  PROVE  TableInv' /\ \A r \in Resources : NobodyOvertakes(r)
<1>0. TableStepsTo(NoHolder) /\ UNCHANGED loop
  <2>1. HolderInPlace /\ InTableOnce
    BY DEF TableInv
  <2>2. UNCHANGED <<holder, waiting, loop>>
    BY DEF HandlerReturns, HandlerAbandons, FinishJob, Crash, parentVars
  <2> QED BY <2>1, <2>2, UnchangedTable
<1>1. \A u \in Threads : Asks(u, loop[u], toParent[u]) /\ toParent[u] \in Seq(Event)
  BY ChannelOf
<1>2. CASE HandlerReturns(t) \/ HandlerAbandons(t)
  <2>1. UNCHANGED toParent
    BY <1>2 DEF HandlerReturns, HandlerAbandons
  <2> QED BY <1>0, <1>1, <2>1, QuietStep DEF TableStepsTo
<1> DEFINE ended == [event |-> "closed"]
           done == [event |-> "result"]
<1>3. /\ ended \in Event /\ ~ IsRequest(ended)
      /\ done \in Event /\ ~ IsRequest(done)
  BY DEF Event, IsRequest
<1>4. CASE FinishJob(t)
  <2>1. /\ toParent'[t] = Append(toParent[t], done)
        /\ \A u \in Threads : u # t => toParent'[u] = toParent[u]
    BY <1>4 DEF FinishJob, Emit, TypeOK
  <2> HIDE DEF done
  <2>2. /\ Asks(t, loop[t], toParent'[t])
        /\ \A i \in DOMAIN toParent'[t] : IsRequest(toParent'[t][i]) =>
             \E j \in DOMAIN toParent[t] : toParent'[t][i] = toParent[t][j]
    <3>1. /\ Asks(t, loop[t], Append(toParent[t], done))
          /\ \A i \in DOMAIN Append(toParent[t], done) : IsRequest(Append(toParent[t], done)[i]) =>
               \E j \in DOMAIN toParent[t] : Append(toParent[t], done)[i] = toParent[t][j]
      BY <1>1, <1>3, AsksAppend
    <3> QED BY <2>1, <3>1, Zenon
  <2>3. \A u \in Threads :
          /\ Asks(u, loop[u], toParent'[u])
          /\ \A i \in DOMAIN toParent'[u] : IsRequest(toParent'[u][i]) =>
               \E j \in DOMAIN toParent[u] : toParent'[u][i] = toParent[u][j]
    BY <1>1, <2>1, <2>2
  <2> QED BY <1>0, <2>3, QuietStep DEF TableStepsTo
<1>5. CASE Crash(t)
  <2>1. PICK n \in 0 .. Len(toParent[t]) :
          toParent' = [toParent EXCEPT ![t] = Append(SubSeq(@, 1, n), [event |-> "closed"])]
    BY <1>5 DEF Crash
  <2> DEFINE q == SubSeq(toParent[t], 1, n)
  <2>2. /\ toParent'[t] = Append(q, ended)
        /\ \A u \in Threads : u # t => toParent'[u] = toParent[u]
    BY <2>1 DEF TypeOK
  <2>3. /\ q \in Seq(Event) /\ Asks(t, loop[t], q)
        /\ \A i \in DOMAIN q : i \in DOMAIN toParent[t] /\ q[i] = toParent[t][i]
    BY <1>1, AsksPrefix
  <2> HIDE DEF q, ended
  <2>4. /\ Asks(t, loop[t], toParent'[t])
        /\ \A i \in DOMAIN toParent'[t] : IsRequest(toParent'[t][i]) =>
             \E j \in DOMAIN toParent[t] : toParent'[t][i] = toParent[t][j]
    <3>1. /\ Asks(t, loop[t], Append(q, ended))
          /\ \A i \in DOMAIN Append(q, ended) : IsRequest(Append(q, ended)[i]) =>
               \E j \in DOMAIN toParent[t] : Append(q, ended)[i] = toParent[t][j]
      BY <1>3, <2>3, AsksAppend
    <3> QED BY <2>2, <3>1, Zenon
  <2>5. \A u \in Threads :
          /\ Asks(u, loop[u], toParent'[u])
          /\ \A i \in DOMAIN toParent'[u] : IsRequest(toParent'[u][i]) =>
               \E j \in DOMAIN toParent[u] : toParent'[u][i] = toParent[u][j]
    BY <1>1, <2>2, <2>4
  <2> QED BY <1>0, <2>5, QuietStep DEF TableStepsTo
<1> QED BY <1>2, <1>4, <1>5

(* The locks of a thread: a request is of a lock that nothing names yet,   *)
(* of a job that runs.                                                     *)
LEMMA LockTable ==
  ASSUME TypeOK, WaitingInPlace, JobEndsOnce, TableInv, TypeOK', WaitingInPlace',
         NEW l \in Locks, LockStep(l)
  PROVE  TableInv' /\ \A r \in Resources : NobodyOvertakes(r)
<1>0. TableStepsTo(NoHolder) /\ UNCHANGED <<holder, waiting, loop>>
  <2>1. HolderInPlace /\ InTableOnce
    BY DEF TableInv
  <2>2. UNCHANGED <<holder, waiting, loop>>
    BY DEF LockStep, Acquire, Release, AcquireTimeout, ReleaseTimeout, parentVars
  <2> QED BY <2>1, <2>2, UnchangedTable
<1>1. \A u \in Threads :
        /\ Asks(u, loop[u], toParent[u]) /\ toParent[u] \in Seq(Event)
        /\ \A i \in DOMAIN toParent[u] :
             IsRequest(toParent[u][i]) => ~ Has(holder, waiting, toParent[u][i].lock)
  BY ChannelOf
<1>2. CASE AcquireTimeout(l) \/ ReleaseTimeout(l)
  <2>1. UNCHANGED toParent
    BY <1>2 DEF AcquireTimeout, ReleaseTimeout
  <2> QED BY <1>0, <1>1, <2>1, QuietStep DEF TableStepsTo
<1> DEFINE t == l.thread
           ask == [event |-> "lock", lock |-> l]
           free == [event |-> "unlock", lock |-> l]
<1>3. /\ t \in Threads
      /\ ask \in Event /\ ask.lock = l /\ ask.event = "lock"
      /\ free \in Event /\ ~ IsRequest(free)
  BY DEF Locks, Event, IsRequest
<1>4. CASE Release(l)
  <2>1. /\ toParent'[t] = Append(toParent[t], free)
        /\ \A u \in Threads : u # t => toParent'[u] = toParent[u]
    BY <1>3, <1>4 DEF Release, Emit, TypeOK
  <2> HIDE DEF free, t
  <2>2. /\ Asks(t, loop[t], toParent'[t])
        /\ \A i \in DOMAIN toParent'[t] : IsRequest(toParent'[t][i]) =>
             \E j \in DOMAIN toParent[t] : toParent'[t][i] = toParent[t][j]
    <3>1. /\ Asks(t, loop[t], Append(toParent[t], free))
          /\ \A i \in DOMAIN Append(toParent[t], free) : IsRequest(Append(toParent[t], free)[i]) =>
               \E j \in DOMAIN toParent[t] : Append(toParent[t], free)[i] = toParent[t][j]
      BY <1>1, <1>3, AsksAppend
    <3> QED BY <2>1, <3>1, Zenon
  <2>3. \A u \in Threads :
          /\ Asks(u, loop[u], toParent'[u])
          /\ \A i \in DOMAIN toParent'[u] : IsRequest(toParent'[u][i]) =>
               \E j \in DOMAIN toParent[u] : toParent'[u][i] = toParent[u][j]
    BY <1>1, <2>1, <2>2
  <2> QED BY <1>0, <2>3, QuietStep DEF TableStepsTo
<1>5. CASE Acquire(l)
  <2>1. /\ toParent'[t] = Append(toParent[t], ask)
        /\ \A u \in Threads : u # t => toParent'[u] = toParent[u]
    BY <1>3, <1>5 DEF Acquire, Emit, TypeOK
  <2>2. loop[t] = "running" /\ \A i \in DOMAIN toParent[t] : toParent[t][i].event \notin {"result", "closed"}
    BY <1>3, <1>5 DEF Acquire, JobEndsOnce
  <2>3. ~ Known(l)
    BY <1>5 DEF Acquire
  <2>4. \A i \in DOMAIN toParent[t] : IsRequest(toParent[t][i]) => toParent[t][i].lock # l
    BY <1>3, <2>3 DEF Known, IsRequest
  <2>5. ~ Has(holder, waiting, l)
    BY <2>3 DEF Known, Has
  <2> HIDE DEF ask, t
  <2>6. /\ Asks(t, loop[t], toParent'[t])
        /\ \A i \in DOMAIN toParent'[t] : IsRequest(toParent'[t][i]) =>
             \/ \E j \in DOMAIN toParent[t] : toParent'[t][i] = toParent[t][j]
             \/ toParent'[t][i] = ask
    <3>1. /\ Asks(t, loop[t], Append(toParent[t], ask))
          /\ \A i \in DOMAIN Append(toParent[t], ask) : IsRequest(Append(toParent[t], ask)[i]) =>
               \/ \E j \in DOMAIN toParent[t] : Append(toParent[t], ask)[i] = toParent[t][j]
               \/ Append(toParent[t], ask)[i] = ask
      <4>1. ask.lock.thread = t
        BY <1>3 DEF t
      <4>2. /\ Asks(t, loop[t], Append(toParent[t], ask))
            /\ \A i \in DOMAIN Append(toParent[t], ask) : IsRequest(Append(toParent[t], ask)[i]) =>
                 \/ i \in DOMAIN toParent[t] /\ Append(toParent[t], ask)[i] = toParent[t][i]
                 \/ Append(toParent[t], ask)[i] = ask
        BY <1>1, <1>3, <2>2, <2>4, <4>1, AsksAppend
      <4> QED BY <4>2
    <3> QED BY <2>1, <3>1, Zenon
  <2>7. \A u \in Threads :
          /\ Asks(u, loop'[u], toParent'[u])
          /\ \A i \in DOMAIN toParent'[u] :
               IsRequest(toParent'[u][i]) => ~ Has(holder', waiting', toParent'[u][i].lock)
    <3> TAKE u \in Threads
    <3>1. CASE u = t
      BY <1>0, <1>1, <1>3, <2>5, <2>6, <3>1
    <3>2. CASE u # t
      BY <1>0, <1>1, <2>1, <3>2
    <3> QED BY <3>1, <3>2
  <2>8. \A u \in Threads : loop'[u] \in {"idle", "leaving", "stopped"} =>
          \A k \in Locks : k.thread = u => ~ Has(holder', waiting', k)
    BY <1>0, NothingLeftForm DEF TableInv
  <2> QED BY <1>0, <2>7, <2>8, TableInvNext DEF TableStepsTo
<1> QED BY <1>2, <1>4, <1>5 DEF LockStep

(* The answers of the threads to the calls of the worker process. *)
LEMMA CallTable ==
  ASSUME TypeOK, WaitingInPlace, TableInv, TypeOK', WaitingInPlace', NEW c \in calls, CallStep(c)
  PROVE  TableInv' /\ \A r \in Resources : NobodyOvertakes(r)
<1>0. HolderInPlace /\ InTableOnce
  BY DEF TableInv
<1>1. c.lock \in Locks
  BY DEF TypeOK, LockChanged
<1>2. UNCHANGED <<loop, toParent>>
  BY DEF CallStep, LockChange, LockChangeFails, parentVars
<1>3. \/ UNCHANGED <<holder, waiting>>
      \/ LockNextWorker({c.lock.res}, FreedBy(c.lock), waiting, calls \ {c})
  BY DEF CallStep, LockChange, LockChangeFails, parentVars
<1>4. TableStepsTo(NoHolder)
  <2>1. CASE UNCHANGED <<holder, waiting>>
    BY <1>0, <2>1, UnchangedTable
  <2>2. CASE LockNextWorker({c.lock.res}, FreedBy(c.lock), waiting, calls \ {c})
    BY <1>0, <1>1, <2>2, FreeOnce DEF TableStepsTo
  <2> QED BY <1>3, <2>1, <2>2
<1> QED BY <1>2, <1>4, ChannelOf, QuietStep DEF TableStepsTo

(* Every step keeps the invariant of the table, and the order.             *)
LEMMA TableInvStep ==
  ASSUME IInv, IInv', TableInv, [Next]_vars
  PROVE  TableInv' /\ \A r \in Resources : NobodyOvertakes(r)
<1> USE DEF IInv, Inv
<1>1. CASE UNCHANGED vars
  <2>1. UNCHANGED <<holder, waiting, loop, toParent>>
    BY <1>1 DEF vars, parentVars
  <2>2. HolderInPlace /\ InTableOnce
    BY DEF TableInv
  <2>3. TableStepsTo(NoHolder)
    BY <2>1, <2>2, UnchangedTable
  <2> QED BY <2>1, <2>3, ChannelOf, QuietStep DEF TableStepsTo
<1>2. ASSUME NEW t \in Threads, ThreadStep(t)
      PROVE  TableInv' /\ \A r \in Resources : NobodyOvertakes(r)
  BY <1>2, HandleEventTable, LoopTable, JobTable DEF ThreadStep
<1> QED BY <1>1, <1>2, LockTable, CallTable DEF Next

(* The invariant of the lock table: every lock in it once, in its place, of a
   thread that has a job; and what is asked for is not yet in it. *)
THEOREM TableInvHolds == Spec => []TableInv
<1>1. Init => TableInv
  <2> SUFFICES ASSUME Init PROVE TableInv
    OBVIOUS
  <2>1. /\ \A r \in Resources : holder[r] = NoHolder /\ holder[r] \notin Locks /\ DOMAIN waiting[r] = {}
        /\ \A t \in Threads : DOMAIN toParent[t] = {}
    BY LocksAreNotNoHolder DEF Init
  <2>2. RequestsAreNew /\ RequestsPrecedeResult
    BY <2>1 DEF RequestsAreNew, RequestsPrecedeResult
  <2>3. HolderInPlace /\ InTableOnce /\ NothingLeftBetweenJobs
    BY <2>1 DEF HolderInPlace, InTableOnce, NothingLeftBetweenJobs
  <2> QED BY <2>2, <2>3 DEF TableInv
<1>2. IInv /\ IInv' /\ TableInv /\ [Next]_vars => TableInv'
  BY TableInvStep
<1> QED BY <1>1, <1>2, InvHolds, PTL DEF Spec

(* A lock is in the table at most once, however often it is asked for,     *)
(* given back, or lost with its process.                                   *)
THEOREM InTableOnceHolds == Spec => []InTableOnce
<1>1. TableInv => InTableOnce
  BY DEF TableInv
<1> QED BY <1>1, TableInvHolds, PTL

(* When the loop is between two jobs of a thread, or has stopped, the      *)
(* thread neither has nor waits for anything in the table.                 *)
THEOREM NothingLeftBetweenJobsHolds == Spec => []NothingLeftBetweenJobs
<1>1. TableInv => NothingLeftBetweenJobs
  BY DEF TableInv
<1> QED BY <1>1, TableInvHolds, PTL

(* In no step does a request get ahead of one that arrived before it.      *)
THEOREM NoOvertakingHolds == Spec => NoOvertaking
<1>1. IInv /\ IInv' /\ TableInv /\ [Next]_vars =>
        [\A r \in Resources : \A i \in DOMAIN waiting[r], k \in DOMAIN waiting'[r] :
           waiting'[r][k] = waiting[r][i] =>
             /\ \A j \in 1 .. k - 1 : \E h \in 1 .. i - 1 : waiting'[r][j] = waiting[r][h]
             /\ holder'[r] \in Locks \ {holder[r]} =>
                  \E h \in 1 .. i - 1 : holder'[r] = waiting[r][h]]_vars
  BY TableInvStep, Zenon DEF NobodyOvertakes
<1> QED BY <1>1, InvHolds, TableInvHolds, PTL DEF Spec, NoOvertaking
=============================================================================

---------------------------- MODULE RundownMoves ----------------------------
(***************************************************************************)
(* Which playlist a rundown belongs to, while the newsroom system (NRCS)   *)
(* and users move and remove it.  The ingest thread commits updates and    *)
(* removals (ingest/commit.ts, ingest/rundownInput.ts); the studio thread  *)
(* runs the moves and removals of users (rundownPlaylists.ts, studio/      *)
(* cleanup.ts) and the playout.  Both write the same documents, under the  *)
(* locks of the rundown and of one playlist after the other: between two   *)
(* playlists a rundown belongs to Tmp ('__TMP__').                         *)
(*                                                                         *)
(* A lock is what StudioLocks shows it to be: of one thread at a time.  A  *)
(* thread runs one job at a time; what a job does between two writes to    *)
(* the database that others can tell apart is one action.                  *)
(***************************************************************************)
EXTENDS Integers, Sequences, FiniteSets, SequencesExt, Filter

CONSTANTS
  Rundowns,
  Playlists,    \* the playlists that the NRCS knows
  Fresh,        \* ids for the playlists that users make
  Tmp,          \* '__TMP__'
  None,         \* no rundown, no playlist, no document
  DefaultOrder, \* the rundowns in the order of timing and name
  MaxJobs,      \* bound: jobs that change what belongs where
  MaxFaults     \* bound: jobs that fail, or die with their thread

ASSUME IdsAssumption ==
  /\ Tmp \notin Playlists \cup Fresh
  /\ Playlists \cap Fresh = {}
  /\ None \notin Rundowns \cup Playlists \cup Fresh \cup {Tmp}
ASSUME OrderAssumption ==
  /\ DefaultOrder \in Seq(Rundowns)
  /\ ToSet(DefaultOrder) = Rundowns
  /\ IsInjective(DefaultOrder)
ASSUME BoundsAssumption == MaxJobs \in Nat /\ MaxFaults \in Nat

Ids == Playlists \cup Fresh \cup {Tmp}
Threads == {"ingest", "studio"}
Free == "free"
Idle == [pc |-> "idle"]

VARIABLES
  rundown,      \* Rundowns collection: home is playlistId, manual playlistIdIsSetInSofie
  playlist,     \* RundownPlaylists collection: order, and the rundowns current and next are of
  data,         \* the rundowns that IngestDataCache has
  rundownLock,
  playlistLock,
  job,          \* the job of each thread
  broken,       \* rundowns that a job that failed has left without a playlist
  placed,       \* where a user has put a rundown
  jobs, faults  \* counted for their bounds

documents == <<rundown, playlist, data>>
locks == <<rundownLock, playlistLock>>
ghosts == <<broken, placed>>
vars == <<documents, locks, job, ghosts, jobs, faults>>

RundownDoc == [home : Ids \cup {None}, manual : BOOLEAN, nrcs : Playlists,
               orphaned : {"no", "manual", "deleted"}]
PlaylistDoc == [order : Seq(Rundowns), manualOrder : BOOLEAN, active : BOOLEAN,
                current : Rundowns \cup {None}, next : Rundowns \cup {None}]

ASSUME NoneAssumption == None \notin RundownDoc \cup PlaylistDoc

(* The type invariant: documents, locks and jobs are what the schemas and  *)
(* the job queues allow, and an order names no rundown twice.              *)
TypeOK ==
  /\ rundown \in [Rundowns -> RundownDoc \cup {None}]
  /\ \A r \in Rundowns : rundown[r] # None => rundown[r].home # None
  /\ DOMAIN playlist = Ids
  /\ \A p \in Ids : playlist[p] # None => playlist[p] \in PlaylistDoc /\ IsInjective(playlist[p].order)
  /\ data \subseteq Rundowns
  /\ rundownLock \in [Rundowns -> Threads \cup {Free}]
  /\ playlistLock \in [Ids -> Threads \cup {Free}]
  /\ DOMAIN job = Threads
  /\ broken \subseteq Rundowns
  /\ placed \in [Rundowns -> Ids \cup {None}]

NewPlaylist == [order |-> << >>, manualOrder |-> FALSE, active |-> FALSE, current |-> None, next |-> None]

(* The database of a studio: what the NRCS has sent so far, with nothing   *)
(* on air.                                                                 *)
Init ==
  /\ \E nrcs \in [Rundowns -> Playlists] :
       /\ rundown = [r \in Rundowns |->
                       [home |-> nrcs[r], manual |-> FALSE, nrcs |-> nrcs[r], orphaned |-> "no"]]
       /\ playlist = [p \in Ids |->
                        IF \E r \in Rundowns : nrcs[r] = p
                        THEN [NewPlaylist EXCEPT !.order = Only(DefaultOrder, {r \in Rundowns : nrcs[r] = p})]
                        ELSE None]
  /\ data = Rundowns
  /\ rundownLock = [r \in Rundowns |-> Free]
  /\ playlistLock = [p \in Ids |-> Free]
  /\ job = [t \in Threads |-> Idle]
  /\ broken = {}
  /\ placed = [r \in Rundowns |-> None]
  /\ jobs = 0
  /\ faults = 0

-----------------------------------------------------------------------------
(* What is read from the database, and what is computed from it. *)

Exists(r) == rundown[r] # None
RundownsOf(p) == {r \in Rundowns : Exists(r) /\ rundown[r].home = p}
Live(p, r) == playlist[p] # None /\ playlist[p].active /\ r \in {playlist[p].current, playlist[p].next}

(* Mutant: the current part instance is looked at, the next one is not. *)
AllowedUnlessCurrent(p, r) ==
  ~(playlist[p] # None /\ playlist[p].active /\ r = playlist[p].current)

(* allowedToMoveRundownOutOfPlaylist *)
AllowedToMoveOut(p, r) == ~Live(p, r)

(* Mutant: rundowns that are not in the order yet are not added to it. *)
OrderOfKnown(doc, S) ==
  Only(IF doc.manualOrder THEN doc.order ELSE DefaultOrder, S)

(* Mutant: all rundowns are added to the order, those it has again. *)
OrderOfAll(doc, S) ==
  LET sorted == Only(DefaultOrder, S)
      base   == IF doc.manualOrder THEN doc.order ELSE sorted
  IN  Only(base \o sorted, S)

(* The order of the rundowns S that produceRundownPlaylistInfoFromRundown  *)
(* gives the playlist doc.                                                 *)
OrderOf(doc, S) ==
  LET sorted == Only(DefaultOrder, S)
      base   == IF doc.manualOrder THEN doc.order ELSE sorted
  IN  Only(base \o Only(sorted, S \ ToSet(base)), S)

(* produceRundownPlaylistInfoFromRundown, for the playlist that exists or  *)
(* for a new one.                                                          *)
Produce(doc, S) ==
  LET old == IF doc = None THEN NewPlaylist ELSE doc
  IN  [old EXCEPT !.order = OrderOf(old, S)]

(* regeneratePlaylistAndRundownOrder: a playlist without rundowns is removed. *)
Regenerate(doc, S) == IF S = {} THEN None ELSE Produce(doc, S)

(* ensureNextPartIsValid, seen from here: in an active playlist the next   *)
(* part may move to any rundown of the playlist, or to none.               *)
EnsureNext(doc, S) ==
  IF doc # None /\ doc.active THEN {[doc EXCEPT !.next = n] : n \in S \cup {None, doc.next}} ELSE {doc}

(* The order that a user asks for: the whole of it, or the rundown with    *)
(* the one before or after it, or, alone, the rundown for the end.         *)
PlaceInOrder(order, r, wanted) ==
  LET rest  == Only(order, Rundowns \ {r})
      other == IF wanted[1] = r THEN wanted[2] ELSE wanted[1]
      at    == CHOOSE i \in DOMAIN rest : rest[i] = other
      known == other \in ToSet(rest)
  IN  IF Len(wanted) = 1 THEN Append(rest, r)
      ELSE IF Len(wanted) > 2 THEN wanted
      ELSE IF wanted[1] = r THEN InsertAt(rest, IF known THEN at ELSE 1, r)
                            ELSE InsertAt(rest, IF known THEN at + 1 ELSE Len(rest) + 1, r)

-----------------------------------------------------------------------------
(* The steps of jobs. *)

Goto(t, pc) == job' = [job EXCEPT ![t] = [@ EXCEPT !.pc = pc]]
Done(t) == job' = [job EXCEPT ![t] = Idle]
Lock(l, x, t) == l[x] = Free /\ l' = [l EXCEPT ![x] = t]
Unlock(l, x) == l' = [l EXCEPT ![x] = Free]
Starts(t, j) ==
  /\ job[t] = Idle
  /\ jobs < MaxJobs
  /\ jobs' = jobs + 1
  /\ job' = [job EXCEPT ![t] = j]
At(t, pc) == job[t].pc = pc

(* CommitIngestOperation up to its first lock: doc is the rundown as the   *)
(* job has it in its cache, remove whether it is to be removed.            *)
Commit(r, doc, remove) ==
  LET before == rundown[r]
      target == IF before # None /\ before.manual THEN before.home ELSE doc.nrcs
      leaves == before # None /\ (before.home # target \/ remove)
  IN  /\ Lock(rundownLock, r, "ingest")
      /\ Starts("ingest", [pc |-> IF leaves THEN "leave" ELSE "adopt", r |-> r, doc |-> doc,
                           remove |-> remove, from |-> doc.home, into |-> target])
      /\ UNCHANGED <<rundown, playlist, playlistLock, ghosts, faults>>

(* handleUpdatedRundown, handleRegenerateRundown: the blueprint makes the  *)
(* document anew, with only some properties of the old one.  An update     *)
(* that is refused, since the rundown is orphaned, is no step: its ingest  *)
(* data replaces that of the same rundown, and data says only who has any. *)
UpdateRundown(r, nrcs, isCreateAction) ==
  /\ r \in data \/ isCreateAction
  /\ Exists(r) /\ rundown[r].orphaned # "no" => isCreateAction
  /\ Commit(r, [home |-> IF Exists(r) THEN rundown[r].home ELSE None,
                manual |-> FALSE, nrcs |-> nrcs, orphaned |-> "no"], FALSE)
  /\ data' = data \cup {r}

(* The updates of segments and parts: the document is kept. *)
UpdateSegment(r) ==
  /\ r \in data
  /\ Exists(r) /\ rundown[r].orphaned = "no"
  /\ Commit(r, rundown[r], FALSE)
  /\ UNCHANGED data

(* Mutant: only a forced removal removes. *)
RemoveRundownIfForced(r, force) ==
  /\ Exists(r)
  /\ Commit(r, rundown[r], force)
  /\ data' = data \ {r}

(* handleRemovedRundown, handleUserRemoveRundown: the ingest data goes in  *)
(* any case.                                                               *)
RemoveRundown(r, force) ==
  /\ Exists(r)
  /\ Commit(r, rundown[r], force \/ rundown[r].orphaned = "no")
  /\ data' = data \ {r}

(* handleUserUnsyncRundown *)
UnsyncRundown(r) ==
  /\ Starts("ingest", Idle)
  /\ rundownLock[r] = Free
  /\ Exists(r) /\ rundown[r].orphaned = "no"
  /\ rundown' = [rundown EXCEPT ![r].orphaned = "manual"]
  /\ UNCHANGED <<playlist, data, locks, ghosts, faults>>

(* The rundown leaves its playlist p, whose lock is kept for Regenerate. *)
LeaveFor(t, r, p) ==
  /\ rundown' = [rundown EXCEPT ![r].home = Tmp, ![r].manual = @ \/ t = "studio"]
  /\ Lock(playlistLock, p, t)
  /\ Goto(t, "regenerate")
  /\ UNCHANGED <<playlist, data, rundownLock, broken, jobs, faults>>

(* The first lock of CommitIngestOperation.  A rundown that may not leave  *)
(* is trapped: it stays, and is marked if it was to be removed.            *)
LeaveOldPlaylist ==
  LET j == job["ingest"] IN
  /\ At("ingest", "leave")
  /\ playlistLock[j.from] = Free
  /\ \/ /\ AllowedToMoveOut(j.from, j.r)
        /\ LeaveFor("ingest", j.r, j.from)
        /\ placed' = IF j.remove THEN [placed EXCEPT ![j.r] = None] ELSE placed
     \/ /\ ~AllowedToMoveOut(j.from, j.r)
        /\ job' = [job EXCEPT !["ingest"] =
                     [j EXCEPT !.pc = "adopt", !.into = j.from, !.remove = FALSE,
                               !.doc.orphaned = IF j.remove THEN "deleted" ELSE j.doc.orphaned]]
        /\ UNCHANGED <<documents, locks, ghosts, jobs, faults>>

(* The playlist that the rundown has left is made anew, or removed; its    *)
(* playout is brought up to date, and its lock released.                   *)
RegenerateOldPlaylist(t) ==
  LET p == job[t].from
      S == RundownsOf(p)
  IN
  /\ At(t, "regenerate")
  /\ IF playlist[p] = None THEN UNCHANGED playlist
     ELSE \E doc \in EnsureNext(Regenerate(playlist[p], S), S) : playlist' = [playlist EXCEPT ![p] = doc]
  /\ Unlock(playlistLock, p)
  /\ Goto(t, IF t = "studio" THEN "enter" ELSE IF job[t].remove THEN "remove" ELSE "adopt")
  /\ UNCHANGED <<rundown, data, rundownLock, ghosts, jobs, faults>>

(* removeRundownFromDb, of a rundown that has left its playlist. *)
RemoveFromDb ==
  LET r == job["ingest"].r IN
  /\ At("ingest", "remove")
  /\ rundown' = [rundown EXCEPT ![r] = None]
  /\ data' = data \ {r}
  /\ broken' = broken \ {r}
  /\ Unlock(rundownLock, r)
  /\ Done("ingest")
  /\ UNCHANGED <<playlist, playlistLock, placed, jobs, faults>>

(* Mutant: an update by the NRCS sorts the playlist, whoever ordered it. *)
AdoptInNrcsOrder ==
  LET j == job["ingest"]
      S == RundownsOf(j.into) \cup {j.r}
  IN
  /\ At("ingest", "adopt")
  /\ Lock(playlistLock, j.into, "ingest")
  /\ playlist' = [playlist EXCEPT ![j.into] =
                     [Produce(@, S) EXCEPT !.order = Only(DefaultOrder, S)]]
  /\ Goto("ingest", "save")
  /\ UNCHANGED <<rundown, data, rundownLock, ghosts, jobs, faults>>

(* The second lock of CommitIngestOperation: the new playlist is made with *)
(* the rundown before the rundown is saved.                                *)
AdoptIntoPlaylist ==
  LET j == job["ingest"] IN
  /\ At("ingest", "adopt")
  /\ Lock(playlistLock, j.into, "ingest")
  /\ playlist' = [playlist EXCEPT ![j.into] = Produce(@, RundownsOf(j.into) \cup {j.r})]
  /\ Goto("ingest", "save")
  /\ UNCHANGED <<rundown, data, rundownLock, ghosts, jobs, faults>>

(* The rundown and, after it, the playout are saved. *)
SaveRundown ==
  LET j == job["ingest"]
      S == RundownsOf(j.into) \cup {j.r}
  IN
  /\ At("ingest", "save")
  /\ rundown' = [rundown EXCEPT ![j.r] = [j.doc EXCEPT !.home = j.into]]
  /\ \E doc \in EnsureNext(playlist[j.into], S) : playlist' = [playlist EXCEPT ![j.into] = doc]
  /\ Unlock(playlistLock, j.into)
  /\ Unlock(rundownLock, j.r)
  /\ Done("ingest")
  /\ broken' = broken \ {j.r}
  /\ UNCHANGED <<data, placed, jobs, faults>>

-----------------------------------------------------------------------------
(* moveRundownIntoPlaylist *)

(* A random id, that nothing in the database and no job knows. *)
IsNew(p) ==
  /\ playlist[p] = None
  /\ \A r \in Rundowns : Exists(r) => rundown[r].home # p
  /\ job["ingest"] # Idle => p \notin {job["ingest"].from, job["ingest"].into}

(* The target is looked up before anything is locked. *)
MoveRundown(r, into, wanted) ==
  /\ IF into = None THEN \E p \in Fresh : IsNew(p) ELSE playlist[into] # None
  /\ Starts("studio", [pc |-> "lock", r |-> r, into |-> into, wanted |-> wanted, from |-> None])
  /\ UNCHANGED <<documents, locks, ghosts, faults>>

LockMovedRundown ==
  LET j == job["studio"] IN
  /\ At("studio", "lock")
  /\ rundownLock[j.r] = Free
  /\ IF ~Exists(j.r) THEN Done("studio") /\ UNCHANGED rundownLock
     ELSE /\ Lock(rundownLock, j.r, "studio")
          /\ job' = [job EXCEPT !["studio"] =
                       [@ EXCEPT !.from = rundown[j.r].home,
                                 !.pc = IF rundown[j.r].home = j.into THEN "enter" ELSE "leave"]]
  /\ UNCHANGED <<documents, playlistLock, ghosts, jobs, faults>>

(* The job throws: the locks it has are released by its finally blocks. *)
MoveThrows(r) == Unlock(rundownLock, r) /\ Done("studio")

MoveOutOfPlaylist ==
  LET j == job["studio"] IN
  /\ At("studio", "leave")
  /\ playlistLock[j.from] = Free
  /\ IF playlist[j.from] # None /\ AllowedToMoveOut(j.from, j.r)
     THEN /\ LeaveFor("studio", j.r, j.from)
          /\ placed' = [placed EXCEPT ![j.r] = None]
     ELSE /\ MoveThrows(j.r)
          /\ UNCHANGED <<documents, playlistLock, ghosts, jobs, faults>>

(* The target is locked, and may have been removed since it was looked up. *)
MoveIntoPlaylist ==
  LET j == job["studio"] IN
  /\ At("studio", "enter") /\ j.into # None
  /\ playlistLock[j.into] = Free
  /\ IF playlist[j.into] = None
     THEN /\ MoveThrows(j.r)
          /\ broken' = broken \cup {j.r}
          /\ UNCHANGED <<documents, playlistLock, placed, jobs, faults>>
     ELSE /\ Lock(playlistLock, j.into, "studio")
          /\ playlist' = [playlist EXCEPT ![j.into].manualOrder = TRUE]
          /\ IF j.from = j.into THEN UNCHANGED <<rundown, ghosts>>
             ELSE /\ rundown' = [rundown EXCEPT ![j.r].home = j.into, ![j.r].manual = TRUE]
                  /\ placed' = [placed EXCEPT ![j.r] = j.into]
                  /\ UNCHANGED broken
          /\ Goto("studio", "order")
          /\ UNCHANGED <<data, rundownLock, jobs, faults>>

OrderPlaylist ==
  LET j   == job["studio"]
      S   == RundownsOf(j.into)
      old == playlist[j.into]
      new == IF j.from = j.into THEN [old EXCEPT !.order = PlaceInOrder(@, j.r, j.wanted)] ELSE old
  IN
  /\ At("studio", "order")
  /\ \E doc \in EnsureNext(Regenerate(new, S), S) : playlist' = [playlist EXCEPT ![j.into] = doc]
  /\ Unlock(playlistLock, j.into)
  /\ Unlock(rundownLock, j.r)
  /\ Done("studio")
  /\ broken' = broken \ ({j.r} \cap data)
  /\ UNCHANGED <<rundown, data, placed, jobs, faults>>

(* A playlist of its own is inserted without a lock, its id being new. *)
InsertPlaylist(p) ==
  /\ At("studio", "enter") /\ job["studio"].into = None
  /\ IsNew(p)
  /\ playlist' = [playlist EXCEPT ![p] = [NewPlaylist EXCEPT !.order = <<job["studio"].r>>]]
  /\ job' = [job EXCEPT !["studio"] = [@ EXCEPT !.pc = "settle", !.into = p]]
  /\ UNCHANGED <<rundown, data, locks, ghosts, jobs, faults>>

SettleInPlaylist ==
  LET j == job["studio"] IN
  /\ At("studio", "settle")
  /\ rundown' = [rundown EXCEPT ![j.r].home = j.into, ![j.r].manual = TRUE]
  /\ placed' = [placed EXCEPT ![j.r] = j.into]
  /\ broken' = broken \ ({j.r} \cap data)
  /\ Unlock(rundownLock, j.r)
  /\ Done("studio")
  /\ UNCHANGED <<playlist, data, playlistLock, jobs, faults>>

-----------------------------------------------------------------------------
(* Other jobs of the studio thread. *)

(* Mutant: the rundowns are removed while the lock is held. *)
RemovePlaylistUnderLock(p) ==
  /\ playlist[p] # None
  /\ Lock(playlistLock, p, "studio")
  /\ Starts("studio", [pc |-> "list", from |-> p])
  /\ playlist' = [playlist EXCEPT ![p] = None]
  /\ UNCHANGED <<rundown, data, rundownLock, ghosts, faults>>

(* handleRemoveRundownPlaylist *)
RemovePlaylist(p) ==
  /\ playlist[p] # None
  /\ playlistLock[p] = Free
  /\ Starts("studio", [pc |-> "list", from |-> p])
  /\ playlist' = [playlist EXCEPT ![p] = None]
  /\ UNCHANGED <<rundown, data, locks, ghosts, faults>>

(* cleanupRundownsForRemovedPlaylist: which rundowns there are is read     *)
(* without a lock,                                                         *)
ListRundowns ==
  LET p == job["studio"].from IN
  /\ At("studio", "list")
  /\ job' = [job EXCEPT !["studio"] =
               IF RundownsOf(p) = {} THEN Idle ELSE [pc |-> "cleanup", from |-> p, todo |-> RundownsOf(p)]]
  /\ UNCHANGED <<documents, locks, ghosts, jobs, faults>>

(* and each is removed under its own, if it is still of that playlist: all *)
(* are asked for at once, and each comes when its lock is free.            *)
CleanupRundown(r) ==
  LET j == job["studio"] IN
  /\ At("studio", "cleanup") /\ r \in j.todo
  /\ rundownLock[r] = Free
  /\ IF Exists(r) /\ rundown[r].home = j.from
     THEN /\ rundown' = [rundown EXCEPT ![r] = None]
          /\ data' = data \ {r}
          /\ placed' = [placed EXCEPT ![r] = None]
     ELSE UNCHANGED <<rundown, data, placed>>
  /\ job' = [job EXCEPT !["studio"] = IF j.todo = {r} THEN Idle ELSE [j EXCEPT !.todo = j.todo \ {r}]]
  /\ UNCHANGED <<playlist, locks, broken, jobs, faults>>

(* A job that holds one playlist lock only, and leaves one document. *)
UnderPlaylistLock(p) ==
  /\ job["studio"] = Idle
  /\ playlistLock[p] = Free
  /\ playlist[p] # None

(* restoreRundownsInPlaylistToDefaultOrder *)
RestoreOrder(p) ==
  LET S == RundownsOf(p) IN
  /\ UnderPlaylistLock(p)
  /\ playlist[p].manualOrder
  /\ \E doc \in EnsureNext(Regenerate([playlist[p] EXCEPT !.manualOrder = FALSE], S), S) :
       playlist' = [playlist EXCEPT ![p] = doc]
  /\ UNCHANGED <<rundown, data, locks, job, ghosts, jobs, faults>>

(* removeEmptyPlaylists, of one playlist. *)
RemoveEmptyPlaylist(p) ==
  /\ UnderPlaylistLock(p)
  /\ ~playlist[p].active
  /\ RundownsOf(p) = {}
  /\ playlist' = [playlist EXCEPT ![p] = None]
  /\ UNCHANGED <<rundown, data, locks, job, ghosts, jobs, faults>>

(* The playout, of which Playout is the model, as far as it decides which  *)
(* rundowns are selected: activation, deactivation, a take, a set next.    *)
Selects(p) ==
  LET doc  == playlist[p]
      next == RundownsOf(p) \cup {None}
      idle == \A q \in Ids : playlist[q] # None => ~playlist[q].active
  IN  {[doc EXCEPT !.active = TRUE, !.next = n] : n \in IF idle THEN next ELSE {}}
      \cup {[doc EXCEPT !.active = FALSE, !.current = None, !.next = None]}
      \cup {[doc EXCEPT !.current = doc.next, !.next = n] : n \in IF doc.next # None THEN next ELSE {}}
      \cup {[doc EXCEPT !.next = n] : n \in IF doc.active THEN next ELSE {}}

PlayoutJob(p) ==
  /\ UnderPlaylistLock(p)
  /\ \E doc \in Selects(p) : playlist' = [playlist EXCEPT ![p] = doc]
  /\ UNCHANGED <<rundown, data, locks, job, ghosts, jobs, faults>>

-----------------------------------------------------------------------------
(* A job fails between two steps, or its thread dies and is restarted: its *)
(* locks are freed, what it has written stays.                             *)

LeftBehind(t) ==
  CASE job[t].pc \in {"list", "cleanup"} -> RundownsOf(job[t].from)
    [] t = "studio" /\ job[t].pc \in {"lock", "leave"} -> {}
    [] OTHER -> {job[t].r}

JobFails(t) ==
  /\ job[t] # Idle
  /\ faults < MaxFaults
  /\ faults' = faults + 1
  /\ broken' = broken \cup {r \in LeftBehind(t) : Exists(r)}
  /\ rundownLock' = [r \in Rundowns |-> IF rundownLock[r] = t THEN Free ELSE rundownLock[r]]
  /\ playlistLock' = [p \in Ids |-> IF playlistLock[p] = t THEN Free ELSE playlistLock[p]]
  /\ Done(t)
  /\ UNCHANGED <<documents, placed, jobs>>

-----------------------------------------------------------------------------
Wanted(r) == {s \in UNION {[1 .. n -> Rundowns] : n \in 1 .. Cardinality(Rundowns)} :
                IsInjective(s) /\ r \in ToSet(s)}

IngestStarts ==
  \E r \in Rundowns :
    \/ \E n \in Playlists, isCreateAction \in BOOLEAN : UpdateRundown(r, n, isCreateAction)
    \/ UpdateSegment(r)
    \/ \E force \in BOOLEAN : RemoveRundown(r, force)
    \/ UnsyncRundown(r)

StudioStarts ==
  \/ \E r \in Rundowns : \/ MoveRundown(r, None, <<r>>)
                         \/ \E p \in Ids :
                              \E w \in IF r \in RundownsOf(p) THEN Wanted(r) ELSE {<<r>>} :
                                MoveRundown(r, p, w)
  \/ \E p \in Ids : RemovePlaylist(p) \/ RestoreOrder(p) \/ RemoveEmptyPlaylist(p) \/ PlayoutJob(p)

IngestStep ==
  LeaveOldPlaylist \/ RegenerateOldPlaylist("ingest") \/ RemoveFromDb \/ AdoptIntoPlaylist \/ SaveRundown

StudioStep ==
  \/ LockMovedRundown \/ MoveOutOfPlaylist \/ RegenerateOldPlaylist("studio") \/ MoveIntoPlaylist
  \/ OrderPlaylist \/ (\E p \in Fresh : InsertPlaylist(p)) \/ SettleInPlaylist
  \/ ListRundowns \/ \E r \in Rundowns : CleanupRundown(r)

Next == IngestStarts \/ StudioStarts \/ IngestStep \/ StudioStep \/ \E t \in Threads : JobFails(t)

Spec == Init /\ [][Next]_vars

-----------------------------------------------------------------------------
(* Properties. *)

Unhoused(r) ==
  LET p == rundown[r].home IN
  /\ Exists(r) /\ rundownLock[r] = Free
  /\ (playlist[p] = None \/ r \notin ToSet(playlist[p].order))

BeingRemoved(p) == (At("studio", "list") \/ At("studio", "cleanup")) /\ job["studio"].from = p

(* A rundown that no job works on is in a playlist that exists and lists   *)
(* it, whatever moves and removals cross; unless the playlist is being     *)
(* removed by a user, or a job on the rundown failed half way.             *)
Housed == \A r \in Rundowns : Unhoused(r) => r \in broken \/ BeingRemoved(rundown[r].home)

(* What a playlist that is on air plays, or will play next, is of a        *)
(* rundown that exists and is still in that playlist: neither the NRCS nor *)
(* a user moves or removes it.  Of a playlist that a user has removed as a *)
(* whole, which nothing refuses while it is on air, it says nothing.       *)
LiveRundownStays ==
  \A p \in Ids \ {Tmp} : \A r \in Rundowns : Live(p, r) => Exists(r) /\ rundown[r].home = p

(* A rundown without the data it was made from is marked as orphaned, so   *)
(* that nothing tries to make it anew; unless a job on it failed.          *)
SyncedHasData ==
  \A r \in Rundowns :
    Exists(r) /\ rundownLock[r] = Free /\ r \notin data => rundown[r].orphaned # "no" \/ r \in broken

(* The order that a user has given to a playlist is only changed by users: *)
(* whatever else happens, the rundowns that stay keep it.                  *)
UserOrderStays ==
  [][\A p \in Ids :
       /\ playlist[p] # None /\ playlist'[p] # None
       /\ playlist[p].manualOrder /\ playlist'[p].manualOrder
       /\ ~(At("studio", "order") /\ job["studio"].into = p /\ job["studio"].from = p)
       => \A r, s \in ToSet(playlist[p].order) \cap ToSet(playlist'[p].order) :
            Precedes(playlist[p].order, r, s) => Precedes(playlist'[p].order, r, s)]_vars

(* Rundowns stay where users put them (violated: see RundownMovesManual). *)
ManualMoveSticks ==
  \A r \in Rundowns : Exists(r) /\ placed[r] # None => rundown[r].home = placed[r]

Blocked(t) ==
  LET j == job[t] IN
  CASE j.pc = "lock" -> rundownLock[j.r] # Free
    [] j.pc = "leave" -> playlistLock[j.from] # Free
    [] j.pc \in {"enter", "adopt"} -> j.into # None /\ playlistLock[j.into] # Free
    [] j.pc = "cleanup" -> \A r \in j.todo : rundownLock[r] # Free
    [] OTHER -> FALSE

(* A thread that waits for a lock waits for the other thread, and that one *)
(* goes on: jobs take the lock of a rundown before that of a playlist, and *)
(* never one of a rundown while they hold one of a playlist.               *)
NoCircularWait ==
  \A t \in Threads : Blocked(t) => \A u \in Threads \ {t} : job[u] # Idle /\ ~Blocked(u)

-----------------------------------------------------------------------------
(* What is true of the rundowns and orders between the steps of jobs: the  *)
(* inductive invariant behind TypeOK, Housed and SyncedHasData.            *)

Lists(p, r) == playlist[p] # None /\ r \in ToSet(playlist[p].order)

(* A job has the rundown, and has it out of its playlist or decides where. *)
Away(r) ==
  \/ rundownLock[r] = "ingest"
  \/ job["studio"].pc \in {"regenerate", "enter", "order", "settle"} /\ job["studio"].r = r

(* The rundown is of a playlist whose removal will come to it. *)
Doomed(r) ==
  /\ At("studio", "list") \/ (At("studio", "cleanup") /\ r \in job["studio"].todo)
  /\ job["studio"].from = rundown[r].home

AllHoused ==
  \A r \in Rundowns : Exists(r) /\ ~Away(r) => Lists(rundown[r].home, r) \/ r \in broken \/ Doomed(r)

(* A playlist that was made for a rundown lists it when the rundown comes; *)
MadeForUpdate == At("ingest", "save") => Lists(job["ingest"].into, job["ingest"].r)

(* that of a user's move is known to that move only. *)
MadeForMove ==
  LET j == job["studio"] IN
  At("studio", "settle") =>
    /\ j.into \in Fresh
    /\ Lists(j.into, j.r)
    /\ \A r \in Rundowns : Exists(r) => rundown[r].home # j.into
    /\ job["ingest"] # Idle => j.into \notin {job["ingest"].from, job["ingest"].into}

(* A rundown without its data is orphaned, or a job on it failed; *)
RundownsSynced ==
  \A r \in Rundowns :
    Exists(r) /\ rundownLock[r] # "ingest" /\ r \notin data => rundown[r].orphaned # "no" \/ r \in broken

(* so is one that an ingest job will save. *)
UpdateSynced ==
  LET j == job["ingest"] IN
  \/ (At("ingest", "leave") \/ At("ingest", "regenerate")) /\ ~j.remove
  \/ At("ingest", "adopt") \/ At("ingest", "save")
  => j.r \in data \/ j.doc.orphaned # "no"

(* What a user asks for names the rundown, and none twice. *)
WantedIsFair ==
  job["studio"].pc \in {"lock", "leave", "regenerate", "enter", "order", "settle"} =>
    IsInjective(job["studio"].wanted) /\ job["studio"].r \in ToSet(job["studio"].wanted)

HomeInv ==
  AllHoused /\ MadeForUpdate /\ MadeForMove /\ RundownsSynced /\ UpdateSynced /\ WantedIsFair
=============================================================================

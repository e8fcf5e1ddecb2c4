------------------------ MODULE RundownMoves_proofs ------------------------
(***************************************************************************)
(* What is on air stays in its playlist, and the two threads never wait    *)
(* for each other, for any rundowns, playlists, jobs and failures.         *)
(***************************************************************************)
EXTENDS RundownMoves, SequenceTheorems, TLAPS

(***************************************************************************)
(* The inductive invariant.                                                *)
(***************************************************************************)

IngestJob == [pc : {"leave", "regenerate", "remove", "adopt", "save"}, r : Rundowns, doc : RundownDoc,
              remove : BOOLEAN, from : Ids \cup {None}, into : Ids]
ListJob == [pc : {"list"}, from : Ids]
CleanupJob == [pc : {"cleanup"}, from : Ids, todo : SUBSET Rundowns]

(* Stages of a move, and those in which it has the lock of its rundown. *)
Locked == {"leave", "regenerate", "enter", "order", "settle"}
MoveJob == [pc : Locked \cup {"lock"}, r : Rundowns, into : Ids \cup {None},
            wanted : Seq(Rundowns), from : Ids \cup {None}]

(* A playlist document, whatever its order is: nothing is selected in an   *)
(* inactive one.                                                           *)
IsPlaylist(d) ==
  /\ d = [order |-> d.order, manualOrder |-> d.manualOrder, active |-> d.active,
          current |-> d.current, next |-> d.next]
  /\ ~d.active => d.current = None /\ d.next = None

(* The playlist exists; the one that a move is putting in order does, too. *)
Present(p) == playlist[p] # None \/ (At("studio", "order") /\ job["studio"].into = p)

Documents ==
  /\ rundown \in [Rundowns -> RundownDoc \cup {None}]
  /\ \A r \in Rundowns : Exists(r) => rundown[r].home \in Ids
  /\ playlist = [p \in Ids |-> playlist[p]]
  /\ \A p \in Ids : Present(p) => IsPlaylist(playlist[p])

(* What an active playlist selects is its own.                             *)
Selected(p, r) == Present(p) /\ playlist[p].active /\ r \in {playlist[p].current, playlist[p].next}
SelectsItsOwn ==
  \A p \in Ids \ {Tmp} : \A r \in Rundowns : Selected(p, r) => Exists(r) /\ rundown[r].home = p

Jobs ==
  /\ job = [t \in Threads |-> job[t]]
  /\ job["ingest"] = Idle \/ job["ingest"] \in IngestJob
  /\ \/ job["studio"] = Idle \/ job["studio"] \in MoveJob \/ job["studio"] \in ListJob
     \/ job["studio"] \in CleanupJob /\ job["studio"].todo # {}

(* Who has which lock is what the steps of the jobs say.                   *)
HoldsRundown(t, r) ==
  /\ job[t].pc \in {"leave", "regenerate", "remove", "adopt", "save", "enter", "order", "settle"}
  /\ job[t].r = r
HoldsPlaylist(t, p) ==
  \/ At(t, "regenerate") /\ job[t].from = p
  \/ (At(t, "save") \/ At(t, "order")) /\ job[t].into = p
RundownLocks ==
  /\ rundownLock \in [Rundowns -> Threads \cup {Free}]
  /\ \A r \in Rundowns, t \in Threads : rundownLock[r] = t <=> HoldsRundown(t, r)
PlaylistLocks ==
  /\ playlistLock \in [Ids -> Threads \cup {Free}]
  /\ \A p \in Ids, t \in Threads : playlistLock[p] = t <=> HoldsPlaylist(t, p)

(* Where a rundown is while a job has its lock: what the job read of it is *)
(* still true.                                                             *)
HomeInIngest ==
  LET j == job["ingest"] IN
  /\ At("ingest", "leave") => Exists(j.r) /\ rundown[j.r].home = j.from
  /\ At("ingest", "regenerate") \/ At("ingest", "remove") =>
       Exists(j.r) /\ rundown[j.r].home = Tmp /\ j.from \in Ids
  /\ (At("ingest", "adopt") \/ At("ingest", "save")) /\ Exists(j.r) => rundown[j.r].home \in {j.into, Tmp}
HomeInMove ==
  LET j == job["studio"] IN
  /\ j.pc \in Locked => Exists(j.r)
  /\ At("studio", "leave") => rundown[j.r].home = j.from /\ j.from # j.into
  /\ At("studio", "regenerate") => rundown[j.r].home = Tmp /\ j.from \in Ids /\ j.from # j.into
  /\ At("studio", "enter") => rundown[j.r].home = IF j.from = j.into THEN j.into ELSE Tmp
  /\ At("studio", "order") => rundown[j.r].home = j.into /\ j.into \in Ids
  /\ At("studio", "settle") => rundown[j.r].home = Tmp /\ j.into \in Ids

(* A playlist whose rundowns are being removed is not on air: the studio   *)
(* thread, which would activate it, is busy.                               *)
RemovedIsOff ==
  LET p == job["studio"].from IN
  At("studio", "list") \/ At("studio", "cleanup") => playlist[p] = None \/ ~playlist[p].active

Control == Jobs /\ RundownLocks /\ PlaylistLocks
Homes == HomeInIngest /\ HomeInMove /\ RemovedIsOff
IInv == Documents /\ SelectsItsOwn /\ Control /\ Homes

(* A step changes the job of one thread only.                               *)
LEMMA JobUpdate ==
  ASSUME Jobs, NEW t \in Threads, NEW j, job' = [job EXCEPT ![t] = j]
  PROVE  /\ job' = [u \in Threads |-> job'[u]]
         /\ job'[t] = j
         /\ \A u \in Threads \ {t} : job'[u] = job[u]
BY DEF Jobs

(* The next stage of an ingest job is an ingest job, of the same rundown.   *)
LEMMA IngestGoto ==
  ASSUME NEW j \in IngestJob, NEW pc
  PROVE  LET k == [j EXCEPT !.pc = pc]
         IN  /\ k.pc = pc /\ k.r = j.r /\ k.doc = j.doc /\ k.remove = j.remove
             /\ k.from = j.from /\ k.into = j.into
             /\ pc \in {"leave", "regenerate", "remove", "adopt", "save"} => k \in IngestJob
BY DEF IngestJob

(* The next stage of a move is a move, of the same rundown.                 *)
LEMMA MoveGoto ==
  ASSUME NEW j \in MoveJob, NEW pc
  PROVE  LET k == [j EXCEPT !.pc = pc]
         IN  /\ k.pc = pc /\ k.r = j.r /\ k.from = j.from /\ k.into = j.into /\ k.wanted = j.wanted
             /\ pc \in Locked \cup {"lock"} => k \in MoveJob
BY DEF MoveJob

(* Which kind of job is at a stage of CommitIngestOperation,                *)
LEMMA AtIngest ==
  ASSUME Jobs, NEW pc \in {"leave", "regenerate", "remove", "adopt", "save"}, At("ingest", pc)
  PROVE  job["ingest"] \in IngestJob
BY DEF Jobs, At, Idle

(* and at one of moveRundownIntoPlaylist.                                   *)
LEMMA AtStudio ==
  ASSUME Jobs, NEW pc \in Locked \cup {"lock"}, At("studio", pc)
  PROVE  job["studio"] \in MoveJob
BY DEF Jobs, At, Idle, ListJob, CleanupJob, Locked


(* The next step of an ingest job, of a move, and the end of either.       *)
IngestGoesOn(pc, into) ==
  LET j == job["ingest"] k == job'["ingest"] IN
  /\ j \in IngestJob /\ k \in IngestJob /\ j.r \in Rundowns
  /\ k.pc = pc /\ k.r = j.r /\ k.from = j.from /\ k.into = into
  /\ job'["studio"] = job["studio"]
  /\ job' = [t \in Threads |-> job'[t]]
MoveGoesOn(pc, from, into) ==
  LET j == job["studio"] k == job'["studio"] IN
  /\ j \in MoveJob /\ k \in MoveJob /\ j.r \in Rundowns
  /\ k.pc = pc /\ k.r = j.r /\ k.from = from /\ k.into = into /\ k.wanted = j.wanted
  /\ job'["ingest"] = job["ingest"]
  /\ job' = [t \in Threads |-> job'[t]]
Ends(t) ==
  /\ job'[t] = Idle /\ job'[t].pc = "idle"
  /\ \A u \in Threads \ {t} : job'[u] = job[u]
  /\ job' = [u \in Threads |-> job'[u]]

(* Goto, in the ingest thread and in a move.                                *)
LEMMA IngestGoes ==
  ASSUME Jobs, job["ingest"] \in IngestJob, NEW pc \in {"leave", "regenerate", "remove", "adopt", "save"},
         Goto("ingest", pc)
  PROVE  /\ IngestGoesOn(pc, job["ingest"].into)
         /\ job'["ingest"].doc = job["ingest"].doc /\ job'["ingest"].remove = job["ingest"].remove
<1> DEFINE j == job["ingest"]
<1>1. job' = [job EXCEPT !["ingest"] = [j EXCEPT !.pc = pc]]
  BY DEF Goto
<1>2. job'["ingest"] = [j EXCEPT !.pc = pc] /\ job'["studio"] = job["studio"] /\ job' = [u \in Threads |-> job'[u]]
  <2> HIDE DEF j
  <2> QED BY <1>1, JobUpdate DEF Threads
<1>3. j.r \in Rundowns
  BY DEF IngestJob
<1> QED BY <1>2, <1>3, IngestGoto DEF IngestGoesOn

(* The same for a move.                                                     *)
LEMMA MoveGoes ==
  ASSUME Jobs, job["studio"] \in MoveJob, NEW pc \in Locked \cup {"lock"}, Goto("studio", pc)
  PROVE  MoveGoesOn(pc, job["studio"].from, job["studio"].into)
<1> DEFINE j == job["studio"]
<1>1. job' = [job EXCEPT !["studio"] = [j EXCEPT !.pc = pc]]
  BY DEF Goto
<1>2. job'["studio"] = [j EXCEPT !.pc = pc] /\ job'["ingest"] = job["ingest"] /\ job' = [u \in Threads |-> job'[u]]
  <2> HIDE DEF j
  <2> QED BY <1>1, JobUpdate DEF Threads
<1>3. j.r \in Rundowns
  BY DEF MoveJob
<1> QED BY <1>2, <1>3, MoveGoto DEF MoveGoesOn

(* A rundown that may not leave: its job goes on for the old playlist.      *)
LEMMA IngestIsTrapped ==
  ASSUME Jobs, job["ingest"] \in IngestJob, job["ingest"].from \in Ids,
         job' = [job EXCEPT !["ingest"] =
                   [job["ingest"] EXCEPT !.pc = "adopt", !.into = job["ingest"].from, !.remove = FALSE,
                             !.doc.orphaned = IF job["ingest"].remove THEN "deleted" ELSE job["ingest"].doc.orphaned]]
  PROVE  /\ IngestGoesOn("adopt", job["ingest"].from)
         /\ job'["ingest"].doc.orphaned = IF job["ingest"].remove THEN "deleted" ELSE job["ingest"].doc.orphaned
<1> DEFINE j == job["ingest"]
           k == [j EXCEPT !.pc = "adopt", !.into = j.from, !.remove = FALSE,
                          !.doc.orphaned = IF j.remove THEN "deleted" ELSE j.doc.orphaned]
<1>1. job' = [job EXCEPT !["ingest"] = k]
  OBVIOUS
<1>2. job'["ingest"] = k /\ job'["studio"] = job["studio"] /\ job' = [u \in Threads |-> job'[u]]
  <2> HIDE DEF k
  <2> QED BY <1>1, JobUpdate DEF Threads
<1>3. j.r \in Rundowns
  BY DEF IngestJob
<1>4. /\ k \in IngestJob /\ k.pc = "adopt" /\ k.r = j.r /\ k.from = j.from /\ k.into = j.from
      /\ k.doc.orphaned = IF j.remove THEN "deleted" ELSE j.doc.orphaned
  <2>1. j \in IngestJob /\ j.from \in Ids
    OBVIOUS
  <2> HIDE DEF j
  <2> QED BY <2>1 DEF IngestJob, RundownDoc
<1> QED BY <1>2, <1>3, <1>4 DEF IngestGoesOn

(* A move that has found and locked its rundown.                            *)
LEMMA MoveBegins ==
  ASSUME IInv, LockMovedRundown, Exists(job["studio"].r)
  PROVE  MoveGoesOn(IF rundown[job["studio"].r].home = job["studio"].into THEN "enter" ELSE "leave",
                    rundown[job["studio"].r].home, job["studio"].into)
<1> DEFINE j == job["studio"]
           h == rundown[j.r].home
           pc == IF h = j.into THEN "enter" ELSE "leave"
           k == [j EXCEPT !.from = h, !.pc = pc]
<1>0. Jobs /\ j \in MoveJob
  BY AtStudio DEF IInv, Control, LockMovedRundown
<1>1. job' = [job EXCEPT !["studio"] = k]
  BY DEF LockMovedRundown
<1>2. job'["studio"] = k /\ job'["ingest"] = job["ingest"] /\ job' = [u \in Threads |-> job'[u]]
  <2> HIDE DEF k
  <2> QED BY <1>0, <1>1, JobUpdate DEF Threads
<1>3. j.r \in Rundowns
  BY <1>0 DEF MoveJob
<1>4. h \in Ids
  BY <1>3 DEF IInv, Documents
<1>5. k \in MoveJob /\ k.pc = pc /\ k.r = j.r /\ k.from = h /\ k.into = j.into /\ k.wanted = j.wanted
  <2>1. pc \in Locked
    BY DEF Locked
  <2> HIDE DEF h, j, pc
  <2> QED BY <1>0, <1>4, <2>1 DEF MoveJob
<1> QED BY <1>0, <1>2, <1>3, <1>5 DEF MoveGoesOn

(* A move that has made a playlist of its own.                              *)
LEMMA MoveSettles ==
  ASSUME IInv, At("studio", "enter"), NEW p \in Ids,
         job' = [job EXCEPT !["studio"] = [@ EXCEPT !.pc = "settle", !.into = p]]
  PROVE  MoveGoesOn("settle", job["studio"].from, p)
<1> DEFINE j == job["studio"]
           k == [j EXCEPT !.pc = "settle", !.into = p]
<1>0. Jobs /\ j \in MoveJob
  BY AtStudio DEF IInv, Control, Locked
<1>1. job' = [job EXCEPT !["studio"] = k]
  OBVIOUS
<1>2. job'["studio"] = k /\ job'["ingest"] = job["ingest"] /\ job' = [u \in Threads |-> job'[u]]
  <2> HIDE DEF k
  <2> QED BY <1>0, <1>1, JobUpdate DEF Threads
<1>3. j.r \in Rundowns
  BY <1>0 DEF MoveJob
<1>5. k \in MoveJob /\ k.pc = "settle" /\ k.r = j.r /\ k.from = j.from /\ k.into = p /\ k.wanted = j.wanted
  <2> HIDE DEF j
  <2> QED BY <1>0 DEF MoveJob, Locked
<1> QED BY <1>0, <1>2, <1>3, <1>5 DEF MoveGoesOn

(* A job that leaves a playlist knows which: it is the home of its          *)
(* rundown.                                                                 *)
LEMMA FromIsPlaylist ==
  ASSUME IInv
  PROVE  /\ At("ingest", "leave") \/ At("ingest", "regenerate") => job["ingest"].from \in Ids
         /\ At("studio", "leave") \/ At("studio", "regenerate") => job["studio"].from \in Ids
<1>1. ASSUME At("ingest", "leave") PROVE job["ingest"].from \in Ids
  <2>1. job["ingest"].r \in Rundowns
    BY <1>1, AtIngest DEF IInv, Control, IngestJob
  <2> QED BY <1>1, <2>1 DEF IInv, Homes, HomeInIngest, Documents, At
<1>2. ASSUME At("studio", "leave") PROVE job["studio"].from \in Ids
  <2>1. job["studio"].r \in Rundowns
    BY <1>2, AtStudio DEF IInv, Control, MoveJob, Locked
  <2> QED BY <1>2, <2>1 DEF IInv, Homes, HomeInMove, Documents, At, Locked
<1> QED BY <1>1, <1>2 DEF IInv, Homes, HomeInIngest, HomeInMove

(* A move without a target has its rundown between two playlists.           *)
LEMMA OnItsWay ==
  ASSUME IInv, At("studio", "enter"), job["studio"].into = None
  PROVE  Exists(job["studio"].r) /\ rundown[job["studio"].r].home = Tmp
<1>1. job["studio"].r \in Rundowns
  BY AtStudio DEF IInv, Control, MoveJob, Locked
<1>2. Exists(job["studio"].r)
  BY DEF IInv, Homes, HomeInMove, At, Locked
<1>3. rundown[job["studio"].r].home # None
  BY <1>1, <1>2, IdsAssumption DEF IInv, Documents, Ids
<1> QED BY <1>2, <1>3 DEF IInv, Homes, HomeInMove

(* Done: the thread is idle, the other goes on.                             *)
LEMMA JobEnds ==
  ASSUME Jobs, NEW t \in Threads, Done(t)
  PROVE  Ends(t)
BY JobUpdate DEF Done, Ends, Idle

(* No two jobs have the same lock.                                         *)
LEMMA OneHolder ==
  ASSUME IInv
  PROVE  /\ \A r \in Rundowns : ~(HoldsRundown("ingest", r) /\ HoldsRundown("studio", r))
         /\ \A r \in Rundowns, t \in Threads : rundownLock[r] = Free => ~HoldsRundown(t, r)
         /\ \A p \in Ids : ~(HoldsPlaylist("ingest", p) /\ HoldsPlaylist("studio", p))
         /\ \A p \in Ids, t \in Threads : playlistLock[p] = Free => ~HoldsPlaylist(t, p)
BY DEF IInv, Control, RundownLocks, PlaylistLocks, Threads, Free

(***************************************************************************)
(* What a step does to the documents.                                      *)
(***************************************************************************)

(* Only the rundown r changes: it moves to h, or is removed.               *)
OthersStay(r) ==
  /\ rundown' \in [Rundowns -> RundownDoc \cup {None}]
  /\ \A x \in Rundowns \ {r} : rundown'[x] = rundown[x]
Rehomed(r, h) == OthersStay(r) /\ rundown'[r] # None /\ rundown'[r].home = h
Removed(r) == OthersStay(r) /\ rundown'[r] = None

(* Present, after the step.                                                *)
PresentAfter(p) == playlist'[p] # None \/ (job'["studio"].pc = "order" /\ job'["studio"].into = p)
StayPresent(p) == \A q \in Ids : PresentAfter(q) => playlist'[q] # None \/ (q # p /\ Present(q))

(* Only the playlist p changes: it is brought up to date with its rundowns. *)
SamePlaylists == playlist' = playlist /\ \A q \in Ids : PresentAfter(q) => Present(q)
OthersSame(p) ==
  /\ playlist' = [q \in Ids |-> playlist'[q]]
  /\ \A q \in Ids \ {p} : playlist'[q] = playlist[q] /\ (PresentAfter(q) => Present(q))
Renewed(p) ==
  /\ OthersSame(p)
  /\ PresentAfter(p) =>
       /\ IsPlaylist(playlist'[p])
       /\ \/ ~playlist'[p].active
          \/ /\ Present(p) /\ playlist[p].active
             /\ playlist'[p].current = playlist[p].current
             /\ \/ playlist'[p].next \in {playlist[p].next, None}
                \/ rundown'[playlist'[p].next] # None /\ rundown'[playlist'[p].next].home = p

(* PresentAfter is Present in the next state.                               *)
LEMMA PresentPrimed ==
  ASSUME NEW p \in Ids
  PROVE  Present(p)' <=> PresentAfter(p)
BY DEF Present, PresentAfter, At

(* A playlist that is locked by the ingest thread, or by none, is not one   *)
(* that a move puts in order.                                               *)
LEMMA OthersHavePlaylist ==
  ASSUME IInv, NEW p \in Ids, job'["studio"] = job["studio"],
         HoldsPlaylist("ingest", p) \/ playlistLock[p] = Free
  PROVE  StayPresent(p)
<1>1. ~HoldsPlaylist("studio", p)
  BY OneHolder DEF Threads
<1> QED BY <1>1 DEF StayPresent, PresentAfter, Present, HoldsPlaylist, At

(* A rundown that is selected is not touched.                              *)
NoneLost ==
  \A r \in Rundowns :
    \/ rundown[r] = None \/ rundown[r].home = Tmp \/ ~Selected(rundown[r].home, r)
    \/ rundown'[r] # None /\ rundown'[r].home = rundown[r].home

(* Steps that change one rundown and one playlist keep the documents well   *)
(* formed,                                                                  *)
LEMMA DocumentsKept ==
  ASSUME IInv,
         rundown' = rundown \/ \E r \in Rundowns : Removed(r) \/ \E h \in Ids : Rehomed(r, h),
         SamePlaylists \/ \E p \in Ids : Renewed(p)
  PROVE  Documents'
<1>1. rundown' \in [Rundowns -> RundownDoc \cup {None}]
  BY DEF IInv, Documents, Removed, Rehomed, OthersStay
<1>2. ASSUME NEW r \in Rundowns, Exists(r)' PROVE rundown'[r].home \in Ids
  BY <1>2 DEF IInv, Documents, Removed, Rehomed, OthersStay, Exists
<1>3. playlist' = [p \in Ids |-> playlist'[p]]
  BY DEF IInv, Documents, SamePlaylists, Renewed, OthersSame
<1>4. ASSUME NEW p \in Ids, Present(p)' PROVE IsPlaylist(playlist'[p])
  BY <1>4, PresentPrimed DEF IInv, Documents, SamePlaylists, Renewed, OthersSame
<1> QED BY <1>1, <1>2, <1>3, <1>4 DEF Documents, IsPlaylist

(* and what is selected where it belongs, if no selected rundown is lost.   *)
LEMMA SelectionKept ==
  ASSUME IInv, NoneLost,
         SamePlaylists \/ \E p \in Ids : Renewed(p)
  PROVE  SelectsItsOwn'
<1> SUFFICES ASSUME NEW p \in Ids \ {Tmp}, NEW r \in Rundowns, Selected(p, r)'
             PROVE  rundown'[r] # None /\ rundown'[r].home = p
  BY DEF SelectsItsOwn, Exists
<1>1. CASE Selected(p, r)
  BY <1>1 DEF IInv, SelectsItsOwn, NoneLost, Exists
<1>2. CASE ~Selected(p, r)
  <2>1. PICK q \in Ids : Renewed(q)
    BY <1>2, PresentPrimed DEF SamePlaylists, Selected
  <2>2. q = p
    BY <1>2, <2>1, PresentPrimed DEF Renewed, OthersSame, Selected
  <2>3. r # None
    BY IdsAssumption
  <2> QED BY <1>2, <2>1, <2>2, <2>3, PresentPrimed DEF Renewed, Selected
<1> QED BY <1>1, <1>2

(* The document d is made of the one that playlist p has.                  *)
Follows(p, d) ==
  \/ d = None
  \/ /\ IsPlaylist(d)
     /\ \/ ~d.active
        \/ /\ Present(p) /\ playlist[p].active
           /\ d.current = playlist[p].current /\ d.next = playlist[p].next

(* A new order leaves what is selected alone,                               *)
LEMMA FieldsOfOrder ==
  ASSUME NEW d, IsPlaylist(d), NEW x
  PROVE  /\ IsPlaylist([d EXCEPT !.order = x]) /\ [d EXCEPT !.order = x].active = d.active
         /\ [d EXCEPT !.order = x].current = d.current /\ [d EXCEPT !.order = x].next = d.next
<1>1. [d EXCEPT !.order = x] = [order |-> x, manualOrder |-> d.manualOrder, active |-> d.active,
                                current |-> d.current, next |-> d.next]
  BY DEF IsPlaylist
<1> QED BY <1>1 DEF IsPlaylist

(* and so does a new manualOrder.                                           *)
LEMMA FieldsOfManualOrder ==
  ASSUME NEW d, IsPlaylist(d), NEW x
  PROVE  /\ IsPlaylist([d EXCEPT !.manualOrder = x]) /\ [d EXCEPT !.manualOrder = x].active = d.active
         /\ [d EXCEPT !.manualOrder = x].current = d.current /\ [d EXCEPT !.manualOrder = x].next = d.next
<1>1. [d EXCEPT !.manualOrder = x] = [order |-> d.order, manualOrder |-> x, active |-> d.active,
                                      current |-> d.current, next |-> d.next]
  BY DEF IsPlaylist
<1> QED BY <1>1 DEF IsPlaylist

(* A new playlist is not on air.                                            *)
LEMMA NewIsPlaylist ==
  IsPlaylist(NewPlaylist) /\ ~NewPlaylist.active
BY DEF NewPlaylist, IsPlaylist

(* A playlist follows from itself,                                          *)
LEMMA OldFollows ==
  ASSUME IInv, NEW p \in Ids
  PROVE  Follows(p, playlist[p])
BY DEF IInv, Documents, Follows, Present

(* and what produceRundownPlaylistInfoFromRundown makes of a document that  *)
(* follows, follows.                                                        *)
LEMMA ProducedFollows ==
  ASSUME NEW p \in Ids, NEW d, Follows(p, d), NEW S
  PROVE  Follows(p, Produce(d, S)) /\ Follows(p, Regenerate(d, S))
<1> DEFINE old == IF d = None THEN NewPlaylist ELSE d
           o == OrderOf(old, S)
<1>1. IsPlaylist(old) /\ (~old.active \/ old = d)
  BY DEF Follows, NewPlaylist, IsPlaylist
<1>2. Produce(d, S) = [old EXCEPT !.order = o]
  BY DEF Produce
<1>3. Follows(p, Produce(d, S))
  <2>1. IsPlaylist(Produce(d, S))
    <3> HIDE DEF old, o
    <3> QED BY <1>1, <1>2, FieldsOfOrder, SMTT(30)
  <2>2. /\ Produce(d, S).active = old.active /\ Produce(d, S).current = old.current
        /\ Produce(d, S).next = old.next
    <3> HIDE DEF old, o
    <3> QED BY <1>1, <1>2, FieldsOfOrder
  <2>3. CASE ~old.active
    <3> HIDE DEF old
    <3> QED BY <2>1, <2>2, <2>3 DEF Follows
  <2>4. CASE old = d /\ old.active
    BY <2>1, <2>2, <2>4 DEF Follows, NewPlaylist
  <2> QED BY <1>1, <2>3, <2>4
<1> QED BY <1>3 DEF Regenerate, Follows

(* ensureNextPartIsValid selects a rundown of the playlist, or keeps the    *)
(* old selection.                                                           *)
LEMMA Renews ==
  ASSUME IInv, NEW p \in Ids, NEW doc, Follows(p, doc), NEW S \in SUBSET Rundowns,
         \A r \in S : rundown'[r] # None /\ rundown'[r].home = p,
         NEW d \in EnsureNext(doc, S),
         playlist' = [playlist EXCEPT ![p] = d],
         StayPresent(p)
  PROVE  Renewed(p)
<1>1. playlist'[p] = d /\ OthersSame(p) /\ (PresentAfter(p) => d # None)
  BY DEF IInv, Documents, OthersSame, StayPresent, Present
<1>2. CASE doc # None /\ doc.active
  <2>1. PICK n \in S \cup {None, doc.next} : d = [doc EXCEPT !.next = n]
    BY <1>2 DEF EnsureNext
  <2>2. IsPlaylist(doc) /\ Present(p) /\ playlist[p].active
        /\ doc.current = playlist[p].current /\ doc.next = playlist[p].next
    BY <1>2 DEF Follows
  <2>3. d = [order |-> doc.order, manualOrder |-> doc.manualOrder, active |-> doc.active,
             current |-> doc.current, next |-> n]
    BY <2>1, <2>2 DEF IsPlaylist
  <2>4. IsPlaylist(d) /\ d.current = doc.current /\ d.next = n
    BY <1>2, <2>3 DEF IsPlaylist
  <2> QED BY <1>1, <2>2, <2>4 DEF Renewed
<1>3. CASE ~(doc # None /\ doc.active)
  <2>1. d = doc
    BY <1>3 DEF EnsureNext
  <2> QED BY <1>1, <2>1 DEF Renewed, Follows
<1> QED BY <1>2, <1>3

(* The writes of a rundown: it moves,                                       *)
LEMMA Rehomes ==
  ASSUME IInv, NEW r \in Rundowns, Exists(r), NEW h \in Ids, NEW m \in BOOLEAN,
         rundown' = [rundown EXCEPT ![r].home = h, ![r].manual = m]
  PROVE  Rehomed(r, h)
<1>1. rundown[r] \in RundownDoc /\ h \in Ids \cup {None}
  BY DEF IInv, Documents, Exists
<1>2. [rundown[r] EXCEPT !.home = h, !.manual = m] \in RundownDoc
      /\ [rundown[r] EXCEPT !.home = h, !.manual = m].home = h
  <2> DEFINE d == rundown[r]
  <2> HIDE DEF d
  <2> SUFFICES ASSUME d \in RundownDoc PROVE [d EXCEPT !.home = h, !.manual = m] \in RundownDoc
                      /\ [d EXCEPT !.home = h, !.manual = m].home = h
    BY <1>1 DEF d
  <2> QED BY <1>1 DEF RundownDoc
<1>3. rundown' = [rundown EXCEPT ![r] = [rundown[r] EXCEPT !.home = h, !.manual = m]]
  BY DEF IInv, Documents
<1>4. rundown'[r] = [rundown[r] EXCEPT !.home = h, !.manual = m] /\ OthersStay(r)
  BY <1>2, <1>3 DEF IInv, Documents, OthersStay
<1> QED BY <1>2, <1>4, NoneAssumption DEF Rehomed

(* it is removed,                                                           *)
LEMMA Removes ==
  ASSUME IInv, NEW r \in Rundowns, rundown' = [rundown EXCEPT ![r] = None]
  PROVE  Removed(r)
BY DEF IInv, Documents, Removed, OthersStay

(* What a job read of its rundown stays true, whatever others do.          *)
LEMMA MoveUndisturbed ==
  ASSUME IInv, job'["studio"] = job["studio"],
         rundown' = rundown \/ \E r \in Rundowns : OthersStay(r) /\ ~HoldsRundown("studio", r)
  PROVE  HomeInMove'
<1> DEFINE j == job["studio"]
<1>1. j.pc \in Locked => j \in MoveJob
  BY AtStudio DEF IInv, Control, At
<1>2. j.pc \in Locked => rundown'[j.r] = rundown[j.r]
  BY <1>1 DEF OthersStay, HoldsRundown, Locked, MoveJob
<1>3. /\ At("studio", "leave") \/ At("studio", "regenerate") \/ At("studio", "enter") => j.pc \in Locked
      /\ At("studio", "order") \/ At("studio", "settle") => j.pc \in Locked
  BY DEF At, Locked
<1>4. \A pc : At("studio", pc)' <=> At("studio", pc)
  BY DEF At
<1> QED BY <1>2, <1>3, <1>4 DEF HomeInMove, IInv, Homes, Exists

(* The same for the rundown of an ingest job.                               *)
LEMMA IngestUndisturbed ==
  ASSUME IInv, job'["ingest"] = job["ingest"],
         rundown' = rundown \/ \E r \in Rundowns : OthersStay(r) /\ ~HoldsRundown("ingest", r)
  PROVE  HomeInIngest'
<1> DEFINE j == job["ingest"]
           H == {"leave", "regenerate", "remove", "adopt", "save"}
<1>1. j.pc \in H => j \in IngestJob
  BY AtIngest DEF IInv, Control, At
<1>2. j.pc \in H => rundown'[j.r] = rundown[j.r]
  BY <1>1 DEF OthersStay, HoldsRundown, IngestJob
<1>3. \A pc : At("ingest", pc)' <=> j.pc = pc
  BY DEF At
<1> QED BY <1>2, <1>3 DEF HomeInIngest, IInv, Homes, Exists, At

(* allowedToMoveRundownOutOfPlaylist, asked under the lock of the           *)
(* playlist.                                                                *)
LEMMA NotSelected ==
  ASSUME IInv, NEW p \in Ids, NEW r, playlistLock[p] = Free, AllowedToMoveOut(p, r)
  PROVE  ~Selected(p, r)
<1>1. Present(p) => playlist[p] # None
  BY OneHolder DEF Present, HoldsPlaylist, Threads
<1> QED BY <1>1 DEF Selected, AllowedToMoveOut, Live

(* What the steps that write playlists write: the playlist that was left,   *)
LEMMA RegenerationRenews ==
  ASSUME IInv, NEW t \in Threads, RegenerateOldPlaylist(t), job[t].from \in Ids, StayPresent(job[t].from)
  PROVE  Renewed(job[t].from)
<1> DEFINE p == job[t].from
           S == RundownsOf(p)
<1>1. S \in SUBSET Rundowns /\ \A r \in S : rundown'[r] # None /\ rundown'[r].home = p
  BY DEF RundownsOf, Exists, RegenerateOldPlaylist
<1>2. CASE playlist[p] = None
  <2>1. playlist' = playlist
    BY <1>2 DEF RegenerateOldPlaylist
  <2> QED BY <1>2, <2>1 DEF Renewed, OthersSame, IInv, Documents, StayPresent, Present
<1>3. CASE playlist[p] # None
  <2>1. PICK d \in EnsureNext(Regenerate(playlist[p], S), S) : playlist' = [playlist EXCEPT ![p] = d]
    BY <1>3 DEF RegenerateOldPlaylist
  <2>2. Follows(p, Regenerate(playlist[p], S))
    BY OldFollows, ProducedFollows
  <2> HIDE DEF S
  <2> QED BY <1>1, <2>1, <2>2, Renews
<1> QED BY <1>2, <1>3

(* the playlist that takes an updated rundown,                              *)
LEMMA AdoptionRenews ==
  ASSUME IInv, AdoptIntoPlaylist, job["ingest"].into \in Ids, job'["studio"] = job["studio"]
  PROVE  Renewed(job["ingest"].into)
<1> DEFINE p == job["ingest"].into
           S == RundownsOf(p) \cup {job["ingest"].r}
           d == Produce(playlist[p], S)
<1>1. playlist' = [playlist EXCEPT ![p] = d] /\ playlistLock[p] = Free
  BY DEF AdoptIntoPlaylist, Lock
<1>2. Follows(p, d)
  BY OldFollows, ProducedFollows
<1>3. StayPresent(p)
  BY <1>1, OthersHavePlaylist
<1> HIDE DEF d, p
<1>4. playlist'[p] = d /\ OthersSame(p) /\ (PresentAfter(p) => d # None)
  <2>1. p \in Ids
    BY DEF p
  <2> QED BY <1>1, <1>3, <2>1 DEF IInv, Documents, OthersSame, StayPresent, Present
<1>5. Renewed(p)
  BY <1>2, <1>4 DEF Renewed, Follows
<1> QED BY <1>5 DEF p

(* and its playout, once the rundown is saved.                              *)
LEMMA SavingRenews ==
  ASSUME IInv, SaveRundown, job["ingest"].into \in Ids, job["ingest"].r \in Rundowns,
         Rehomed(job["ingest"].r, job["ingest"].into), job'["studio"] = job["studio"]
  PROVE  Renewed(job["ingest"].into)
<1> DEFINE p == job["ingest"].into
           S == RundownsOf(p) \cup {job["ingest"].r}
<1>1. S \in SUBSET Rundowns /\ \A r \in S : rundown'[r] # None /\ rundown'[r].home = p
  BY DEF RundownsOf, Exists, Rehomed, OthersStay
<1>2. PICK d \in EnsureNext(playlist[p], S) : playlist' = [playlist EXCEPT ![p] = d]
  BY DEF SaveRundown
<1>3. StayPresent(p)
  <2>1. HoldsPlaylist("ingest", p)
    BY DEF HoldsPlaylist, SaveRundown, At
  <2> QED BY <2>1, OthersHavePlaylist
<1> HIDE DEF S
<1> QED BY <1>1, <1>2, <1>3, OldFollows, Renews

(* A rundown is saved as the ingest job has made it,                        *)
LEMMA Adopted ==
  ASSUME IInv, NEW r \in Rundowns, NEW doc \in RundownDoc, NEW h \in Ids,
         rundown' = [rundown EXCEPT ![r] = [doc EXCEPT !.home = h]]
  PROVE  Rehomed(r, h)
<1>1. [doc EXCEPT !.home = h] \in RundownDoc /\ [doc EXCEPT !.home = h].home = h
  BY DEF RundownDoc
<1> QED BY <1>1, NoneAssumption DEF IInv, Documents, Rehomed, OthersStay

(* The ingest thread does not put a playlist on air.                       *)
LEMMA RemovedStaysOff ==
  ASSUME IInv, job'["studio"] = job["studio"], SamePlaylists \/ \E p \in Ids : Renewed(p)
  PROVE  RemovedIsOff'
<1> DEFINE p == job["studio"].from
<1> SUFFICES ASSUME At("studio", "list") \/ At("studio", "cleanup"), playlist'[p] # None
             PROVE  ~playlist'[p].active
  BY DEF RemovedIsOff, At
<1>1. p \in Ids
  BY DEF IInv, Control, Jobs, Idle, ListJob, CleanupJob, MoveJob, Locked, At
<1>2. PresentAfter(p) /\ ~(Present(p) /\ playlist[p].active)
  BY DEF PresentAfter, Present, IInv, Homes, RemovedIsOff, At
<1> QED BY <1>1, <1>2 DEF SamePlaylists, Renewed, OthersSame

(***************************************************************************)
(* Jobs that start.                                                        *)
(***************************************************************************)

IngestBegins(r) ==
  LET k == job'["ingest"] IN
  /\ job["ingest"] = Idle /\ job'["studio"] = job["studio"] /\ job' = [u \in Threads |-> job'[u]]
  /\ k \in IngestJob /\ k.r = r /\ k.pc \in {"leave", "adopt"}
  /\ k.pc = "leave" => Exists(r) /\ rundown[r].home = k.from
  /\ k.pc = "adopt" /\ Exists(r) => rundown[r].home = k.into

(* The job of CommitIngestOperation has read where its rundown is.          *)
LEMMA CommitBegins ==
  ASSUME IInv, NEW r \in Rundowns, NEW doc \in RundownDoc, Exists(r) => doc.home = rundown[r].home,
         NEW remove \in BOOLEAN, Commit(r, doc, remove)
  PROVE  IngestBegins(r)
<1> DEFINE before == rundown[r]
           target == IF before # None /\ before.manual THEN before.home ELSE doc.nrcs
           leaves == before # None /\ (before.home # target \/ remove)
           pc == IF leaves THEN "leave" ELSE "adopt"
           k == [pc |-> pc, r |-> r, doc |-> doc, remove |-> remove, from |-> doc.home, into |-> target]
<1>1. job["ingest"] = Idle /\ job' = [job EXCEPT !["ingest"] = k]
  BY DEF Commit, Starts
<1>2. job'["ingest"] = k /\ job'["studio"] = job["studio"] /\ job' = [u \in Threads |-> job'[u]]
  <2> HIDE DEF k
  <2> QED BY <1>1, JobUpdate DEF Threads, IInv, Control
<1>3. target \in Ids /\ doc.home \in Ids \cup {None}
  BY DEF IInv, Documents, Exists, RundownDoc, Ids
<1>4. pc \in {"leave", "adopt"}
  OBVIOUS
<1>5. k \in IngestJob /\ k.pc = pc /\ k.r = r /\ k.from = doc.home /\ k.into = target
  <2> HIDE DEF pc, target
  <2> QED BY <1>3, <1>4 DEF IngestJob
<1>6. /\ pc = "leave" => Exists(r) /\ rundown[r].home = doc.home
      /\ pc = "adopt" /\ Exists(r) => rundown[r].home = target
  BY DEF Exists
<1> QED BY <1>1, <1>2, <1>4, <1>5, <1>6 DEF IngestBegins

(* or marked as orphaned, where it is.                                      *)
LEMMA Orphaned ==
  ASSUME IInv, NEW r \in Rundowns, Exists(r), rundown' = [rundown EXCEPT ![r].orphaned = "manual"]
  PROVE  Rehomed(r, rundown[r].home)
<1>1. rundown[r] \in RundownDoc
  BY DEF IInv, Documents, Exists
<1>2. ASSUME NEW d \in RundownDoc
      PROVE  [d EXCEPT !.orphaned = "manual"] \in RundownDoc /\ [d EXCEPT !.orphaned = "manual"].home = d.home
  BY DEF RundownDoc
<1>3. rundown'[r] \in RundownDoc /\ rundown'[r].home = rundown[r].home
  BY <1>1, <1>2 DEF IInv, Documents
<1>4. OthersStay(r)
  BY <1>3 DEF IInv, Documents, OthersStay
<1> QED BY <1>3, <1>4, NoneAssumption DEF Rehomed

(***************************************************************************)
(* Playlists that the studio thread changes.                               *)
(***************************************************************************)

(* No playlist is being put in order once the step is over.                 *)
LEMMA NotOrdering ==
  ASSUME NEW p, job'["studio"].pc # "order"
  PROVE  StayPresent(p)
BY DEF StayPresent, PresentAfter

(* The playlist that a rundown is moved into,                               *)
LEMMA EnteringRenews ==
  ASSUME IInv, NEW p \in Ids, playlist[p] # None, playlist' = [playlist EXCEPT ![p].manualOrder = TRUE],
         \A q \in Ids : PresentAfter(q) => playlist'[q] # None \/ q = p
  PROVE  Renewed(p)
<1> DEFINE d == playlist[p]
           e == [d EXCEPT !.manualOrder = TRUE]
<1>1. IsPlaylist(d) /\ Present(p)
  BY DEF IInv, Documents, Present
<1>2. playlist' = [playlist EXCEPT ![p] = e]
  BY DEF IInv, Documents
<1>3. IsPlaylist(e) /\ e.active = d.active /\ e.current = d.current /\ e.next = d.next
  <2> HIDE DEF d
  <2> QED BY <1>1, FieldsOfManualOrder
<1> HIDE DEF e
<1>4. OthersSame(p) /\ playlist'[p] = e
  BY <1>2 DEF IInv, Documents, OthersSame, Present
<1> QED BY <1>1, <1>3, <1>4 DEF Renewed

(* the same, put in order,                                                  *)
LEMMA OrderingRenews ==
  ASSUME IInv, OrderPlaylist, job["studio"].into \in Ids, rundown' = rundown, job'["studio"].pc # "order"
  PROVE  Renewed(job["studio"].into)
<1> DEFINE j == job["studio"]
           p == j.into
           S == RundownsOf(p)
           old == playlist[p]
           o == PlaceInOrder(old.order, j.r, j.wanted)
           new == IF j.from = j.into THEN [old EXCEPT !.order = o] ELSE old
<1>1. PICK d \in EnsureNext(Regenerate(new, S), S) : playlist' = [playlist EXCEPT ![p] = d]
  BY DEF OrderPlaylist
<1>2. IsPlaylist(old) /\ Present(p)
  BY DEF IInv, Documents, Present, OrderPlaylist
<1>3. Follows(p, new)
  <2>1. IsPlaylist([old EXCEPT !.order = o]) /\ [old EXCEPT !.order = o].active = old.active
        /\ [old EXCEPT !.order = o].current = old.current /\ [old EXCEPT !.order = o].next = old.next
    <3> HIDE DEF old, o
    <3> QED BY <1>2, FieldsOfOrder
  <2> HIDE DEF o
  <2> QED BY <1>2, <2>1 DEF Follows
<1>4. S \in SUBSET Rundowns /\ \A r \in S : rundown'[r] # None /\ rundown'[r].home = p
  BY DEF RundownsOf, Exists
<1>5. Follows(p, Regenerate(new, S))
  <2> HIDE DEF new, S
  <2> QED BY <1>3, ProducedFollows
<1> HIDE DEF new, S
<1> QED BY <1>1, <1>4, <1>5, NotOrdering, Renews

(* one that is inserted,                                                    *)
LEMMA InsertionRenews ==
  ASSUME IInv, NEW p \in Ids, InsertPlaylist(p), job'["studio"].pc # "order"
  PROVE  Renewed(p)
<1> DEFINE d == [NewPlaylist EXCEPT !.order = <<job["studio"].r>>]
<1>1. playlist' = [playlist EXCEPT ![p] = d]
  BY DEF InsertPlaylist
<1>2. IsPlaylist(d) /\ ~d.active
  BY NewIsPlaylist, FieldsOfOrder
<1> HIDE DEF d
<1>3. OthersSame(p) /\ playlist'[p] = d
  BY <1>1 DEF IInv, Documents, OthersSame, PresentAfter, Present
<1> QED BY <1>2, <1>3 DEF Renewed

(* one that is removed,                                                     *)
LEMMA RemovalRenews ==
  ASSUME IInv, NEW p \in Ids, playlist' = [playlist EXCEPT ![p] = None], job'["studio"].pc # "order"
  PROVE  Renewed(p) /\ playlist'[p] = None
BY DEF IInv, Documents, OthersSame, PresentAfter, Present, Renewed

(* and one that is ordered anew.                                            *)
LEMMA RestoringRenews ==
  ASSUME IInv, NEW p \in Ids, RestoreOrder(p)
  PROVE  Renewed(p)
<1> DEFINE S == RundownsOf(p)
           old == playlist[p]
           new == [old EXCEPT !.manualOrder = FALSE]
<1>1. PICK d \in EnsureNext(Regenerate(new, S), S) : playlist' = [playlist EXCEPT ![p] = d]
  BY DEF RestoreOrder
<1>2. IsPlaylist(old) /\ Present(p)
  BY DEF IInv, Documents, Present, RestoreOrder, UnderPlaylistLock
<1>3. Follows(p, new)
  <2> HIDE DEF old
  <2>1. IsPlaylist(new) /\ new.active = old.active /\ new.current = old.current /\ new.next = old.next
    BY <1>2, FieldsOfManualOrder
  <2> HIDE DEF new
  <2> QED BY <1>2, <2>1 DEF Follows, old
<1>4. S \in SUBSET Rundowns /\ \A r \in S : rundown'[r] # None /\ rundown'[r].home = p
  BY DEF RundownsOf, Exists, RestoreOrder
<1>5. Follows(p, Regenerate(new, S))
  <2> HIDE DEF new, S
  <2> QED BY <1>3, ProducedFollows
<1>6. StayPresent(p)
  BY NotOrdering DEF RestoreOrder, UnderPlaylistLock, Idle
<1> HIDE DEF new, S
<1> QED BY <1>1, <1>4, <1>5, <1>6, Renews

StudioBegins(pc, from) ==
  LET k == job'["studio"] IN
  /\ job["studio"] = Idle /\ job'["ingest"] = job["ingest"] /\ job' = [u \in Threads |-> job'[u]]
  /\ k.pc = pc /\ k.from = from
  /\ pc \in {"lock", "list"}
  /\ pc = "lock" => k \in MoveJob
  /\ pc = "list" => k \in ListJob

(* A move starts, and has no lock yet;                                      *)
LEMMA MoveIsQueued ==
  ASSUME IInv, NEW r \in Rundowns, NEW into \in Ids \cup {None}, NEW wanted \in Seq(Rundowns),
         MoveRundown(r, into, wanted)
  PROVE  StudioBegins("lock", None)
<1> DEFINE k == [pc |-> "lock", r |-> r, into |-> into, wanted |-> wanted, from |-> None]
<1>1. job["studio"] = Idle /\ job' = [job EXCEPT !["studio"] = k]
  BY DEF MoveRundown, Starts
<1>2. k \in MoveJob /\ k.pc = "lock" /\ k.from = None
  BY DEF MoveJob
<1> HIDE DEF k
<1>3. job'["studio"] = k /\ job'["ingest"] = job["ingest"] /\ job' = [u \in Threads |-> job'[u]]
  BY <1>1, JobUpdate DEF Threads, IInv, Control
<1> QED BY <1>1, <1>2, <1>3 DEF StudioBegins

(* the removal of a playlist starts.                                        *)
LEMMA RemovalBegins ==
  ASSUME IInv, NEW p \in Ids, RemovePlaylist(p)
  PROVE  StudioBegins("list", p)
<1> DEFINE k == [pc |-> "list", from |-> p]
<1>1. job["studio"] = Idle /\ job' = [job EXCEPT !["studio"] = k]
  BY DEF RemovePlaylist, Starts
<1>2. k \in ListJob /\ k.pc = "list" /\ k.from = p
  BY DEF ListJob
<1> HIDE DEF k
<1>3. job'["studio"] = k /\ job'["ingest"] = job["ingest"] /\ job' = [u \in Threads |-> job'[u]]
  BY <1>1, JobUpdate DEF Threads, IInv, Control
<1> QED BY <1>1, <1>2, <1>3 DEF StudioBegins

(* The removal of the rundowns of a playlist goes on, or is done.          *)
CleanupGoesOn ==
  LET j == job["studio"]
      k == job'["studio"]
  IN
  /\ job'["ingest"] = job["ingest"] /\ job' = [u \in Threads |-> job'[u]]
  /\ j \in ListJob \cup CleanupJob
  /\ k = Idle \/ (k \in CleanupJob /\ k.todo # {} /\ k.from = j.from)

(* Which kind of job removes the rundowns of a playlist.                    *)
LEMMA AtCleanup ==
  ASSUME Jobs
  PROVE  /\ At("studio", "list") => job["studio"] \in ListJob
         /\ At("studio", "cleanup") => job["studio"] \in CleanupJob
BY DEF Jobs, At, Idle, MoveJob, ListJob, CleanupJob, Locked

(* Its rundowns are listed,                                                 *)
LEMMA CleanupBegins ==
  ASSUME IInv, ListRundowns
  PROVE  CleanupGoesOn
<1> DEFINE p == job["studio"].from
           k == IF RundownsOf(p) = {} THEN Idle ELSE [pc |-> "cleanup", from |-> p, todo |-> RundownsOf(p)]
<1>1. job' = [job EXCEPT !["studio"] = k]
  BY DEF ListRundowns
<1>2. job["studio"] \in ListJob /\ p \in Ids
  BY AtCleanup DEF ListRundowns, IInv, Control, ListJob
<1>3. k = Idle \/ (k \in CleanupJob /\ k.todo # {} /\ k.from = p)
  <2> DEFINE S == RundownsOf(p)
  <2>1. S \in SUBSET Rundowns
    BY DEF RundownsOf
  <2>2. CASE S = {}
    <3>1. k = Idle
      BY <2>2
    <3> HIDE DEF k
    <3> QED BY <3>1
  <2>3. CASE S # {}
    <3>1. k = [pc |-> "cleanup", from |-> p, todo |-> S]
      BY <2>3
    <3> HIDE DEF k, S, p
    <3>2. k \in CleanupJob /\ k.todo = S /\ k.from = p
      BY <1>2, <2>1, <3>1 DEF CleanupJob
    <3> QED BY <2>3, <3>2
  <2> QED BY <2>2, <2>3
<1> HIDE DEF k
<1>4. job'["studio"] = k /\ job'["ingest"] = job["ingest"] /\ job' = [u \in Threads |-> job'[u]]
  BY <1>1, JobUpdate DEF Threads, IInv, Control
<1> QED BY <1>2, <1>3, <1>4 DEF CleanupGoesOn

(* and removed one by one.                                                  *)
LEMMA CleanupProceeds ==
  ASSUME IInv, NEW r \in Rundowns, CleanupRundown(r)
  PROVE  CleanupGoesOn
<1> DEFINE j == job["studio"]
           k == IF j.todo = {r} THEN Idle ELSE [j EXCEPT !.todo = j.todo \ {r}]
<1>1. job' = [job EXCEPT !["studio"] = k] /\ r \in j.todo
  BY DEF CleanupRundown
<1>2. j \in CleanupJob
  BY AtCleanup DEF CleanupRundown, IInv, Control
<1>3. k = Idle \/ (k \in CleanupJob /\ k.todo # {} /\ k.from = j.from)
  <2>1. CASE j.todo = {r}
    <3>1. k = Idle
      BY <2>1
    <3> HIDE DEF k
    <3> QED BY <3>1
  <2>2. CASE j.todo # {r}
    <3> DEFINE rest == j.todo \ {r}
    <3>1. rest # {} /\ rest \in SUBSET Rundowns
      BY <1>1, <1>2, <2>2 DEF CleanupJob
    <3>2. k = [j EXCEPT !.todo = rest]
      BY <2>2
    <3> HIDE DEF j, k, rest
    <3>3. k \in CleanupJob /\ k.todo = rest /\ k.from = j.from
      BY <1>2, <3>1, <3>2 DEF CleanupJob
    <3> QED BY <3>1, <3>3
  <2> QED BY <2>1, <2>2
<1> HIDE DEF k
<1>4. job'["studio"] = k /\ job'["ingest"] = job["ingest"] /\ job' = [u \in Threads |-> job'[u]]
  BY <1>1, JobUpdate DEF Threads, IInv, Control
<1> QED BY <1>2, <1>3, <1>4 DEF CleanupGoesOn

(* The rundown leaves, or is trapped: only one that is not selected         *)
(* leaves.                                                                  *)
LEMMA LeaveOldPlaylistKeeps ==
  ASSUME IInv, LeaveOldPlaylist
  PROVE  IInv'
<1> USE DEF Threads
<1>0. Documents /\ SelectsItsOwn /\ Control /\ Jobs /\ RundownLocks /\ PlaylistLocks /\ Homes
  BY DEF IInv, Control
<1>1. CASE AllowedToMoveOut(job["ingest"].from, job["ingest"].r)
  <2>1. IngestGoesOn("regenerate", job["ingest"].into)
       /\ job["ingest"].from \in Ids
    BY <1>0, <1>1, AtIngest, IngestGoes, FromIsPlaylist DEF LeaveOldPlaylist, LeaveFor
  <2>2. At("ingest", "leave")
       /\ rundownLock' = rundownLock
       /\ playlistLock[job["ingest"].from] = Free
       /\ playlistLock' = [playlistLock EXCEPT ![job["ingest"].from] = "ingest"]
    BY <1>0, <1>1 DEF LeaveOldPlaylist, LeaveFor, Lock, locks, documents
  <2>3. Rehomed(job["ingest"].r, Tmp)
    BY <1>0, <1>1, <2>1, <2>2, Rehomes DEF LeaveOldPlaylist, LeaveFor, Homes, HomeInIngest,
       Documents, RundownDoc, Exists, Ids, IngestGoesOn
  <2>4. SamePlaylists
    BY <1>0, <1>1, <2>1, <2>2, <2>3 DEF LeaveOldPlaylist, LeaveFor, documents, SamePlaylists,
       PresentAfter, Present, At, IngestGoesOn
  <2>5. NoneLost
    BY <1>0, <2>1, <2>2, <2>3, <1>1, NotSelected DEF NoneLost, Rehomed, OthersStay, Homes, HomeInIngest
  <2>6. Documents' /\ SelectsItsOwn'
    BY <1>0, <2>1, <2>3, <2>4, <2>5, DocumentsKept, SelectionKept DEF IngestGoesOn, Ids
  <2>7. Jobs'
    BY <1>0, <2>1, <2>2 DEF Jobs, IngestGoesOn
  <2>8. RundownLocks'
    BY <1>0, <2>1, <2>2 DEF RundownLocks, HoldsRundown, At, Free, IngestGoesOn
  <2>9. PlaylistLocks'
    BY <1>0, <2>1, <2>2 DEF PlaylistLocks, HoldsPlaylist, At, Free, IngestGoesOn
  <2>10. HomeInIngest'
    BY <1>0, <1>1, <2>1, <2>2, <2>3 DEF HomeInIngest, Homes, IngestGoesOn, Rehomed, At, Exists
  <2>11. HomeInMove'
    BY <1>0, <2>1, <2>2, <2>3, OneHolder, MoveUndisturbed DEF HoldsRundown, At, Rehomed, IngestGoesOn
  <2>12. RemovedIsOff'
    BY <2>1, <2>4, RemovedStaysOff DEF IngestGoesOn
  <2> QED BY <2>6, <2>7, <2>8, <2>9, <2>10, <2>11, <2>12 DEF IInv, Control, Homes
<1>2. CASE ~AllowedToMoveOut(job["ingest"].from, job["ingest"].r)
  <2>1. IngestGoesOn("adopt", job["ingest"].from)
       /\ job["ingest"].from \in Ids
    BY <1>0, <1>2, AtIngest, IngestIsTrapped, FromIsPlaylist DEF LeaveOldPlaylist, LeaveFor
  <2>2. At("ingest", "leave")
       /\ rundownLock' = rundownLock
       /\ playlistLock' = playlistLock
    BY <1>0, <1>2 DEF LeaveOldPlaylist, LeaveFor, locks, documents
  <2>3. rundown' = rundown
    BY <1>0, <1>2, <2>1, <2>2 DEF LeaveOldPlaylist, LeaveFor, documents
  <2>4. SamePlaylists
    BY <1>0, <1>2, <2>1, <2>2, <2>3 DEF LeaveOldPlaylist, LeaveFor, documents, SamePlaylists,
       PresentAfter, Present, At, IngestGoesOn
  <2>5. NoneLost
    BY <1>0, <2>1, <2>2, <2>3 DEF NoneLost
  <2>6. Documents' /\ SelectsItsOwn'
    BY <1>0, <2>1, <2>3, <2>4, <2>5, DocumentsKept, SelectionKept DEF IngestGoesOn, Ids
  <2>7. Jobs'
    BY <1>0, <2>1, <2>2 DEF Jobs, IngestGoesOn
  <2>8. RundownLocks'
    BY <1>0, <2>1, <2>2 DEF RundownLocks, HoldsRundown, At, Free, IngestGoesOn
  <2>9. PlaylistLocks'
    BY <1>0, <2>1, <2>2 DEF PlaylistLocks, HoldsPlaylist, At, Free, IngestGoesOn
  <2>10. HomeInIngest'
    BY <1>0, <1>2, <2>1, <2>2, <2>3 DEF HomeInIngest, Homes, IngestGoesOn, At, Exists
  <2>11. HomeInMove'
    BY <1>0, <2>1, <2>2, <2>3, OneHolder, MoveUndisturbed DEF HoldsRundown, At, IngestGoesOn
  <2>12. RemovedIsOff'
    BY <2>1, <2>4, RemovedStaysOff DEF IngestGoesOn
  <2> QED BY <2>6, <2>7, <2>8, <2>9, <2>10, <2>11, <2>12 DEF IInv, Control, Homes
<1> QED BY <1>1, <1>2

(* The old playlist is renewed, the rundown being in none.                  *)
LEMMA RegenerateInIngestKeeps ==
  ASSUME IInv, RegenerateOldPlaylist("ingest")
  PROVE  IInv'
<1> USE DEF Threads
<1>0. Documents /\ SelectsItsOwn /\ Control /\ Jobs /\ RundownLocks /\ PlaylistLocks /\ Homes
  BY DEF IInv, Control
<1>1. CASE job["ingest"].remove
  <2>1. IngestGoesOn("remove", job["ingest"].into)
       /\ job["ingest"].from \in Ids
    BY <1>0, <1>1, AtIngest, IngestGoes, FromIsPlaylist DEF RegenerateOldPlaylist
  <2>2. At("ingest", "regenerate")
       /\ rundownLock' = rundownLock
       /\ playlistLock' = [playlistLock EXCEPT ![job["ingest"].from] = Free]
    BY <1>0, <1>1 DEF RegenerateOldPlaylist, Lock, Unlock, locks, documents
  <2>3. rundown' = rundown
    BY <1>0, <1>1, <2>1, <2>2 DEF RegenerateOldPlaylist, documents
  <2>4. Renewed(job["ingest"].from)
    BY <1>0, <1>1, <2>1, <2>2, <2>3, RegenerationRenews, OthersHavePlaylist DEF HoldsPlaylist, At,
       IngestGoesOn
  <2>5. NoneLost
    BY <1>0, <2>1, <2>2, <2>3 DEF NoneLost
  <2>6. Documents' /\ SelectsItsOwn'
    BY <1>0, <2>1, <2>3, <2>4, <2>5, DocumentsKept, SelectionKept DEF IngestGoesOn, Ids
  <2>7. Jobs'
    BY <1>0, <2>1, <2>2 DEF Jobs, IngestGoesOn
  <2>8. RundownLocks'
    BY <1>0, <2>1, <2>2 DEF RundownLocks, HoldsRundown, At, Free, IngestGoesOn
  <2>9. PlaylistLocks'
    BY <1>0, <2>1, <2>2 DEF PlaylistLocks, HoldsPlaylist, At, Free, IngestGoesOn
  <2>10. HomeInIngest'
    BY <1>0, <1>1, <2>1, <2>2, <2>3 DEF HomeInIngest, Homes, IngestGoesOn, At, Exists
  <2>11. HomeInMove'
    BY <1>0, <2>1, <2>2, <2>3, OneHolder, MoveUndisturbed DEF HoldsRundown, At, IngestGoesOn
  <2>12. RemovedIsOff'
    BY <2>1, <2>4, RemovedStaysOff DEF IngestGoesOn
  <2> QED BY <2>6, <2>7, <2>8, <2>9, <2>10, <2>11, <2>12 DEF IInv, Control, Homes
<1>2. CASE ~job["ingest"].remove
  <2>1. IngestGoesOn("adopt", job["ingest"].into)
       /\ job["ingest"].from \in Ids
    BY <1>0, <1>2, AtIngest, IngestGoes, FromIsPlaylist DEF RegenerateOldPlaylist
  <2>2. At("ingest", "regenerate")
       /\ rundownLock' = rundownLock
       /\ playlistLock' = [playlistLock EXCEPT ![job["ingest"].from] = Free]
    BY <1>0, <1>2 DEF RegenerateOldPlaylist, Lock, Unlock, locks, documents
  <2>3. rundown' = rundown
    BY <1>0, <1>2, <2>1, <2>2 DEF RegenerateOldPlaylist, documents
  <2>4. Renewed(job["ingest"].from)
    BY <1>0, <1>2, <2>1, <2>2, <2>3, RegenerationRenews, OthersHavePlaylist DEF HoldsPlaylist, At,
       IngestGoesOn
  <2>5. NoneLost
    BY <1>0, <2>1, <2>2, <2>3 DEF NoneLost
  <2>6. Documents' /\ SelectsItsOwn'
    BY <1>0, <2>1, <2>3, <2>4, <2>5, DocumentsKept, SelectionKept DEF IngestGoesOn, Ids
  <2>7. Jobs'
    BY <1>0, <2>1, <2>2 DEF Jobs, IngestGoesOn
  <2>8. RundownLocks'
    BY <1>0, <2>1, <2>2 DEF RundownLocks, HoldsRundown, At, Free, IngestGoesOn
  <2>9. PlaylistLocks'
    BY <1>0, <2>1, <2>2 DEF PlaylistLocks, HoldsPlaylist, At, Free, IngestGoesOn
  <2>10. HomeInIngest'
    BY <1>0, <1>2, <2>1, <2>2, <2>3 DEF HomeInIngest, Homes, IngestGoesOn, At, Exists
  <2>11. HomeInMove'
    BY <1>0, <2>1, <2>2, <2>3, OneHolder, MoveUndisturbed DEF HoldsRundown, At, IngestGoesOn
  <2>12. RemovedIsOff'
    BY <2>1, <2>4, RemovedStaysOff DEF IngestGoesOn
  <2> QED BY <2>6, <2>7, <2>8, <2>9, <2>10, <2>11, <2>12 DEF IInv, Control, Homes
<1> QED BY <1>1, <1>2

(* A rundown is removed from no playlist.                                   *)
LEMMA RemoveFromDbKeeps ==
  ASSUME IInv, RemoveFromDb
  PROVE  IInv'
<1> USE DEF Threads
<1>0. Documents /\ SelectsItsOwn /\ Control /\ Jobs /\ RundownLocks /\ PlaylistLocks /\ Homes
  BY DEF IInv, Control
<1>1. Ends("ingest")
     /\ job["ingest"].r \in Rundowns
  BY <1>0, JobEnds, AtIngest DEF RemoveFromDb, IngestJob
<1>2. At("ingest", "remove")
     /\ rundownLock' = [rundownLock EXCEPT ![job["ingest"].r] = Free]
     /\ playlistLock' = playlistLock
  BY <1>0 DEF RemoveFromDb, Lock, Unlock, locks, documents
<1>3. Removed(job["ingest"].r)
  BY <1>0, <1>1, <1>2, Removes DEF RemoveFromDb, documents
<1>4. SamePlaylists
  BY <1>0, <1>1, <1>2, <1>3 DEF RemoveFromDb, documents, SamePlaylists, PresentAfter, Present, At,
     Idle, Ends
<1>5. NoneLost
  BY <1>0, <1>1, <1>2, <1>3 DEF NoneLost, Removed, OthersStay, Homes, HomeInIngest
<1>6. Documents' /\ SelectsItsOwn'
  BY <1>0, <1>1, <1>3, <1>4, <1>5, DocumentsKept, SelectionKept DEF Ends, Ids
<1>7. Jobs'
  BY <1>0, <1>1, <1>2 DEF Jobs, Ends
<1>8. RundownLocks'
  BY <1>0, <1>1, <1>2 DEF RundownLocks, HoldsRundown, At, Free, Ends
<1>9. PlaylistLocks'
  BY <1>0, <1>1, <1>2 DEF PlaylistLocks, HoldsPlaylist, At, Free, Ends
<1>10. HomeInIngest'
  BY <1>0, <1>1, <1>2, <1>3 DEF HomeInIngest, Homes, Ends, Removed, At, Exists, Idle
<1>11. HomeInMove'
  BY <1>0, <1>1, <1>2, <1>3, OneHolder, MoveUndisturbed DEF HoldsRundown, At, Removed, Ends
<1>12. RemovedIsOff'
  BY <1>1, <1>4, RemovedStaysOff DEF Ends
<1> QED BY <1>6, <1>7, <1>8, <1>9, <1>10, <1>11, <1>12 DEF IInv, Control, Homes

(* The new playlist is made, with what it had selected.                     *)
LEMMA AdoptIntoPlaylistKeeps ==
  ASSUME IInv, AdoptIntoPlaylist
  PROVE  IInv'
<1> USE DEF Threads
<1>0. Documents /\ SelectsItsOwn /\ Control /\ Jobs /\ RundownLocks /\ PlaylistLocks /\ Homes
  BY DEF IInv, Control
<1>1. IngestGoesOn("save", job["ingest"].into)
     /\ job["ingest"].into \in Ids
  BY <1>0, AtIngest, IngestGoes DEF AdoptIntoPlaylist, IngestJob
<1>2. At("ingest", "adopt")
     /\ rundownLock' = rundownLock
     /\ playlistLock[job["ingest"].into] = Free
     /\ playlistLock' = [playlistLock EXCEPT ![job["ingest"].into] = "ingest"]
  BY <1>0 DEF AdoptIntoPlaylist, Lock, locks, documents
<1>3. rundown' = rundown
  BY <1>0, <1>1, <1>2 DEF AdoptIntoPlaylist, documents
<1>4. Renewed(job["ingest"].into)
  BY <1>0, <1>1, <1>2, <1>3, AdoptionRenews DEF HoldsPlaylist, At, IngestGoesOn
<1>5. NoneLost
  BY <1>0, <1>1, <1>2, <1>3 DEF NoneLost
<1>6. Documents' /\ SelectsItsOwn'
  BY <1>0, <1>1, <1>3, <1>4, <1>5, DocumentsKept, SelectionKept DEF IngestGoesOn, Ids
<1>7. Jobs'
  BY <1>0, <1>1, <1>2 DEF Jobs, IngestGoesOn
<1>8. RundownLocks'
  BY <1>0, <1>1, <1>2 DEF RundownLocks, HoldsRundown, At, Free, IngestGoesOn
<1>9. PlaylistLocks'
  BY <1>0, <1>1, <1>2 DEF PlaylistLocks, HoldsPlaylist, At, Free, IngestGoesOn
<1>10. HomeInIngest'
  BY <1>0, <1>1, <1>2, <1>3 DEF HomeInIngest, Homes, IngestGoesOn, At, Exists
<1>11. HomeInMove'
  BY <1>0, <1>1, <1>2, <1>3, OneHolder, MoveUndisturbed DEF HoldsRundown, At, IngestGoesOn
<1>12. RemovedIsOff'
  BY <1>1, <1>4, RemovedStaysOff DEF IngestGoesOn
<1> QED BY <1>6, <1>7, <1>8, <1>9, <1>10, <1>11, <1>12 DEF IInv, Control, Homes

(* The rundown arrives in the playlist whose lock is held.                  *)
LEMMA SaveRundownKeeps ==
  ASSUME IInv, SaveRundown
  PROVE  IInv'
<1> USE DEF Threads
<1>0. Documents /\ SelectsItsOwn /\ Control /\ Jobs /\ RundownLocks /\ PlaylistLocks /\ Homes
  BY DEF IInv, Control
<1>1. Ends("ingest")
     /\ job["ingest"].r \in Rundowns
     /\ job["ingest"].into \in Ids
     /\ job["ingest"] \in IngestJob
  BY <1>0, JobEnds, AtIngest DEF SaveRundown, IngestJob
<1>2. At("ingest", "save")
     /\ rundownLock' = [rundownLock EXCEPT ![job["ingest"].r] = Free]
     /\ playlistLock' = [playlistLock EXCEPT ![job["ingest"].into] = Free]
  BY <1>0 DEF SaveRundown, Lock, Unlock, locks, documents
<1>3. Rehomed(job["ingest"].r, job["ingest"].into)
  BY <1>0, <1>1, <1>2, Adopted DEF SaveRundown, IngestJob
<1>4. Renewed(job["ingest"].into)
  BY <1>0, <1>1, <1>2, <1>3, SavingRenews DEF HoldsPlaylist, At, Ends
<1>5. NoneLost
  BY <1>0, <1>1, <1>2, <1>3 DEF NoneLost, Rehomed, OthersStay, Homes, HomeInIngest, Exists
<1>6. Documents' /\ SelectsItsOwn'
  BY <1>0, <1>1, <1>3, <1>4, <1>5, DocumentsKept, SelectionKept DEF Ends, Ids
<1>7. Jobs'
  BY <1>0, <1>1, <1>2 DEF Jobs, Ends
<1>8. RundownLocks'
  BY <1>0, <1>1, <1>2 DEF RundownLocks, HoldsRundown, At, Free, Ends
<1>9. PlaylistLocks'
  BY <1>0, <1>1, <1>2 DEF PlaylistLocks, HoldsPlaylist, At, Free, Ends
<1>10. HomeInIngest'
  BY <1>0, <1>1, <1>2, <1>3 DEF HomeInIngest, Homes, Ends, Rehomed, At, Exists, Idle
<1>11. HomeInMove'
  BY <1>0, <1>1, <1>2, <1>3, OneHolder, MoveUndisturbed DEF HoldsRundown, At, Rehomed, Ends
<1>12. RemovedIsOff'
  BY <1>1, <1>4, RemovedStaysOff DEF Ends
<1> QED BY <1>6, <1>7, <1>8, <1>9, <1>10, <1>11, <1>12 DEF IInv, Control, Homes

(* An ingest job starts, and has the lock of its rundown.                   *)
LEMMA CommitKeeps ==
  ASSUME IInv, NEW r \in Rundowns, NEW doc \in RundownDoc, NEW remove \in BOOLEAN,
         Exists(r) => doc.home = rundown[r].home, Commit(r, doc, remove)
  PROVE  IInv'
<1> USE DEF Threads
<1>0. Documents /\ SelectsItsOwn /\ Control /\ Jobs /\ RundownLocks /\ PlaylistLocks /\ Homes
  BY DEF IInv, Control
<1>1. IngestBegins(r)
  BY <1>0, CommitBegins DEF Commit
<1>2. rundownLock[r] = Free
     /\ rundownLock' = [rundownLock EXCEPT ![r] = "ingest"]
     /\ playlistLock' = playlistLock
  BY <1>0 DEF Commit, Lock, locks, documents
<1>3. rundown' = rundown
  BY <1>0, <1>1, <1>2 DEF Commit, documents
<1>4. SamePlaylists
  BY <1>0, <1>1, <1>2, <1>3 DEF Commit, documents, SamePlaylists, PresentAfter, Present, At, Idle,
     IngestBegins
<1>5. NoneLost
  BY <1>0, <1>1, <1>2, <1>3 DEF NoneLost
<1>6. Documents' /\ SelectsItsOwn'
  BY <1>0, <1>1, <1>3, <1>4, <1>5, DocumentsKept, SelectionKept DEF IngestBegins, Ids
<1>7. Jobs'
  BY <1>0, <1>1, <1>2 DEF Jobs, IngestBegins
<1>8. RundownLocks'
  BY <1>0, <1>1, <1>2 DEF RundownLocks, HoldsRundown, At, Free, IngestBegins, Idle
<1>9. PlaylistLocks'
  BY <1>0, <1>1, <1>2 DEF PlaylistLocks, HoldsPlaylist, At, Free, IngestBegins, Idle
<1>10. HomeInIngest'
  BY <1>0, <1>1, <1>2, <1>3 DEF HomeInIngest, Homes, IngestBegins, At, Exists, Idle
<1>11. HomeInMove'
  BY <1>0, <1>1, <1>2, <1>3, OneHolder, MoveUndisturbed DEF HoldsRundown, At, IngestBegins
<1>12. RemovedIsOff'
  BY <1>1, <1>4, RemovedStaysOff DEF IngestBegins
<1> QED BY <1>6, <1>7, <1>8, <1>9, <1>10, <1>11, <1>12 DEF IInv, Control, Homes

(* A rundown is marked where it is.                                         *)
LEMMA UnsyncRundownKeeps ==
  ASSUME IInv, NEW r \in Rundowns, UnsyncRundown(r)
  PROVE  IInv'
<1> USE DEF Threads
<1>0. Documents /\ SelectsItsOwn /\ Control /\ Jobs /\ RundownLocks /\ PlaylistLocks /\ Homes
  BY DEF IInv, Control
<1>1. Ends("ingest")
     /\ job["ingest"] = Idle
  BY <1>0, JobEnds DEF UnsyncRundown, Starts, Done
<1>2. rundownLock[r] = Free
     /\ rundownLock' = rundownLock
     /\ playlistLock' = playlistLock
     /\ job' = job
  BY <1>0 DEF UnsyncRundown, Lock, locks, documents, Starts, Jobs
<1>3. Rehomed(r, rundown[r].home)
  BY <1>0, <1>1, <1>2, Orphaned DEF UnsyncRundown
<1>4. SamePlaylists
  BY <1>0, <1>1, <1>2, <1>3 DEF UnsyncRundown, documents, SamePlaylists, PresentAfter, Present, At,
     Idle, Ends
<1>5. NoneLost
  BY <1>0, <1>1, <1>2, <1>3 DEF NoneLost, Rehomed, OthersStay
<1>6. Documents' /\ SelectsItsOwn'
  BY <1>0, <1>1, <1>3, <1>4, <1>5, DocumentsKept, SelectionKept DEF Documents, UnsyncRundown, Exists
<1>7. Jobs'
  BY <1>0, <1>1, <1>2 DEF Jobs, Ends
<1>8. RundownLocks'
  BY <1>0, <1>2 DEF RundownLocks, HoldsRundown, At
<1>9. PlaylistLocks'
  BY <1>0, <1>2 DEF PlaylistLocks, HoldsPlaylist, At
<1>10. HomeInIngest'
  BY <1>0, <1>1, <1>2, <1>3 DEF HomeInIngest, Homes, Ends, Rehomed, At, Exists, Idle
<1>11. HomeInMove'
  BY <1>0, <1>1, <1>2, <1>3, OneHolder, MoveUndisturbed DEF HoldsRundown, At, Rehomed, Ends
<1>12. RemovedIsOff'
  BY <1>1, <1>4, RemovedStaysOff DEF Ends
<1> QED BY <1>6, <1>7, <1>8, <1>9, <1>10, <1>11, <1>12 DEF IInv, Control, Homes

(* As RegenerateInIngestKeeps, in a move.                                   *)
LEMMA RegenerateInMoveKeeps ==
  ASSUME IInv, RegenerateOldPlaylist("studio")
  PROVE  IInv'
<1> USE DEF Threads
<1>0. Documents /\ SelectsItsOwn /\ Control /\ Jobs /\ RundownLocks /\ PlaylistLocks /\ Homes
  BY DEF IInv, Control
<1>1. MoveGoesOn("enter", job["studio"].from, job["studio"].into)
     /\ job["studio"].from \in Ids
  BY <1>0, AtStudio, MoveGoes, FromIsPlaylist DEF RegenerateOldPlaylist, Locked
<1>2. At("studio", "regenerate")
     /\ rundownLock' = rundownLock
     /\ playlistLock' = [playlistLock EXCEPT ![job["studio"].from] = Free]
  BY <1>0 DEF RegenerateOldPlaylist, Lock, Unlock, locks, documents
<1>3. rundown' = rundown
  BY <1>0, <1>1, <1>2 DEF RegenerateOldPlaylist, documents
<1>4. Renewed(job["studio"].from)
  BY <1>0, <1>1, <1>2, <1>3, RegenerationRenews, NotOrdering DEF MoveGoesOn
<1>5. NoneLost
  BY <1>0, <1>1, <1>2, <1>3 DEF NoneLost
<1>6. Documents' /\ SelectsItsOwn'
  BY <1>0, <1>1, <1>3, <1>4, <1>5, DocumentsKept, SelectionKept DEF MoveGoesOn, Ids
<1>7. Jobs'
  BY <1>0, <1>1, <1>2 DEF Jobs, MoveGoesOn
<1>8. RundownLocks'
  BY <1>0, <1>1, <1>2 DEF RundownLocks, HoldsRundown, At, Free, MoveGoesOn
<1>9. PlaylistLocks'
  BY <1>0, <1>1, <1>2 DEF PlaylistLocks, HoldsPlaylist, At, Free, MoveGoesOn
<1>10. HomeInIngest'
  BY <1>0, <1>1, <1>2, <1>3, OneHolder, IngestUndisturbed DEF HoldsRundown, At, MoveGoesOn
<1>11. HomeInMove'
  BY <1>0, <1>1, <1>2, <1>3 DEF HomeInMove, Homes, MoveGoesOn, At, Exists, Locked, MoveJob
<1>12. RemovedIsOff'
  BY <1>0, <1>1, <1>2, <1>4 DEF RemovedIsOff, Homes, At, Renewed, OthersSame, PresentAfter, Jobs,
     ListJob, CleanupJob, MoveGoesOn
<1> QED BY <1>6, <1>7, <1>8, <1>9, <1>10, <1>11, <1>12 DEF IInv, Control, Homes

(* As LeaveOldPlaylistKeeps; a move that may not leave ends.                *)
LEMMA MoveOutOfPlaylistKeeps ==
  ASSUME IInv, MoveOutOfPlaylist
  PROVE  IInv'
<1> USE DEF Threads
<1>0. Documents /\ SelectsItsOwn /\ Control /\ Jobs /\ RundownLocks /\ PlaylistLocks /\ Homes
  BY DEF IInv, Control
<1>1. CASE playlist[job["studio"].from] # None /\ AllowedToMoveOut(job["studio"].from, job["studio"].r)
  <2>1. MoveGoesOn("regenerate", job["studio"].from, job["studio"].into)
       /\ job["studio"].from \in Ids
    BY <1>0, <1>1, AtStudio, MoveGoes, FromIsPlaylist DEF MoveOutOfPlaylist, LeaveFor, Locked
  <2>2. At("studio", "leave")
       /\ rundownLock' = rundownLock
       /\ playlistLock[job["studio"].from] = Free
       /\ playlistLock' = [playlistLock EXCEPT ![job["studio"].from] = "studio"]
    BY <1>0, <1>1 DEF MoveOutOfPlaylist, LeaveFor, MoveThrows, Lock, locks, documents
  <2>3. Rehomed(job["studio"].r, Tmp)
    BY <1>0, <1>1, <2>1, <2>2, Rehomes DEF MoveOutOfPlaylist, LeaveFor, Homes, HomeInMove,
       Documents, RundownDoc, Exists, Ids, MoveGoesOn, Locked, At
  <2>4. SamePlaylists
    BY <1>0, <1>1, <2>1, <2>2, <2>3 DEF MoveOutOfPlaylist, LeaveFor, MoveThrows, documents,
       SamePlaylists, PresentAfter, Present, At, MoveGoesOn
  <2>5. NoneLost
    BY <1>0, <2>1, <2>2, <2>3, <1>1, NotSelected DEF NoneLost, Rehomed, OthersStay, Homes, HomeInMove
  <2>6. Documents' /\ SelectsItsOwn'
    BY <1>0, <2>1, <2>3, <2>4, <2>5, DocumentsKept, SelectionKept DEF MoveGoesOn, Ids
  <2>7. Jobs'
    BY <1>0, <2>1, <2>2 DEF Jobs, MoveGoesOn
  <2>8. RundownLocks'
    BY <1>0, <2>1, <2>2 DEF RundownLocks, HoldsRundown, At, Free, MoveGoesOn
  <2>9. PlaylistLocks'
    BY <1>0, <2>1, <2>2 DEF PlaylistLocks, HoldsPlaylist, At, Free, MoveGoesOn
  <2>10. HomeInIngest'
    BY <1>0, <2>1, <2>2, <2>3, OneHolder, IngestUndisturbed DEF HoldsRundown, At, Rehomed, MoveGoesOn
  <2>11. HomeInMove'
    BY <1>0, <1>1, <2>1, <2>2, <2>3 DEF HomeInMove, Homes, MoveGoesOn, Rehomed, At, Exists, Locked,
       MoveJob
  <2>12. RemovedIsOff'
    BY <1>0, <2>1, <2>2, <2>4 DEF RemovedIsOff, Homes, At, SamePlaylists, PresentAfter, Jobs,
       ListJob, CleanupJob, MoveGoesOn
  <2> QED BY <2>6, <2>7, <2>8, <2>9, <2>10, <2>11, <2>12 DEF IInv, Control, Homes
<1>2. CASE ~(playlist[job["studio"].from] # None /\ AllowedToMoveOut(job["studio"].from, job["studio"].r))
  <2>1. Ends("studio")
       /\ job["studio"].r \in Rundowns
    BY <1>0, <1>2, AtStudio, JobEnds DEF MoveOutOfPlaylist, MoveThrows, Locked, MoveJob
  <2>2. At("studio", "leave")
       /\ rundownLock' = [rundownLock EXCEPT ![job["studio"].r] = Free]
       /\ playlistLock' = playlistLock
    BY <1>0, <1>2 DEF MoveOutOfPlaylist, LeaveFor, MoveThrows, Lock, Unlock, locks, documents
  <2>3. rundown' = rundown
    BY <1>0, <1>2, <2>1, <2>2 DEF MoveOutOfPlaylist, LeaveFor, MoveThrows, documents
  <2>4. SamePlaylists
    BY <1>0, <1>2, <2>1, <2>2, <2>3 DEF MoveOutOfPlaylist, LeaveFor, MoveThrows, documents,
       SamePlaylists, PresentAfter, Present, At, Idle, Ends
  <2>5. NoneLost
    BY <1>0, <2>1, <2>2, <2>3 DEF NoneLost
  <2>6. Documents' /\ SelectsItsOwn'
    BY <1>0, <2>1, <2>3, <2>4, <2>5, DocumentsKept, SelectionKept DEF Ends, Ids
  <2>7. Jobs'
    BY <1>0, <2>1, <2>2 DEF Jobs, Ends
  <2>8. RundownLocks'
    BY <1>0, <2>1, <2>2 DEF RundownLocks, HoldsRundown, At, Free, Ends
  <2>9. PlaylistLocks'
    BY <1>0, <2>1, <2>2 DEF PlaylistLocks, HoldsPlaylist, At, Free, Ends
  <2>10. HomeInIngest'
    BY <1>0, <2>1, <2>2, <2>3, OneHolder, IngestUndisturbed DEF HoldsRundown, At, Ends
  <2>11. HomeInMove'
    BY <1>0, <1>2, <2>1, <2>2, <2>3 DEF HomeInMove, Homes, Ends, At, Exists, Idle, Locked, MoveJob
  <2>12. RemovedIsOff'
    BY <1>0, <2>1, <2>2, <2>4 DEF RemovedIsOff, Homes, At, SamePlaylists, PresentAfter, Jobs,
       ListJob, CleanupJob, Idle, Ends
  <2> QED BY <2>6, <2>7, <2>8, <2>9, <2>10, <2>11, <2>12 DEF IInv, Control, Homes
<1> QED BY <1>1, <1>2

(* The target is gone, or is the home already, or becomes it.               *)
LEMMA MoveIntoPlaylistKeeps ==
  ASSUME IInv, MoveIntoPlaylist
  PROVE  IInv'
<1> USE DEF Threads
<1>0. Documents /\ SelectsItsOwn /\ Control /\ Jobs /\ RundownLocks /\ PlaylistLocks /\ Homes
  BY DEF IInv, Control
<1>1. CASE playlist[job["studio"].into] = None
  <2>1. Ends("studio")
       /\ job["studio"].r \in Rundowns
    BY <1>0, <1>1, JobEnds, AtStudio DEF MoveIntoPlaylist, MoveThrows, Locked, MoveJob
  <2>2. At("studio", "enter")
       /\ rundownLock' = [rundownLock EXCEPT ![job["studio"].r] = Free]
       /\ playlistLock' = playlistLock
    BY <1>0, <1>1 DEF MoveIntoPlaylist, MoveThrows, Lock, Unlock, locks, documents
  <2>3. rundown' = rundown
    BY <1>0, <1>1, <2>1, <2>2 DEF MoveIntoPlaylist, MoveThrows, documents
  <2>4. SamePlaylists
    BY <1>0, <1>1, <2>1, <2>2, <2>3 DEF MoveIntoPlaylist, MoveThrows, documents, SamePlaylists,
       PresentAfter, Present, At, Idle, Ends
  <2>5. NoneLost
    BY <1>0, <2>1, <2>2, <2>3 DEF NoneLost
  <2>6. Documents' /\ SelectsItsOwn'
    BY <1>0, <2>1, <2>3, <2>4, <2>5, DocumentsKept, SelectionKept DEF Ends, Ids
  <2>7. Jobs'
    BY <1>0, <2>1, <2>2 DEF Jobs, Ends
  <2>8. RundownLocks'
    BY <1>0, <2>1, <2>2 DEF RundownLocks, HoldsRundown, At, Free, Ends
  <2>9. PlaylistLocks'
    BY <1>0, <2>1, <2>2 DEF PlaylistLocks, HoldsPlaylist, At, Free, Ends
  <2>10. HomeInIngest'
    BY <1>0, <2>1, <2>2, <2>3, OneHolder, IngestUndisturbed DEF HoldsRundown, At, Ends
  <2>11. HomeInMove'
    BY <1>0, <1>1, <2>1, <2>2, <2>3 DEF HomeInMove, Homes, Ends, At, Exists, Idle, Locked, MoveJob
  <2>12. RemovedIsOff'
    BY <1>0, <2>1, <2>2, <2>4 DEF RemovedIsOff, Homes, At, SamePlaylists, PresentAfter, Jobs,
       ListJob, CleanupJob, Idle, Ends
  <2> QED BY <2>6, <2>7, <2>8, <2>9, <2>10, <2>11, <2>12 DEF IInv, Control, Homes
<1>2. CASE playlist[job["studio"].into] # None /\ job["studio"].from = job["studio"].into
  <2>1. MoveGoesOn("order", job["studio"].from, job["studio"].into)
       /\ job["studio"].into \in Ids
    BY <1>0, <1>2, AtStudio, MoveGoes DEF MoveIntoPlaylist, Locked, MoveJob
  <2>2. At("studio", "enter")
       /\ rundownLock' = rundownLock
       /\ playlistLock[job["studio"].into] = Free
       /\ playlistLock' = [playlistLock EXCEPT ![job["studio"].into] = "studio"]
    BY <1>0, <1>2 DEF MoveIntoPlaylist, MoveThrows, Lock, locks, documents
  <2>3. rundown' = rundown
    BY <1>0, <1>2, <2>1, <2>2 DEF MoveIntoPlaylist, MoveThrows, documents
  <2>4. Renewed(job["studio"].into)
    BY <1>0, <1>2, <2>1, <2>2, <2>3, EnteringRenews DEF MoveIntoPlaylist, PresentAfter, MoveGoesOn
  <2>5. NoneLost
    BY <1>0, <2>1, <2>2, <2>3 DEF NoneLost
  <2>6. Documents' /\ SelectsItsOwn'
    BY <1>0, <2>1, <2>3, <2>4, <2>5, DocumentsKept, SelectionKept DEF MoveGoesOn, Ids
  <2>7. Jobs'
    BY <1>0, <2>1, <2>2 DEF Jobs, MoveGoesOn
  <2>8. RundownLocks'
    BY <1>0, <2>1, <2>2 DEF RundownLocks, HoldsRundown, At, Free, MoveGoesOn
  <2>9. PlaylistLocks'
    BY <1>0, <2>1, <2>2 DEF PlaylistLocks, HoldsPlaylist, At, Free, MoveGoesOn
  <2>10. HomeInIngest'
    BY <1>0, <2>1, <2>2, <2>3, OneHolder, IngestUndisturbed DEF HoldsRundown, At, MoveGoesOn
  <2>11. HomeInMove'
    BY <1>0, <1>2, <2>1, <2>2, <2>3 DEF HomeInMove, Homes, MoveGoesOn, At, Exists, Locked, MoveJob
  <2>12. RemovedIsOff'
    BY <1>0, <2>1, <2>2, <2>4 DEF RemovedIsOff, Homes, At, Renewed, OthersSame, PresentAfter, Jobs,
       ListJob, CleanupJob, MoveGoesOn
  <2> QED BY <2>6, <2>7, <2>8, <2>9, <2>10, <2>11, <2>12 DEF IInv, Control, Homes
<1>3. CASE playlist[job["studio"].into] # None /\ job["studio"].from # job["studio"].into
  <2>1. MoveGoesOn("order", job["studio"].from, job["studio"].into)
       /\ job["studio"].into \in Ids
    BY <1>0, <1>3, AtStudio, MoveGoes DEF MoveIntoPlaylist, Locked, MoveJob
  <2>2. At("studio", "enter")
       /\ rundownLock' = rundownLock
       /\ playlistLock[job["studio"].into] = Free
       /\ playlistLock' = [playlistLock EXCEPT ![job["studio"].into] = "studio"]
    BY <1>0, <1>3 DEF MoveIntoPlaylist, MoveThrows, Lock, locks, documents
  <2>3. Rehomed(job["studio"].r, job["studio"].into)
    BY <1>0, <1>3, <2>1, <2>2, Rehomes DEF MoveIntoPlaylist, Homes, HomeInMove, MoveGoesOn, Locked, At
  <2>4. Renewed(job["studio"].into)
    BY <1>0, <1>3, <2>1, <2>2, <2>3, EnteringRenews DEF MoveIntoPlaylist, PresentAfter, MoveGoesOn
  <2>5. NoneLost
    BY <1>0, <2>1, <2>2, <2>3, <1>3, AtStudio DEF NoneLost, Rehomed, OthersStay, Homes, HomeInMove
  <2>6. Documents' /\ SelectsItsOwn'
    BY <1>0, <2>1, <2>3, <2>4, <2>5, DocumentsKept, SelectionKept DEF MoveGoesOn, Ids
  <2>7. Jobs'
    BY <1>0, <2>1, <2>2 DEF Jobs, MoveGoesOn
  <2>8. RundownLocks'
    BY <1>0, <2>1, <2>2 DEF RundownLocks, HoldsRundown, At, Free, MoveGoesOn
  <2>9. PlaylistLocks'
    BY <1>0, <2>1, <2>2 DEF PlaylistLocks, HoldsPlaylist, At, Free, MoveGoesOn
  <2>10. HomeInIngest'
    BY <1>0, <2>1, <2>2, <2>3, OneHolder, IngestUndisturbed DEF HoldsRundown, At, Rehomed, MoveGoesOn
  <2>11. HomeInMove'
    BY <1>0, <1>3, <2>1, <2>2, <2>3 DEF HomeInMove, Homes, MoveGoesOn, Rehomed, At, Exists, Locked,
       MoveJob
  <2>12. RemovedIsOff'
    BY <1>0, <2>1, <2>2, <2>4 DEF RemovedIsOff, Homes, At, Renewed, OthersSame, PresentAfter, Jobs,
       ListJob, CleanupJob, MoveGoesOn
  <2> QED BY <2>6, <2>7, <2>8, <2>9, <2>10, <2>11, <2>12 DEF IInv, Control, Homes
<1> QED BY <1>1, <1>2, <1>3

(* The target is put in order, and both locks are released.                 *)
LEMMA OrderPlaylistKeeps ==
  ASSUME IInv, OrderPlaylist
  PROVE  IInv'
<1> USE DEF Threads
<1>0. Documents /\ SelectsItsOwn /\ Control /\ Jobs /\ RundownLocks /\ PlaylistLocks /\ Homes
  BY DEF IInv, Control
<1>1. Ends("studio")
     /\ job["studio"].r \in Rundowns
     /\ job["studio"].into \in Ids
  BY <1>0, JobEnds, AtStudio DEF OrderPlaylist, Locked, MoveJob, Homes, HomeInMove
<1>2. At("studio", "order")
     /\ rundownLock' = [rundownLock EXCEPT ![job["studio"].r] = Free]
     /\ playlistLock' = [playlistLock EXCEPT ![job["studio"].into] = Free]
  BY <1>0 DEF OrderPlaylist, Lock, Unlock, locks, documents
<1>3. rundown' = rundown
  BY <1>0, <1>1, <1>2 DEF OrderPlaylist, documents
<1>4. Renewed(job["studio"].into)
  BY <1>0, <1>1, <1>2, <1>3, OrderingRenews DEF Ends
<1>5. NoneLost
  BY <1>0, <1>1, <1>2, <1>3 DEF NoneLost
<1>6. Documents' /\ SelectsItsOwn'
  BY <1>0, <1>1, <1>3, <1>4, <1>5, DocumentsKept, SelectionKept DEF Ends, Ids
<1>7. Jobs'
  BY <1>0, <1>1, <1>2 DEF Jobs, Ends
<1>8. RundownLocks'
  BY <1>0, <1>1, <1>2 DEF RundownLocks, HoldsRundown, At, Free, Ends
<1>9. PlaylistLocks'
  BY <1>0, <1>1, <1>2 DEF PlaylistLocks, HoldsPlaylist, At, Free, Ends
<1>10. HomeInIngest'
  BY <1>0, <1>1, <1>2, <1>3, OneHolder, IngestUndisturbed DEF HoldsRundown, At, Ends
<1>11. HomeInMove'
  BY <1>0, <1>1, <1>2, <1>3 DEF HomeInMove, Homes, Ends, At, Exists, Idle, Locked, MoveJob
<1>12. RemovedIsOff'
  BY <1>0, <1>1, <1>2, <1>4 DEF RemovedIsOff, Homes, At, Renewed, OthersSame, PresentAfter, Jobs,
     ListJob, CleanupJob, Idle, Ends
<1> QED BY <1>6, <1>7, <1>8, <1>9, <1>10, <1>11, <1>12 DEF IInv, Control, Homes

(* A playlist with a new id is nobody's.                                    *)
LEMMA InsertPlaylistKeeps ==
  ASSUME IInv, NEW p \in Fresh, InsertPlaylist(p)
  PROVE  IInv'
<1> USE DEF Threads
<1>0. Documents /\ SelectsItsOwn /\ Control /\ Jobs /\ RundownLocks /\ PlaylistLocks /\ Homes
  BY DEF IInv, Control
<1>1. MoveGoesOn("settle", job["studio"].from, p)
     /\ p \in Ids
  BY <1>0, AtStudio, MoveSettles DEF InsertPlaylist, Locked, Ids
<1>2. At("studio", "enter")
     /\ rundownLock' = rundownLock
     /\ playlistLock' = playlistLock
  BY <1>0 DEF InsertPlaylist, locks, documents
<1>3. rundown' = rundown
  BY <1>0, <1>1, <1>2 DEF InsertPlaylist, documents
<1>4. Renewed(p)
  BY <1>0, <1>1, <1>2, <1>3, InsertionRenews DEF MoveGoesOn
<1>5. NoneLost
  BY <1>0, <1>1, <1>2, <1>3 DEF NoneLost
<1>6. Documents' /\ SelectsItsOwn'
  BY <1>0, <1>1, <1>3, <1>4, <1>5, DocumentsKept, SelectionKept DEF MoveGoesOn, Ids
<1>7. Jobs'
  BY <1>0, <1>1, <1>2 DEF Jobs, MoveGoesOn
<1>8. RundownLocks'
  BY <1>0, <1>1, <1>2 DEF RundownLocks, HoldsRundown, At, Free, MoveGoesOn
<1>9. PlaylistLocks'
  BY <1>0, <1>1, <1>2 DEF PlaylistLocks, HoldsPlaylist, At, Free, MoveGoesOn
<1>10. HomeInIngest'
  BY <1>0, <1>1, <1>2, <1>3, OneHolder, IngestUndisturbed DEF HoldsRundown, At, MoveGoesOn
<1>11. HomeInMove'
  BY <1>0, <1>1, <1>2, <1>3, OnItsWay DEF InsertPlaylist, HomeInMove, MoveGoesOn, At, Exists, Locked
<1>12. RemovedIsOff'
  BY <1>0, <1>1, <1>2, <1>4 DEF RemovedIsOff, Homes, At, Renewed, OthersSame, PresentAfter, Jobs,
     ListJob, CleanupJob, MoveGoesOn
<1> QED BY <1>6, <1>7, <1>8, <1>9, <1>10, <1>11, <1>12 DEF IInv, Control, Homes

(* The rundown arrives in the playlist that was made for it.                *)
LEMMA SettleInPlaylistKeeps ==
  ASSUME IInv, SettleInPlaylist
  PROVE  IInv'
<1> USE DEF Threads
<1>0. Documents /\ SelectsItsOwn /\ Control /\ Jobs /\ RundownLocks /\ PlaylistLocks /\ Homes
  BY DEF IInv, Control
<1>1. Ends("studio")
     /\ job["studio"].r \in Rundowns
     /\ job["studio"].into \in Ids
  BY <1>0, JobEnds, AtStudio DEF SettleInPlaylist, Locked, MoveJob, Homes, HomeInMove
<1>2. At("studio", "settle")
     /\ rundownLock' = [rundownLock EXCEPT ![job["studio"].r] = Free]
     /\ playlistLock' = playlistLock
  BY <1>0 DEF SettleInPlaylist, Lock, Unlock, locks, documents
<1>3. Rehomed(job["studio"].r, job["studio"].into)
  BY <1>0, <1>1, <1>2, Rehomes DEF SettleInPlaylist, Homes, HomeInMove, Locked, At
<1>4. SamePlaylists
  BY <1>0, <1>1, <1>2, <1>3 DEF SettleInPlaylist, documents, SamePlaylists, PresentAfter, Present,
     At, Idle, Ends
<1>5. NoneLost
  BY <1>0, <1>1, <1>2, <1>3 DEF NoneLost, Rehomed, OthersStay, Homes, HomeInMove
<1>6. Documents' /\ SelectsItsOwn'
  BY <1>0, <1>1, <1>3, <1>4, <1>5, DocumentsKept, SelectionKept DEF Ends, Ids
<1>7. Jobs'
  BY <1>0, <1>1, <1>2 DEF Jobs, Ends
<1>8. RundownLocks'
  BY <1>0, <1>1, <1>2 DEF RundownLocks, HoldsRundown, At, Free, Ends
<1>9. PlaylistLocks'
  BY <1>0, <1>1, <1>2 DEF PlaylistLocks, HoldsPlaylist, At, Free, Ends
<1>10. HomeInIngest'
  BY <1>0, <1>1, <1>2, <1>3, OneHolder, IngestUndisturbed DEF HoldsRundown, At, Rehomed, Ends
<1>11. HomeInMove'
  BY <1>0, <1>1, <1>2, <1>3 DEF HomeInMove, Homes, Ends, Rehomed, At, Exists, Idle, Locked, MoveJob
<1>12. RemovedIsOff'
  BY <1>0, <1>1, <1>2, <1>4 DEF RemovedIsOff, Homes, At, SamePlaylists, PresentAfter, Jobs,
     ListJob, CleanupJob, Idle, Ends
<1> QED BY <1>6, <1>7, <1>8, <1>9, <1>10, <1>11, <1>12 DEF IInv, Control, Homes

(* The rundown is gone, or is locked before its home is read.               *)
LEMMA LockMovedRundownKeeps ==
  ASSUME IInv, LockMovedRundown
  PROVE  IInv'
<1> USE DEF Threads
<1>0. Documents /\ SelectsItsOwn /\ Control /\ Jobs /\ RundownLocks /\ PlaylistLocks /\ Homes
  BY DEF IInv, Control
<1>1. CASE ~Exists(job["studio"].r)
  <2>1. Ends("studio")
    BY <1>0, <1>1, JobEnds DEF LockMovedRundown
  <2>2. At("studio", "lock")
       /\ rundownLock' = rundownLock
       /\ playlistLock' = playlistLock
    BY <1>0, <1>1 DEF LockMovedRundown, locks, documents
  <2>3. rundown' = rundown
    BY <1>0, <1>1, <2>1, <2>2 DEF LockMovedRundown, documents
  <2>4. SamePlaylists
    BY <1>0, <1>1, <2>1, <2>2, <2>3 DEF LockMovedRundown, documents, SamePlaylists, PresentAfter,
       Present, At, Idle, Ends
  <2>5. NoneLost
    BY <1>0, <2>1, <2>2, <2>3 DEF NoneLost
  <2>6. Documents' /\ SelectsItsOwn'
    BY <1>0, <2>1, <2>3, <2>4, <2>5, DocumentsKept, SelectionKept DEF Ends, Ids
  <2>7. Jobs'
    BY <1>0, <2>1, <2>2 DEF Jobs, Ends
  <2>8. RundownLocks'
    BY <1>0, <2>1, <2>2 DEF RundownLocks, HoldsRundown, At, Free, Ends
  <2>9. PlaylistLocks'
    BY <1>0, <2>1, <2>2 DEF PlaylistLocks, HoldsPlaylist, At, Free, Ends
  <2>10. HomeInIngest'
    BY <1>0, <2>1, <2>2, <2>3, OneHolder, IngestUndisturbed DEF HoldsRundown, At, Ends
  <2>11. HomeInMove'
    BY <1>0, <1>1, <2>1, <2>2, <2>3 DEF HomeInMove, Homes, Ends, At, Exists, Idle, Locked, MoveJob
  <2>12. RemovedIsOff'
    BY <1>0, <2>1, <2>2, <2>4 DEF RemovedIsOff, Homes, At, SamePlaylists, PresentAfter, Jobs,
       ListJob, CleanupJob, Idle, Ends
  <2> QED BY <2>6, <2>7, <2>8, <2>9, <2>10, <2>11, <2>12 DEF IInv, Control, Homes
<1>2. CASE Exists(job["studio"].r)
  <2>1. MoveGoesOn(IF rundown[job["studio"].r].home = job["studio"].into THEN "enter" ELSE "leave",
                  rundown[job["studio"].r].home, job["studio"].into)
    BY <1>0, <1>2, MoveBegins DEF LockMovedRundown
  <2>2. At("studio", "lock")
       /\ rundownLock[job["studio"].r] = Free
       /\ rundownLock' = [rundownLock EXCEPT ![job["studio"].r] = "studio"]
       /\ playlistLock' = playlistLock
    BY <1>0, <1>2 DEF LockMovedRundown, Lock, locks, documents
  <2>3. rundown' = rundown
    BY <1>0, <1>2, <2>1, <2>2 DEF LockMovedRundown, documents
  <2>4. SamePlaylists
    BY <1>0, <1>2, <2>1, <2>2, <2>3 DEF LockMovedRundown, documents, SamePlaylists, PresentAfter,
       Present, At, MoveGoesOn
  <2>5. NoneLost
    BY <1>0, <2>1, <2>2, <2>3 DEF NoneLost
  <2>6. Documents' /\ SelectsItsOwn'
    BY <1>0, <2>1, <2>3, <2>4, <2>5, DocumentsKept, SelectionKept DEF MoveGoesOn, Ids
  <2>7. Jobs'
    BY <1>0, <2>1, <2>2 DEF Jobs, MoveGoesOn
  <2>8. RundownLocks'
    BY <1>0, <2>1, <2>2 DEF RundownLocks, HoldsRundown, At, Free, MoveGoesOn
  <2>9. PlaylistLocks'
    BY <1>0, <2>1, <2>2 DEF PlaylistLocks, HoldsPlaylist, At, Free, MoveGoesOn
  <2>10. HomeInIngest'
    BY <1>0, <2>1, <2>2, <2>3, OneHolder, IngestUndisturbed DEF HoldsRundown, At, MoveGoesOn
  <2>11. HomeInMove'
    BY <1>0, <1>2, <2>1, <2>2, <2>3 DEF HomeInMove, Homes, MoveGoesOn, At, Exists, Locked, MoveJob
  <2>12. RemovedIsOff'
    BY <1>0, <2>1, <2>2, <2>4 DEF RemovedIsOff, Homes, At, SamePlaylists, PresentAfter, Jobs,
       ListJob, CleanupJob, MoveGoesOn
  <2> QED BY <2>6, <2>7, <2>8, <2>9, <2>10, <2>11, <2>12 DEF IInv, Control, Homes
<1> QED BY <1>1, <1>2

(* A job of the studio begins without the lock of a rundown.               *)
LEMMA BeginsWithoutRundown ==
  ASSUME NEW pc, NEW from, StudioBegins(pc, from), RundownLocks, rundownLock' = rundownLock
  PROVE  RundownLocks'
<1>1. \A r \in Rundowns : ~ HoldsRundown("studio", r)
  BY DEF StudioBegins, HoldsRundown, Idle
<1>2. \A r \in Rundowns : ~ HoldsRundown("studio", r)'
  BY DEF StudioBegins, HoldsRundown
<1>3. \A r \in Rundowns : HoldsRundown("ingest", r)' <=> HoldsRundown("ingest", r)
  BY DEF StudioBegins, HoldsRundown
<1> QED BY <1>1, <1>2, <1>3 DEF RundownLocks, Threads

(* A move starts, without a lock.                                           *)
LEMMA MoveRundownKeeps ==
  ASSUME IInv, NEW r \in Rundowns, NEW into \in Ids \cup {None}, NEW wanted \in Seq(Rundowns), MoveRundown(r, into, wanted)
  PROVE  IInv'
<1> USE DEF Threads
<1>0. Documents /\ SelectsItsOwn /\ Control /\ Jobs /\ RundownLocks /\ PlaylistLocks /\ Homes
  BY DEF IInv, Control
<1>1. StudioBegins("lock", None)
  BY <1>0, MoveIsQueued DEF MoveRundown
<1>2. rundownLock' = rundownLock
     /\ playlistLock' = playlistLock
  BY <1>0 DEF MoveRundown, locks, documents
<1>3. rundown' = rundown
  BY <1>0, <1>1, <1>2 DEF MoveRundown, documents
<1>4. SamePlaylists
  BY <1>0, <1>1, <1>2, <1>3 DEF MoveRundown, documents, SamePlaylists, PresentAfter, Present, At,
     Idle, StudioBegins
<1>5. NoneLost
  BY <1>0, <1>1, <1>2, <1>3 DEF NoneLost
<1>6. Documents' /\ SelectsItsOwn'
  BY <1>0, <1>1, <1>3, <1>4, <1>5, DocumentsKept, SelectionKept DEF StudioBegins, Ids
<1>7. Jobs'
  BY <1>0, <1>1, <1>2 DEF Jobs, StudioBegins
<1>8. RundownLocks'
  BY <1>0, <1>1, <1>2, BeginsWithoutRundown
<1>9. PlaylistLocks'
  BY <1>0, <1>1, <1>2 DEF PlaylistLocks, HoldsPlaylist, At, Free, StudioBegins, Idle
<1>10. HomeInIngest'
  BY <1>0, <1>1, <1>2, <1>3, OneHolder, IngestUndisturbed DEF HoldsRundown, At, StudioBegins
<1>11. HomeInMove'
  BY <1>0, <1>1, <1>2, <1>3 DEF HomeInMove, StudioBegins, At, Locked
<1>12. RemovedIsOff'
  BY <1>0, <1>1, <1>2, <1>4 DEF RemovedIsOff, Homes, At, SamePlaylists, PresentAfter, Jobs,
     ListJob, CleanupJob, Idle, StudioBegins
<1> QED BY <1>6, <1>7, <1>8, <1>9, <1>10, <1>11, <1>12 DEF IInv, Control, Homes

(* A playlist is removed before its rundowns.                               *)
LEMMA RemovePlaylistKeeps ==
  ASSUME IInv, NEW p \in Ids, RemovePlaylist(p)
  PROVE  IInv'
<1> USE DEF Threads
<1>0. Documents /\ SelectsItsOwn /\ Control /\ Jobs /\ RundownLocks /\ PlaylistLocks /\ Homes
  BY DEF IInv, Control
<1>1. StudioBegins("list", p)
  BY <1>0, RemovalBegins DEF RemovePlaylist
<1>2. rundownLock' = rundownLock
     /\ playlistLock' = playlistLock
  BY <1>0 DEF RemovePlaylist, locks, documents
<1>3. rundown' = rundown
  BY <1>0, <1>1, <1>2 DEF RemovePlaylist, documents
<1>4. Renewed(p) /\ playlist'[p] = None
  BY <1>0, <1>1, <1>2, <1>3, RemovalRenews DEF RemovePlaylist, StudioBegins
<1>5. NoneLost
  BY <1>0, <1>1, <1>2, <1>3 DEF NoneLost
<1>6. Documents' /\ SelectsItsOwn'
  BY <1>0, <1>1, <1>3, <1>4, <1>5, DocumentsKept, SelectionKept DEF StudioBegins, Ids
<1>7. Jobs'
  BY <1>0, <1>1, <1>2 DEF Jobs, StudioBegins
<1>8. RundownLocks'
  BY <1>0, <1>1, <1>2, BeginsWithoutRundown
<1>9. PlaylistLocks'
  BY <1>0, <1>1, <1>2 DEF PlaylistLocks, HoldsPlaylist, At, Free, StudioBegins, Idle
<1>10. HomeInIngest'
  BY <1>0, <1>1, <1>2, <1>3, OneHolder, IngestUndisturbed DEF HoldsRundown, At, StudioBegins
<1>11. HomeInMove'
  BY <1>0, <1>1, <1>2, <1>3 DEF HomeInMove, StudioBegins, At, Locked
<1>12. RemovedIsOff'
  BY <1>0, <1>1, <1>2, <1>4 DEF RemovedIsOff, Homes, At, Renewed, OthersSame, PresentAfter, Jobs,
     ListJob, CleanupJob, Idle, StudioBegins
<1> QED BY <1>6, <1>7, <1>8, <1>9, <1>10, <1>11, <1>12 DEF IInv, Control, Homes

(* Its rundowns are listed without a lock.                                  *)
LEMMA ListRundownsKeeps ==
  ASSUME IInv, ListRundowns
  PROVE  IInv'
<1> USE DEF Threads
<1>0. Documents /\ SelectsItsOwn /\ Control /\ Jobs /\ RundownLocks /\ PlaylistLocks /\ Homes
  BY DEF IInv, Control
<1>1. CleanupGoesOn
  BY <1>0, CleanupBegins DEF ListRundowns
<1>2. At("studio", "list")
     /\ rundownLock' = rundownLock
     /\ playlistLock' = playlistLock
  BY <1>0 DEF ListRundowns, locks, documents
<1>3. rundown' = rundown
  BY <1>0, <1>1, <1>2 DEF ListRundowns, documents
<1>4. SamePlaylists
  BY <1>0, <1>1, <1>2, <1>3 DEF ListRundowns, documents, SamePlaylists, PresentAfter, Present, At,
     Idle, CleanupGoesOn
<1>5. NoneLost
  BY <1>0, <1>1, <1>2, <1>3 DEF NoneLost
<1>6. Documents' /\ SelectsItsOwn'
  BY <1>0, <1>1, <1>3, <1>4, <1>5, DocumentsKept, SelectionKept DEF CleanupGoesOn, Ids
<1>7. Jobs'
  BY <1>0, <1>1, <1>2 DEF Jobs, CleanupGoesOn
<1>8. RundownLocks'
  BY <1>0, <1>1, <1>2 DEF RundownLocks, HoldsRundown, At, Free, CleanupGoesOn, CleanupJob, ListJob, Idle
<1>9. PlaylistLocks'
  BY <1>0, <1>1, <1>2 DEF PlaylistLocks, HoldsPlaylist, At, Free, CleanupGoesOn, CleanupJob,
     ListJob, Idle
<1>10. HomeInIngest'
  BY <1>0, <1>1, <1>2, <1>3, OneHolder, IngestUndisturbed DEF HoldsRundown, At, CleanupGoesOn
<1>11. HomeInMove'
  BY <1>0, <1>1, <1>2, <1>3 DEF HomeInMove, CleanupGoesOn, CleanupJob, At, Locked, Idle
<1>12. RemovedIsOff'
  BY <1>0, <1>1, <1>2, <1>4 DEF RemovedIsOff, Homes, At, SamePlaylists, PresentAfter, Jobs,
     ListJob, CleanupJob, Idle, CleanupGoesOn
<1> QED BY <1>6, <1>7, <1>8, <1>9, <1>10, <1>11, <1>12 DEF IInv, Control, Homes

(* A rundown is removed if it is still of the playlist, which is not on     *)
(* air.                                                                     *)
LEMMA CleanupRundownKeeps ==
  ASSUME IInv, NEW r \in Rundowns, CleanupRundown(r)
  PROVE  IInv'
<1> USE DEF Threads
<1>0. Documents /\ SelectsItsOwn /\ Control /\ Jobs /\ RundownLocks /\ PlaylistLocks /\ Homes
  BY DEF IInv, Control
<1>1. CASE Exists(r) /\ rundown[r].home = job["studio"].from
  <2>1. CleanupGoesOn
    BY <1>0, <1>1, CleanupProceeds DEF CleanupRundown
  <2>2. At("studio", "cleanup")
       /\ rundownLock[r] = Free
       /\ rundownLock' = rundownLock
       /\ playlistLock' = playlistLock
    BY <1>0, <1>1 DEF CleanupRundown, Lock, locks, documents
  <2>3. Removed(r)
    BY <1>0, <1>1, <2>1, <2>2, Removes DEF CleanupRundown, documents
  <2>4. SamePlaylists
    BY <1>0, <1>1, <2>1, <2>2, <2>3 DEF CleanupRundown, documents, SamePlaylists, PresentAfter,
       Present, At, Idle, CleanupGoesOn
  <2>5. NoneLost
    BY <1>0, <2>1, <2>2, <2>3, <1>1, AtCleanup DEF NoneLost, Removed, OthersStay, Homes,
       RemovedIsOff, Selected, Present, At
  <2>6. Documents' /\ SelectsItsOwn'
    BY <1>0, <2>1, <2>3, <2>4, <2>5, DocumentsKept, SelectionKept DEF CleanupGoesOn, Ids
  <2>7. Jobs'
    BY <1>0, <2>1, <2>2 DEF Jobs, CleanupGoesOn
  <2>8. RundownLocks'
    BY <1>0, <2>1, <2>2 DEF RundownLocks, HoldsRundown, At, Free, CleanupGoesOn, CleanupJob,
       ListJob, Idle
  <2>9. PlaylistLocks'
    BY <1>0, <2>1, <2>2 DEF PlaylistLocks, HoldsPlaylist, At, Free, CleanupGoesOn, CleanupJob,
       ListJob, Idle
  <2>10. HomeInIngest'
    BY <1>0, <2>1, <2>2, <2>3, OneHolder, IngestUndisturbed DEF HoldsRundown, At, Removed, CleanupGoesOn
  <2>11. HomeInMove'
    BY <1>0, <1>1, <2>1, <2>2, <2>3 DEF HomeInMove, CleanupGoesOn, CleanupJob, At, Locked, Idle
  <2>12. RemovedIsOff'
    BY <1>0, <2>1, <2>2, <2>4 DEF RemovedIsOff, Homes, At, SamePlaylists, PresentAfter, Jobs,
       ListJob, CleanupJob, Idle, CleanupGoesOn
  <2> QED BY <2>6, <2>7, <2>8, <2>9, <2>10, <2>11, <2>12 DEF IInv, Control, Homes
<1>2. CASE ~(Exists(r) /\ rundown[r].home = job["studio"].from)
  <2>1. CleanupGoesOn
    BY <1>0, <1>2, CleanupProceeds DEF CleanupRundown
  <2>2. At("studio", "cleanup")
       /\ rundownLock' = rundownLock
       /\ playlistLock' = playlistLock
    BY <1>0, <1>2 DEF CleanupRundown, locks, documents
  <2>3. rundown' = rundown
    BY <1>0, <1>2, <2>1, <2>2 DEF CleanupRundown, documents
  <2>4. SamePlaylists
    BY <1>0, <1>2, <2>1, <2>2, <2>3 DEF CleanupRundown, documents, SamePlaylists, PresentAfter,
       Present, At, Idle, CleanupGoesOn
  <2>5. NoneLost
    BY <1>0, <2>1, <2>2, <2>3 DEF NoneLost
  <2>6. Documents' /\ SelectsItsOwn'
    BY <1>0, <2>1, <2>3, <2>4, <2>5, DocumentsKept, SelectionKept DEF CleanupGoesOn, Ids
  <2>7. Jobs'
    BY <1>0, <2>1, <2>2 DEF Jobs, CleanupGoesOn
  <2>8. RundownLocks'
    BY <1>0, <2>1, <2>2 DEF RundownLocks, HoldsRundown, At, Free, CleanupGoesOn, CleanupJob,
       ListJob, Idle
  <2>9. PlaylistLocks'
    BY <1>0, <2>1, <2>2 DEF PlaylistLocks, HoldsPlaylist, At, Free, CleanupGoesOn, CleanupJob,
       ListJob, Idle
  <2>10. HomeInIngest'
    BY <1>0, <2>1, <2>2, <2>3, OneHolder, IngestUndisturbed DEF HoldsRundown, At, CleanupGoesOn
  <2>11. HomeInMove'
    BY <1>0, <1>2, <2>1, <2>2, <2>3 DEF HomeInMove, CleanupGoesOn, CleanupJob, At, Locked, Idle
  <2>12. RemovedIsOff'
    BY <1>0, <2>1, <2>2, <2>4 DEF RemovedIsOff, Homes, At, SamePlaylists, PresentAfter, Jobs,
       ListJob, CleanupJob, Idle, CleanupGoesOn
  <2> QED BY <2>6, <2>7, <2>8, <2>9, <2>10, <2>11, <2>12 DEF IInv, Control, Homes
<1> QED BY <1>1, <1>2

(***************************************************************************)
(* Jobs that are one step, and jobs that fail.                             *)
(***************************************************************************)

(* A job of one step, whose documents are well formed and select their      *)
(* own.                                                                     *)
LEMMA UnderLockKeeps ==
  ASSUME IInv, job["studio"] = Idle, rundown' = rundown, job' = job,
         rundownLock' = rundownLock, playlistLock' = playlistLock, Documents', SelectsItsOwn'
  PROVE  IInv'
<1>1. Jobs'
  BY DEF IInv, Control, Jobs
<1>2. RundownLocks'
  BY DEF IInv, Control, RundownLocks, HoldsRundown
<1>3. PlaylistLocks'
  BY DEF IInv, Control, PlaylistLocks, HoldsPlaylist, At
<1>4. HomeInIngest' /\ HomeInMove'
  BY IngestUndisturbed, MoveUndisturbed
<1>5. RemovedIsOff'
  BY DEF RemovedIsOff, At, Idle
<1> QED BY <1>1, <1>2, <1>3, <1>4, <1>5 DEF IInv, Control, Homes

(* The jobs of one step: restoreRundownsInPlaylistToDefaultOrder,           *)
LEMMA RestoreOrderKeeps ==
  ASSUME IInv, NEW p \in Ids, RestoreOrder(p)
  PROVE  IInv'
<1>1. NoneLost
  BY DEF NoneLost, RestoreOrder
<1>2. Documents' /\ SelectsItsOwn'
  BY <1>1, RestoringRenews, DocumentsKept, SelectionKept DEF RestoreOrder
<1> QED BY <1>2, UnderLockKeeps DEF RestoreOrder, UnderPlaylistLock, locks

(* removeEmptyPlaylists,                                                    *)
LEMMA RemoveEmptyPlaylistKeeps ==
  ASSUME IInv, NEW p \in Ids, RemoveEmptyPlaylist(p)
  PROVE  IInv'
<1>1. NoneLost
  BY DEF NoneLost, RemoveEmptyPlaylist
<1>2. Renewed(p)
  <2>1. job'["studio"].pc # "order" /\ playlist' = [playlist EXCEPT ![p] = None]
    BY DEF RemoveEmptyPlaylist, UnderPlaylistLock, Idle
  <2> QED BY <2>1, RemovalRenews
<1>3. Documents' /\ SelectsItsOwn'
  BY <1>1, <1>2, DocumentsKept, SelectionKept DEF RemoveEmptyPlaylist
<1> QED BY <1>3, UnderLockKeeps DEF RemoveEmptyPlaylist, UnderPlaylistLock, locks

(* What the playout selects next is of a rundown of the playlist.          *)
LEMMA SelectsAreSound ==
  ASSUME IInv, NEW p \in Ids, playlist[p] # None, NEW doc \in Selects(p)
  PROVE  /\ IsPlaylist(doc)
         /\ doc.active => \A r \in Rundowns : r \in {doc.current, doc.next} => r \in RundownsOf(p) \/ Selected(p, r)
<1> DEFINE old == playlist[p]
           S == RundownsOf(p) \cup {None}
<1>1. IsPlaylist(old) /\ Present(p)
  BY DEF IInv, Documents, Present
<1>2. CASE ~old.active /\ \E n \in S : doc = [old EXCEPT !.active = TRUE, !.next = n]
  <2>1. PICK n \in S : doc = [old EXCEPT !.active = TRUE, !.next = n]
    BY <1>2
  <2>2. doc = [order |-> old.order, manualOrder |-> old.manualOrder, active |-> TRUE,
               current |-> old.current, next |-> n]
    <3> HIDE DEF old, S
    <3> QED BY <1>1, <2>1 DEF IsPlaylist
  <2>3. IsPlaylist(doc) /\ doc.current = None /\ doc.next = n
    <3> HIDE DEF old, S
    <3> QED BY <1>1, <1>2, <2>2 DEF IsPlaylist
  <2> QED BY <2>1, <2>3, IdsAssumption
<1>3. CASE doc = [old EXCEPT !.active = FALSE, !.current = None, !.next = None]
  <2>1. doc = [order |-> old.order, manualOrder |-> old.manualOrder, active |-> FALSE,
               current |-> None, next |-> None]
    <3> HIDE DEF old, S
    <3> QED BY <1>1, <1>3 DEF IsPlaylist
  <2> QED BY <2>1 DEF IsPlaylist
<1>4. CASE old.next # None /\ \E n \in S : doc = [old EXCEPT !.current = old.next, !.next = n]
  <2>1. PICK n \in S : doc = [old EXCEPT !.current = old.next, !.next = n]
    BY <1>4
  <2>2. doc = [order |-> old.order, manualOrder |-> old.manualOrder, active |-> old.active,
               current |-> old.next, next |-> n]
    <3> HIDE DEF old, S
    <3> QED BY <1>1, <2>1 DEF IsPlaylist
  <2>3. IsPlaylist(doc) /\ doc.current = old.next /\ doc.next = n /\ old.active
    <3> HIDE DEF old, S
    <3> QED BY <1>1, <1>4, <2>2 DEF IsPlaylist
  <2> QED BY <1>1, <2>1, <2>3, IdsAssumption DEF Selected
<1>5. CASE old.active /\ \E n \in S : doc = [old EXCEPT !.next = n]
  <2>1. PICK n \in S : doc = [old EXCEPT !.next = n]
    BY <1>5
  <2>2. doc = [order |-> old.order, manualOrder |-> old.manualOrder, active |-> old.active,
               current |-> old.current, next |-> n]
    <3> HIDE DEF old, S
    <3> QED BY <1>1, <2>1 DEF IsPlaylist
  <2>3. IsPlaylist(doc) /\ doc.current = old.current /\ doc.next = n
    <3> HIDE DEF old, S
    <3> QED BY <1>1, <1>5, <2>2 DEF IsPlaylist
  <2> QED BY <1>1, <1>5, <2>1, <2>3, IdsAssumption DEF Selected
<1> QED BY <1>2, <1>3, <1>4, <1>5 DEF Selects

(* and the playout.                                                         *)
LEMMA PlayoutJobKeeps ==
  ASSUME IInv, NEW p \in Ids, PlayoutJob(p)
  PROVE  IInv'
<1>1. PICK doc \in Selects(p) : playlist' = [playlist EXCEPT ![p] = doc]
  BY DEF PlayoutJob
<1>2. /\ playlist[p] # None /\ job["studio"] = Idle /\ rundown' = rundown /\ job' = job
      /\ rundownLock' = rundownLock /\ playlistLock' = playlistLock
  BY DEF PlayoutJob, UnderPlaylistLock, locks
<1>3. /\ IsPlaylist(doc)
      /\ doc.active => \A r \in Rundowns : r \in {doc.current, doc.next} => r \in RundownsOf(p) \/ Selected(p, r)
  BY <1>2, SelectsAreSound
<1>4. playlist' = [q \in Ids |-> playlist'[q]] /\ playlist'[p] = doc /\ \A q \in Ids \ {p} : playlist'[q] = playlist[q]
  BY <1>1 DEF IInv, Documents
<1>5. \A q \in Ids : Present(q)' => playlist'[q] # None
  BY <1>2 DEF Present, At, Idle
<1>6. Documents'
  <2>1. ASSUME NEW q \in Ids, Present(q)' PROVE IsPlaylist(playlist'[q])
    BY <1>3, <1>4, <1>5, <2>1 DEF IInv, Documents, Present
  <2>2. (\A q \in Ids : Present(q) => IsPlaylist(playlist[q]))'
    BY <2>1
  <2> QED BY <1>2, <1>4, <2>2 DEF IInv, Documents, Exists
<1>7. SelectsItsOwn'
  <2> SUFFICES ASSUME NEW q \in Ids \ {Tmp}, NEW r \in Rundowns, Selected(q, r)'
               PROVE  rundown[r] # None /\ rundown[r].home = q
    BY <1>2 DEF SelectsItsOwn, Exists
  <2>1. CASE q = p
    BY <1>3, <1>4, <2>1 DEF Selected, RundownsOf, IInv, SelectsItsOwn, Exists
  <2>2. CASE q # p
    BY <1>4, <1>5, <2>2 DEF Selected, Present, IInv, SelectsItsOwn, Exists
  <2> QED BY <2>1, <2>2
<1> QED BY <1>2, <1>6, <1>7, UnderLockKeeps

(* A job that fails leaves what it has written, and its locks are freed.    *)
LEMMA JobFailsKeeps ==
  ASSUME IInv, NEW t \in Threads, JobFails(t)
  PROVE  IInv'
<1> USE DEF Threads
<1>1. /\ Ends(t) /\ rundown' = rundown /\ playlist' = playlist
      /\ rundownLock' = [r \in Rundowns |-> IF rundownLock[r] = t THEN Free ELSE rundownLock[r]]
      /\ playlistLock' = [p \in Ids |-> IF playlistLock[p] = t THEN Free ELSE playlistLock[p]]
  BY JobEnds DEF JobFails, documents, IInv, Control
<1>2. SamePlaylists /\ NoneLost
  BY <1>1 DEF SamePlaylists, PresentAfter, Present, At, Ends, NoneLost
<1>3. Documents' /\ SelectsItsOwn'
  BY <1>1, <1>2, DocumentsKept, SelectionKept
<1>4. Jobs'
  BY <1>1 DEF IInv, Control, Jobs, Ends
<1>5. RundownLocks'
  BY <1>1 DEF IInv, Control, RundownLocks, HoldsRundown, Ends, Free
<1>6. PlaylistLocks'
  BY <1>1 DEF IInv, Control, PlaylistLocks, HoldsPlaylist, At, Ends, Free
<1>7. HomeInIngest' /\ HomeInMove' /\ RemovedIsOff'
  <2>1. CASE t = "ingest"
    <3>1. HomeInIngest'
      BY <1>1, <2>1 DEF HomeInIngest, At, Ends
    <3>2. HomeInMove' /\ RemovedIsOff'
      BY <1>1, <1>2, <2>1, MoveUndisturbed, RemovedStaysOff DEF Ends
    <3> QED BY <3>1, <3>2
  <2>2. CASE t = "studio"
    <3>1. HomeInMove' /\ RemovedIsOff'
      BY <1>1, <2>2 DEF HomeInMove, RemovedIsOff, At, Ends, Locked
    <3>2. HomeInIngest'
      BY <1>1, <2>2, IngestUndisturbed DEF Ends
    <3> QED BY <3>1, <3>2
  <2> QED BY <2>1, <2>2
<1> QED BY <1>3, <1>4, <1>5, <1>6, <1>7 DEF IInv, Control, Homes

(***************************************************************************)
(* The theorems.                                                           *)
(***************************************************************************)

(* The first state: no job, no lock, nothing on air.                        *)
LEMMA InitHasIInv ==
  ASSUME Init
  PROVE  IInv
<1> USE DEF Init
<1>1. PICK nrcs \in [Rundowns -> Playlists] :
        /\ rundown = [r \in Rundowns |-> [home |-> nrcs[r], manual |-> FALSE, nrcs |-> nrcs[r], orphaned |-> "no"]]
        /\ playlist = [p \in Ids |-> IF \E r \in Rundowns : nrcs[r] = p
                                     THEN [NewPlaylist EXCEPT !.order = Only(DefaultOrder, {r \in Rundowns : nrcs[r] = p})]
                                     ELSE None]
  OBVIOUS
<1>2. \A t \in Threads : job[t] = Idle /\ job[t].pc = "idle"
  BY DEF Idle
<1>3. Documents /\ \A p \in Ids : playlist[p] # None => ~playlist[p].active
  <2>1. rundown \in [Rundowns -> RundownDoc] /\ \A r \in Rundowns : rundown[r].home \in Ids
    BY <1>1 DEF RundownDoc, Ids
  <2>2. ASSUME NEW p \in Ids, playlist[p] # None PROVE IsPlaylist(playlist[p]) /\ ~playlist[p].active
    <3> DEFINE o == Only(DefaultOrder, {r \in Rundowns : nrcs[r] = p})
    <3>1. playlist[p] = [NewPlaylist EXCEPT !.order = o]
      BY <1>1, <2>2
    <3> HIDE DEF o
    <3>2. IsPlaylist([NewPlaylist EXCEPT !.order = o]) /\ ~[NewPlaylist EXCEPT !.order = o].active
      <4> DEFINE n == NewPlaylist
      <4>1. IsPlaylist(n) /\ ~n.active
        BY NewIsPlaylist
      <4> HIDE DEF n
      <4>2. IsPlaylist([n EXCEPT !.order = o]) /\ [n EXCEPT !.order = o].active = n.active
        BY <4>1, FieldsOfOrder
      <4>3. IsPlaylist([n EXCEPT !.order = o]) /\ ~[n EXCEPT !.order = o].active
        BY <4>1, <4>2
      <4> QED BY <4>3 DEF n
    <3> QED BY <3>1, <3>2
  <2>3. \A p \in Ids : Present(p) => playlist[p] # None
    BY <1>2 DEF Present, At, Threads
  <2> QED BY <1>1, <2>1, <2>2, <2>3 DEF Documents
<1>4. SelectsItsOwn
  BY <1>2, <1>3 DEF SelectsItsOwn, Selected, Present, At, Threads
<1>5. Control
  BY <1>2 DEF Control, Jobs, RundownLocks, PlaylistLocks, HoldsRundown, HoldsPlaylist, At, Threads, Free
<1>6. Homes
  BY <1>2 DEF Homes, HomeInIngest, HomeInMove, RemovedIsOff, At, Locked, Threads
<1> QED BY <1>3, <1>4, <1>5, <1>6 DEF IInv

(* The jobs that start, in the ingest thread and in the studio thread.      *)
LEMMA IngestStartsKeeps ==
  ASSUME IInv, IngestStarts
  PROVE  IInv'
<1> PICK r \in Rundowns :
      \/ \E n \in Playlists, isCreateAction \in BOOLEAN : UpdateRundown(r, n, isCreateAction)
      \/ UpdateSegment(r)
      \/ \E force \in BOOLEAN : RemoveRundown(r, force)
      \/ UnsyncRundown(r)
  BY DEF IngestStarts
<1>1. Exists(r) => rundown[r] \in RundownDoc /\ rundown[r].home \in Ids
  BY DEF IInv, Documents, Exists
<1>2. ASSUME NEW n \in Playlists, NEW c \in BOOLEAN, UpdateRundown(r, n, c) PROVE IInv'
  <2> DEFINE home == IF Exists(r) THEN rundown[r].home ELSE None
             doc == [home |-> home, manual |-> FALSE, nrcs |-> n, orphaned |-> "no"]
  <2>1. Commit(r, doc, FALSE)
    BY <1>2 DEF UpdateRundown
  <2>2. home \in Ids \cup {None}
    BY <1>1
  <2>3. doc \in RundownDoc /\ doc.home = home
    <3> HIDE DEF home
    <3> QED BY <2>2 DEF RundownDoc
  <2>4. Exists(r) => doc.home = rundown[r].home
    BY <2>3
  <2> HIDE DEF doc
  <2> QED BY <2>1, <2>3, <2>4, CommitKeeps
<1>3. ASSUME UpdateSegment(r) PROVE IInv'
  BY <1>1, <1>3, CommitKeeps DEF UpdateSegment
<1>4. ASSUME NEW force \in BOOLEAN, RemoveRundown(r, force) PROVE IInv'
  <2> DEFINE remove == force \/ rundown[r].orphaned = "no"
  <2>1. Exists(r) /\ Commit(r, rundown[r], remove) /\ remove \in BOOLEAN
    BY <1>4 DEF RemoveRundown
  <2> HIDE DEF remove
  <2> QED BY <1>1, <2>1, CommitKeeps
<1> QED BY <1>2, <1>3, <1>4, UnsyncRundownKeeps

(* What a user asks for is a sequence of rundowns.                          *)
LEMMA WantedIsSequence ==
  ASSUME NEW r \in Rundowns
  PROVE  Wanted(r) \subseteq Seq(Rundowns) /\ <<r>> \in Seq(Rundowns)
<1> SUFFICES ASSUME NEW n \in 1 .. Cardinality(Rundowns), NEW s \in [1 .. n -> Rundowns]
             PROVE  s \in Seq(Rundowns)
  BY DEF Wanted
<1>1. n \in Nat
  OBVIOUS
<1> QED BY <1>1, SeqDef

(* The same for the studio thread.                                          *)
LEMMA StudioStartsKeeps ==
  ASSUME IInv, StudioStarts
  PROVE  IInv'
<1>1. ASSUME NEW r \in Rundowns, NEW into \in Ids \cup {None}, NEW w \in Wanted(r) \cup {<<r>>}, MoveRundown(r, into, w)
      PROVE  IInv'
  <2>1. w \in Seq(Rundowns)
    BY WantedIsSequence
  <2> QED BY <1>1, <2>1, MoveRundownKeeps
<1> QED BY <1>1, RemovePlaylistKeeps, RestoreOrderKeeps, RemoveEmptyPlaylistKeeps,
    PlayoutJobKeeps DEF StudioStarts

(* Every step keeps the inductive invariant.                                *)
LEMMA NextHasIInv ==
  ASSUME IInv, [Next]_vars
  PROVE  IInv'
<1>1. CASE IngestStarts
  BY <1>1, IngestStartsKeeps
<1>2. CASE StudioStarts
  BY <1>2, StudioStartsKeeps
<1>3. CASE IngestStep
  BY <1>3, LeaveOldPlaylistKeeps, RegenerateInIngestKeeps, RemoveFromDbKeeps,
     AdoptIntoPlaylistKeeps, SaveRundownKeeps
     DEF IngestStep
<1>4. CASE StudioStep
  BY <1>4, LockMovedRundownKeeps, MoveOutOfPlaylistKeeps, RegenerateInMoveKeeps, MoveIntoPlaylistKeeps,
     OrderPlaylistKeeps, InsertPlaylistKeeps, SettleInPlaylistKeeps, ListRundownsKeeps, CleanupRundownKeeps
     DEF StudioStep
<1>5. CASE \E t \in Threads : JobFails(t)
  BY <1>5, JobFailsKeeps
<1>6. CASE UNCHANGED vars
  <2>1. rundown' = rundown /\ playlist' = playlist /\ job' = job
        /\ rundownLock' = rundownLock /\ playlistLock' = playlistLock
    BY <1>6 DEF vars, documents, locks
  <2>2. Documents' /\ SelectsItsOwn'
    BY <2>1 DEF IInv, Documents, Present, SelectsItsOwn, Selected, Exists, At
  <2>3. Control'
    BY <2>1 DEF IInv, Control, Jobs, RundownLocks, HoldsRundown, PlaylistLocks, HoldsPlaylist, At
  <2>4. Homes'
    BY <2>1 DEF IInv, Homes, HomeInIngest, HomeInMove, RemovedIsOff, At, Exists
  <2> QED BY <2>2, <2>3, <2>4 DEF IInv
<1> QED BY <1>1, <1>2, <1>3, <1>4, <1>5, <1>6 DEF Next

(* What is on air is of a rundown that stays: while a rundown is selected, *)
(* no ingest job, move or removal takes it out of its playlist, for any    *)
(* rundowns, playlists, jobs, interleavings and failures.                  *)
THEOREM LiveRundownStaysHolds == Spec => []LiveRundownStays
<1>1. IInv => LiveRundownStays
  BY DEF IInv, SelectsItsOwn, Selected, Present, LiveRundownStays, Live
<1>2. Init => IInv
  BY InitHasIInv
<1>3. IInv /\ [Next]_vars => IInv'
  BY NextHasIInv
<1> QED BY <1>1, <1>2, <1>3, PTL DEF Spec

(* What a thread that is blocked waits for.                                 *)
LEMMA BlockedWaitsForLock ==
  ASSUME IInv, NEW t \in Threads, Blocked(t)
  PROVE  \/ t = "studio" /\ (At(t, "lock") \/ At(t, "cleanup")) /\ \E r \in Rundowns : rundownLock[r] # Free
         \/ (At(t, "leave") \/ At(t, "enter") \/ At(t, "adopt")) /\ \E p \in Ids : playlistLock[p] # Free
<1> USE DEF IInv, Control
<1>1. CASE At(t, "lock")
  <2>1. t = "studio"
    BY <1>1 DEF Jobs, IngestJob, Idle, At, Threads
  <2>2. job[t].r \in Rundowns
    BY <1>1, <2>1, AtStudio DEF MoveJob
  <2> QED BY <1>1, <2>1, <2>2 DEF Blocked, At
<1>2. CASE At(t, "leave")
  <2>1. job[t].from \in Ids
    BY <1>2, FromIsPlaylist DEF Threads
  <2> QED BY <1>2, <2>1 DEF Blocked, At
<1>3. CASE At(t, "enter") \/ At(t, "adopt")
  <2>1. job[t].into \in Ids \cup {None}
    BY <1>3, AtIngest, AtStudio DEF Threads, Locked, IngestJob, MoveJob, Jobs, Idle, At, ListJob,
       CleanupJob
  <2>2. job[t].into # None /\ playlistLock[job[t].into] # Free
    BY <1>3 DEF Blocked, At
  <2> QED BY <1>3, <2>1, <2>2
<1>4. CASE At(t, "cleanup")
  <2>1. t = "studio"
    BY <1>4 DEF Jobs, IngestJob, Idle, At, Threads
  <2>2. job[t].todo \in SUBSET Rundowns /\ job[t].todo # {}
    BY <1>4, <2>1 DEF Jobs, Idle, At, MoveJob, Locked, ListJob, CleanupJob
  <2> QED BY <1>4, <2>1, <2>2 DEF Blocked, At
<1> QED BY <1>1, <1>2, <1>3, <1>4 DEF Blocked, At

(* The two threads never wait for each other: whoever has the lock that a  *)
(* thread waits for is at work, for any interleaving of ingest jobs,       *)
(* moves, removals and failures.                                           *)
THEOREM NoCircularWaitHolds == Spec => []NoCircularWait
<1>1. IInv => NoCircularWait
  <2> SUFFICES ASSUME IInv, NEW t \in Threads, NEW u \in Threads \ {t}, Blocked(t)
               PROVE  job[u] # Idle /\ ~Blocked(u)
    BY DEF NoCircularWait
  <2>1. CASE t = "studio" /\ (At(t, "lock") \/ At(t, "cleanup")) /\ \E r \in Rundowns : rundownLock[r] # Free
    <3>1. PICK r \in Rundowns : rundownLock[r] # Free
      BY <2>1
    <3>2. rundownLock[r] = u /\ HoldsRundown(u, r)
      BY <2>1, <3>1 DEF IInv, Control, RundownLocks, HoldsRundown, At, Threads
    <3>3. \A p \in Ids : playlistLock[p] # "studio"
      BY <2>1 DEF IInv, Control, PlaylistLocks, HoldsPlaylist, At, Threads
    <3>4. ~Blocked(u)
      <4> SUFFICES ASSUME Blocked(u) PROVE FALSE
        OBVIOUS
      <4>1. u = "ingest" /\ (At(u, "leave") \/ At(u, "enter") \/ At(u, "adopt"))
        BY <2>1, BlockedWaitsForLock DEF Threads
      <4>2. PICK p \in Ids : playlistLock[p] # Free
        BY <4>1, BlockedWaitsForLock
      <4>3. playlistLock[p] = "ingest" /\ HoldsPlaylist("ingest", p)
        BY <3>3, <4>2 DEF IInv, Control, PlaylistLocks, Threads
      <4> QED BY <4>1, <4>3 DEF HoldsPlaylist, At
    <3> QED BY <3>2, <3>4 DEF HoldsRundown, Idle
  <2>2. CASE (At(t, "leave") \/ At(t, "enter") \/ At(t, "adopt")) /\ \E p \in Ids : playlistLock[p] # Free
    <3>1. PICK p \in Ids : playlistLock[p] # Free
      BY <2>2
    <3>2. playlistLock[p] = u /\ HoldsPlaylist(u, p)
      BY <2>2, <3>1 DEF IInv, Control, PlaylistLocks, HoldsPlaylist, At, Threads
    <3>3. job[u] # Idle
      BY <3>2 DEF HoldsPlaylist, At, Idle
    <3> QED BY <3>2, <3>3, BlockedWaitsForLock DEF HoldsPlaylist, At
  <2> QED BY <2>1, <2>2, BlockedWaitsForLock
<1>2. Init => IInv
  BY InitHasIInv
<1>3. IInv /\ [Next]_vars => IInv'
  BY NextHasIInv
<1> QED BY <1>1, <1>2, <1>3, PTL DEF Spec

=============================================================================

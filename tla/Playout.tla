------------------------------ MODULE Playout -------------------------------
(***************************************************************************)
(* The playout of rundown playlists (job-worker/src/playout): activation,  *)
(* reset, take, the choice of the next part, hold, what the playout        *)
(* gateway reports back, and what an ingest commit does to the selection   *)
(* (ingest/commit.ts, ingest/updateNext.ts).                               *)
(*                                                                         *)
(* A job runs under the lock of its playlist (StudioLocks) on a cache that *)
(* is saved as a whole or discarded (DbCache), so a job is one action here *)
(* and a job that throws is no step.  What is not atomic is everything     *)
(* around the jobs: the reports of the gateway are late, repeated and out  *)
(* of order, ingest changes the parts underneath, and the writes of a      *)
(* commit race with what it reads next.                                    *)
(***************************************************************************)
EXTENDS Integers, Sequences, FiniteSets, FiniteSetsExt, Filter

CONSTANTS
  Playlists,
  StudioOf,     \* the studio of each playlist
  PartOrder,    \* the parts of a playlist, segment after segment
  SegmentOf,    \* the segment of each part
  Unplayable,   \* the parts that are invalid or floated
  AutoNext,     \* the parts that end by themselves
  HoldFrom, HoldTo, \* the parts by their holdMode
  Removable,    \* the parts that ingest removes from a segment and brings back
  RemovableSegments, \* the segments that ingest removes as a whole and brings back
  Loops,        \* values that playlist.loop has: a set of Booleans
  ResetOnAir,   \* studio.settings.allowRundownResetOnAir
  MaxCopies,    \* bound: instances of a part that exist or are mentioned
  Repeated,     \* bound: the parts of which two or more are considered
  MaxReports,   \* bound: reports of a gateway on their way
  NoPart, None

Parts == {PartOrder[k] : k \in DOMAIN PartOrder}
(* The id of an instance is that of its part with something random.        *)
Ids == Playlists \X Parts \X (1 .. MaxCopies)
OwnerOf(i) == i[1]
PartOf(i) == IF i = None THEN NoPart ELSE i[2]
SegOf(i) == SegmentOf[i[2]]

ASSUME PartsAssumption ==
  /\ PartOrder \in Seq(Parts)
  /\ \A k, m \in DOMAIN PartOrder : PartOrder[k] = PartOrder[m] => k = m
  /\ NoPart \notin Parts /\ None \notin Playlists \X Parts \X Nat
  /\ Removable \cup Unplayable \cup AutoNext \cup HoldFrom \cup HoldTo \subseteq Parts
ASSUME BoundsAssumption ==
  MaxCopies \in Nat /\ MaxReports \in Nat /\ ResetOnAir \in BOOLEAN /\ Loops \subseteq BOOLEAN

VARIABLES
  playlist, \* the documents of the playlists
  inst,     \* the part instances in the database, and which have each flag
  parts,    \* the parts each playlist has
  reports   \* instances a gateway reports as started, on their way to Core

vars == <<playlist, inst, parts, reports>>

HoldStates == {"none", "pending", "active", "complete"}

(* What a part instance is flagged with; mine: it has the activationId of  *)
(* its playlist, which is random and only ever compared.                   *)
Flags == {"mine", "rehearsal", "taken", "started", "reset", "orphaned"}

TypeOK ==
  /\ playlist \in [Playlists -> [active : BOOLEAN, rehearsal : BOOLEAN, loop : Loops,
                                 hold : HoldStates, manual : BOOLEAN,
                                 prev : Ids \cup {None}, cur : Ids \cup {None},
                                 next : Ids \cup {None}]]
  /\ inst \in [Flags \cup {"all"} -> SUBSET Ids]
  /\ \A f \in Flags : inst[f] \subseteq inst.all
  /\ parts \in [Playlists -> SUBSET Parts]
  /\ reports \subseteq Ids

Init ==
  /\ playlist \in [Playlists -> {[active |-> FALSE, rehearsal |-> FALSE, loop |-> l,
                                  hold |-> "none", manual |-> FALSE,
                                  prev |-> None, cur |-> None, next |-> None] : l \in Loops}]
  /\ inst = [f \in Flags \cup {"all"} |-> {}]
  /\ parts = [p \in Playlists |-> Parts]
  /\ reports = {}

-----------------------------------------------------------------------------
(* selectNextPart *)

Pos == [part \in Parts |-> CHOOSE k \in DOMAIN PartOrder : PartOrder[k] = part]

(* Where to look for the part after part: behind as many parts of the      *)
(* running order as come before or are the part.  A segment of which no    *)
(* part is present was removed, and cannot be placed: from the start.      *)
SearchFrom(order, part) ==
  LET before == {k \in DOMAIN order : Pos[order[k]] <= Pos[part]}
      away == \A k \in DOMAIN order : SegmentOf[order[k]] # SegmentOf[part]
  IN IF part = NoPart \/ away THEN 0 ELSE Cardinality(before)

(* length || parts.length *)
FindFirst(order, from, length) ==
  LET end == IF length = 0 THEN Len(order) ELSE length
      found == {k \in from + 1 .. end : order[k] \notin Unplayable}
  IN IF found = {} THEN NoPart ELSE order[Min(found)]

(* The part that follows part, when these are the parts that are present. *)
SelectNext(present, loop, part) ==
  LET order == Only(PartOrder, present)
      from == SearchFrom(order, part)
      after == FindFirst(order, from, Len(order))
  IN IF after = NoPart /\ loop /\ part # NoPart
     THEN FindFirst(order, 0, from - 1)
     ELSE after

-----------------------------------------------------------------------------
(* The cache of a job: the document of its playlist, the part instances,   *)
(* and which of those the job has loaded.                                  *)

Selected(doc) == {doc.prev, doc.cur, doc.next} \ {None}

(* CacheForPlayout.loadContent *)
LoadedOf(p, doc, at) ==
  LET own == {i \in at.all : OwnerOf(i) = p /\ (doc.active => i \in at.mine)}
      segments == {SegOf(i) : i \in Selected(doc) \cap at.all}
  IN {i \in own : i \in Selected(doc) \/ (i \notin at.reset /\ SegOf(i) \in segments)}

CacheOf(p, at) ==
  [p |-> p, doc |-> playlist[p], at |-> at, mem |-> LoadedOf(p, playlist[p], at)]

(* getSelectedPartInstancesFromCache *)
Find(w, i) == IF i \in w.mem THEN i ELSE None
Current(w) == Find(w, w.doc.cur)
Nexted(w) == Find(w, w.doc.next)
Previous(w) == Find(w, w.doc.prev)

Flag(w, f, S) == [w EXCEPT !.at = [w.at EXCEPT ![f] = w.at[f] \cup S]]
Among(at, S) == [f \in DOMAIN at |-> at[f] \cap S]
Drop(w, S) == [w EXCEPT !.at = Among(w.at, w.at.all \ S), !.mem = w.mem \ S]

(* Two more than there can be: a job may make two. *)
NewId(w, part) ==
  LET used == {i[3] : i \in {j \in w.at.all \cup reports : j[1] = w.p /\ j[2] = part}}
      free == (1 .. MaxCopies + 2) \ used
  IN <<w.p, part, CHOOSE k \in free : \A j \in free : k <= j>>

Insert(w, id) ==
  LET loaded == [w EXCEPT !.mem = w.mem \cup {id}]
      made == Flag(Flag(loaded, "all", {id}), "mine", {id})
  IN IF w.doc.rehearsal THEN Flag(made, "rehearsal", {id}) ELSE made

(* A reset instance that is not selected, or one of an earlier activation, *)
(* is loaded by no job any more: it is left in the database.               *)
Kept(w) == {i \in w.at.all : \/ OwnerOf(i) # w.p
                            \/ i \in Selected(w.doc)
                            \/ i \in w.at.mine \ w.at.reset}

(* A job that would leave more than MaxCopies of a part, or more than one  *)
(* of a part that is not Repeated, is not considered.                      *)
(* When an instance started is asked only of the one that is current, and  *)
(* removal, for which rehearsal is there, is the same as reset for those   *)
(* that are not selected.                                                  *)
(* Of the reports that are left those of instances that no job loads are   *)
(* refused whenever they arrive.                                           *)
SaveAfter(w, unheard) ==
  /\ Kept(w) \cup Selected(w.doc) \subseteq {i \in Ids : i[2] \in Repeated \/ i[3] = 1}
  /\ reports' = unheard \cap Kept(w)
  /\ playlist' = [playlist EXCEPT ![w.p] = w.doc]
  /\ LET left == Among(w.at, Kept(w))
     IN inst' = [left EXCEPT
                   !.started = {i \in left.started : OwnerOf(i) = w.p => i = w.doc.cur},
                   !.rehearsal = {i \in left.rehearsal : OwnerOf(i) = w.p => i \in Selected(w.doc)}]

Save(w) == SaveAfter(w, reports)

-----------------------------------------------------------------------------
(* setNextPart of lib.ts *)

(* The document is updated. *)
WithDoc(w, doc) == [w EXCEPT !.doc = doc]

(* Mutant: the window has the part that is on air. *)
WindowWithCurrent(w) ==
  IF Nexted(w) = None THEN {}
  ELSE {i \in w.mem \ {Nexted(w)} : SegOf(i) = SegOf(Nexted(w))}

(* What is left of the segment that is played, and all of one that is      *)
(* entered or gone back in.                                                *)
Window(w) ==
  LET c == Current(w)
      n == Nexted(w)
      others == w.mem \ {c, n}
      trailing == {i \in others : SegOf(i) = SegOf(c) /\ Pos[PartOf(i)] > Pos[PartOf(c)]}
      entered == {i \in others : SegOf(i) = SegOf(n)}
      stays == c # None /\ SegOf(n) = SegOf(c) /\ Pos[PartOf(n)] >= Pos[PartOf(c)]
  IN IF n = None THEN {}
     ELSE (IF c # None THEN trailing ELSE {}) \cup (IF stays THEN {} ELSE entered)

(* cleanupOrphanedItems *)
Orphans(w) == (w.mem \cap w.at.orphaned) \ {w.doc.cur, w.doc.next}

(* Mutant: the part that is next is not taken either. *)
UntakenOrNext(w) == w.mem \ (w.at.taken \cup {w.doc.cur})

Untaken(w) == w.mem \ (w.at.taken \cup {w.doc.cur, w.doc.next})

(* Other instances of the part that becomes next, in the cache or not.     *)
Earlier(w, part) == {i \in w.at.all : OwnerOf(i) = w.p /\ PartOf(i) = part} \ Selected(w.doc)

ResetWindow(w) == Flag(w, "reset", Window(w))
ResetOrphans(w) == Flag(w, "reset", Orphans(w))
Prune(w) == Drop(w, Untaken(w))

(* Mutant: any loaded instance of the part is used again. *)
ReusableOfCache(w, part) == {i \in w.mem : PartOf(i) = part}

(* The instance that is next already is used again for the same part. *)
Reusable(w, part) == {i \in {Nexted(w)} \ {None} : PartOf(i) = part}

SetNext(w, part, manual) ==
  LET again == Reusable(w, part)
      id == IF part = NoPart THEN None
            ELSE IF again = {} THEN NewId(w, part) ELSE CHOOSE i \in again : TRUE
      made == IF part = NoPart \/ again # {} THEN w ELSE Insert(w, id)
      chosen == WithDoc(made, [made.doc EXCEPT !.next = id, !.manual = manual])
      single == Flag(chosen, "reset", Earlier(chosen, part))
  IN ResetOrphans(ResetWindow(Prune(single)))

SetNextAfter(w, ref) ==
  SetNext(w, SelectNext(parts[w.p], w.doc.loop, PartOf(ref)), FALSE)

-----------------------------------------------------------------------------
(* Activation and reset. *)

(* A new activationId, in the document as well: no instance has it yet. *)
NewActivation(w, doc) ==
  [w EXCEPT !.doc = doc,
            !.at = [w.at EXCEPT !.mine = {i \in w.at.mine : OwnerOf(i) # w.p}]]

(* resetRundownPlaylist of lib.ts.  The deferred half of the removal and   *)
(* of the reset goes to the database with no word of the playlist.         *)
ResetAll(w) ==
  LET left == Drop(w, w.at.rehearsal)
      over == Flag(left, "reset", left.at.all)
      none == [w.doc EXCEPT !.prev = None, !.cur = None, !.hold = "none"]
  IN IF w.doc.active
     THEN SetNextAfter(NewActivation(over, none), None)
     ELSE SetNext(WithDoc(over, none), NoPart, FALSE)

(* The selected instances go on in the new activation. *)
Preserve(w) == Flag(w, "mine", w.mem \cap Selected(w.doc))

(* activateRundownPlaylist of actions.ts *)
Activated(w, rehearsal) ==
  LET fresh == IF w.doc.active THEN w ELSE ResetAll(w)
      act == NewActivation(fresh, [fresh.doc EXCEPT !.active = TRUE, !.rehearsal = rehearsal])
      idle == WithDoc(act, [act.doc EXCEPT !.prev = None, !.cur = None, !.next = None])
  IN IF Current(act) = None \/ Current(act) \in act.at.reset
     THEN SetNextAfter(idle, None)
     ELSE Preserve(act)

(* checkNoOtherPlaylistsActive *)
NoOtherActive(p) ==
  \A q \in Playlists \ {p} : StudioOf[q] = StudioOf[p] => ~ playlist[q].active

ActivateRundownPlaylist(p, rehearsal) ==
  /\ NoOtherActive(p)
  /\ LET w == Activated(CacheOf(p, inst), rehearsal)
     IN /\ w.doc.next \in w.mem \cup {None}
        /\ Save(w)
  /\ UNCHANGED parts

(* resetRundownPlaylist, with activate: no, rehearsal or active; and       *)
(* prepareRundownPlaylistForBroadcast, which is the second one of an       *)
(* inactive playlist.  With forceActivate others are deactivated first.    *)
ResetRundownPlaylist(p, activate) ==
  /\ playlist[p].active /\ ~ playlist[p].rehearsal => ResetOnAir
  /\ activate # "no" => NoOtherActive(p)
  /\ LET w == ResetAll(CacheOf(p, inst))
     IN Save(IF activate = "no" THEN w ELSE Activated(w, activate = "rehearsal"))
  /\ UNCHANGED parts

(* deactivateRundownPlaylist *)
DeactivateRundownPlaylist(p) ==
  /\ LET w == CacheOf(p, inst)
         off == [w.doc EXCEPT !.active = FALSE, !.hold = "none", !.prev = None, !.cur = None]
     IN Save(SetNext(NewActivation(w, off), NoPart, FALSE))
  /\ UNCHANGED parts

-----------------------------------------------------------------------------
(* Take and hold. *)

(* Mutant: a segment that was played is left as it is. *)
KeepPreviousSegment(w) == w

(* When a playlist loops, a segment that was left is reset. *)
ResetPreviousSegment(w) ==
  LET prev == Previous(w)
      cur == Current(w)
      left == w.doc.loop /\ prev # None /\ (cur # None => SegOf(prev) # SegOf(cur))
  IN IF left THEN Flag(w, "reset", {i \in w.mem : SegOf(i) = SegOf(prev)}) ELSE w

(* The nexted instance goes on air. *)
OnAir(w, i, hold) ==
  WithDoc(Flag(w, "taken", {i}), [w.doc EXCEPT !.prev = w.doc.cur, !.cur = i, !.hold = hold])

(* Mutant: the next of the enumeration. *)
HoldPlusOne(hold) ==
  CASE hold = "none" -> "none" [] hold = "pending" -> "active" [] OTHER -> "beyond"

HoldAfterTake(hold) == IF hold = "pending" THEN "active" ELSE "none"

(* takeNextPart, from the part that is playing.  A take that comes too     *)
(* soon after the last one or too close to an auto next throws.            *)
TakeNextPart(p) ==
  /\ playlist[p].active
  /\ LET w == CacheOf(p, inst)
         n == Nexted(w)
         taken == ResetPreviousSegment(OnAir(w, n, HoldAfterTake(w.doc.hold)))
     IN IF w.doc.hold = "active"
        THEN /\ n # None \/ Current(w) # None
             /\ w.doc.cur # None => Current(w) # None
             /\ Save(WithDoc(w, [w.doc EXCEPT !.hold = "complete"]))
        ELSE /\ n # None
             /\ w.doc.hold = "pending" /\ w.doc.cur # None => Current(w) # None
             /\ Save(SetNextAfter(taken, n))
  /\ UNCHANGED parts

(* Mutant: a hold that is asked for does not keep its parts. *)
DuringActiveHold(hold) == hold = "active"

(* Whether the parts of a hold must stay: setNextPartInner throws. *)
DuringHold(hold) == hold \in {"pending", "active"}

(* A user sets, moves or clears the next point. *)
SetNextPart(p, part, manual) ==
  /\ playlist[p].active
  /\ ~ DuringHold(playlist[p].hold)
  /\ part \in (parts[p] \ Unplayable) \cup {NoPart}
  /\ Save(SetNext(CacheOf(p, inst), part, manual))
  /\ UNCHANGED parts

ActivateHold(p) ==
  /\ playlist[p].active
  /\ playlist[p].hold = "none"
  /\ LET w == CacheOf(p, inst)
         from == PartOf(Current(w))
         to == PartOf(Nexted(w))
     IN /\ from \in HoldFrom /\ to \in HoldTo /\ SegmentOf[from] = SegmentOf[to]
        /\ Save(WithDoc(w, [w.doc EXCEPT !.hold = "pending"]))
  /\ UNCHANGED parts

DeactivateHold(p) ==
  /\ playlist[p].active
  /\ playlist[p].hold = "pending"
  /\ Save(WithDoc(CacheOf(p, inst), [playlist[p] EXCEPT !.hold = "none"]))
  /\ UNCHANGED parts

-----------------------------------------------------------------------------
(* The gateway. *)

(* What the timeline plays, and what follows it by itself. *)
TimelineOf(doc) ==
  IF ~ doc.active THEN {}
  ELSE IF PartOf(doc.cur) \in AutoNext THEN {doc.cur, doc.next} \ {None}
  ELSE {doc.cur} \ {None}

(* A gateway reports the start of what its timeline plays.  That it plays  *)
(* a timeline of the past is a report that is long on its way.             *)
GatewayStarts(p) ==
  /\ Cardinality(reports) < MaxReports
  /\ \E i \in TimelineOf(playlist[p]) \ reports : reports' = reports \cup {i}
  /\ UNCHANGED <<playlist, inst, parts>>

(* _onPartPlaybackStarted.  An instance that is neither current nor next   *)
(* is only logged: lastIncorrectPartPlaybackReported, without which it is  *)
(* not made current, is set nowhere else.                                  *)
PartPlaybackStarted(i) ==
  /\ i \in reports
  /\ \E left \in {reports, reports \ {i}} :
       LET p == OwnerOf(i)
           w == CacheOf(p, inst)
           heard == Flag(Flag(w, "taken", {i}), "started", {i})
           onAir == ResetPreviousSegment(OnAir(heard, i, "none"))
           unheard == i \in w.mem \ inst.started
       IN \/ unheard /\ i = w.doc.cur /\ SaveAfter(heard, left)
          \/ unheard /\ i # w.doc.cur /\ i = w.doc.next /\ SaveAfter(SetNextAfter(onAir, i), left)
          \/ /\ unheard => i \notin {w.doc.cur, w.doc.next}
             /\ reports' = left
             /\ UNCHANGED <<playlist, inst>>
  /\ UNCHANGED parts

-----------------------------------------------------------------------------
(* Ingest. *)

(* updatePartInstancesBasicProperties: the flags it writes to instances     *)
(* whose part is gone.                                                     *)
BasicProperties(p, present) ==
  LET lost == {i \in inst.all : OwnerOf(i) = p /\ PartOf(i) \notin present}
              \ (inst.reset \cup inst.orphaned)
      playing == {playlist[p].cur, playlist[p].next}
  IN [orphaned |-> lost \cap playing, reset |-> lost \ playing]

(* The instances as they are with these flags. *)
Marked(at, orphaned, reset) == [at EXCEPT !.orphaned = orphaned, !.reset = reset]

(* What a query sees while these writes are made: Promise.all([ps]) awaits *)
(* an array with an array in it, which is no promise, and so none of them. *)
Racing(at, writes) ==
  {Marked(at, at.orphaned \cup made.orphaned, at.reset \cup made.reset) :
     made \in [orphaned : SUBSET writes.orphaned, reset : SUBSET writes.reset]}

(* updatePartInstanceRanks, which is awaited: in a segment that changed an *)
(* instance is orphaned when its part is gone, and is not when it is back. *)
Ranked(p, present, changed, at) ==
  LET found == {i \in at.all \ at.reset : OwnerOf(i) = p /\ SegOf(i) \in changed}
      gone == {i \in found : PartOf(i) \notin present}
  IN Marked(at, (at.orphaned \ found) \cup gone, at.reset)

(* What the playout cache loads: the query of the ranks races these writes *)
(* and so does the one of the cache.                                       *)
SeenOf(p, present, changed, writes) ==
  UNION {Racing(Ranked(p, present, changed, early), writes) : early \in Racing(inst, writes)}

(* The writes land before the save of the cache or after it, but for the   *)
(* flag of an orphan that the cache has not seen and writes without it.    *)
Landed(w, writes, orphans) ==
  Flag(Flag(w, "orphaned", orphans \cap w.at.all), "reset", writes.reset \cap w.at.all)

KeepManual(w) ==
  LET n == Nexted(w)
  IN w.doc.manual /\ n # None /\ PartOf(n) \notin Unplayable /\ n \notin w.at.orphaned

(* Mutant: a next part is only chosen when there is none. *)
MustChooseIfNone(w, present, close) == w.doc.active /\ ~ KeepManual(w) /\ Nexted(w) = None

(* ensureNextPartIsValid: whether the next part is chosen anew. *)
MustChooseNext(w, present, close) ==
  LET c == Current(w)
      n == Nexted(w)
  IN /\ w.doc.active
     /\ ~ KeepManual(w)
     /\ ~ (close /\ n # None)
     /\ IF c # None /\ n # None
        THEN SelectNext(present, w.doc.loop, PartOf(c)) # PartOf(n)
        ELSE n = None \/ n \in w.at.orphaned

(* Playback of the current part may be about to end by itself. *)
MayBeClose(p) == playlist[p].cur \in inst.started /\ PartOf(playlist[p].cur) \in AutoNext

(* CommitIngestOperation of a change after which these parts are present.  *)
(* During a hold the choice throws, after the rest was saved.              *)
CommitIngest(p, present, changed, close) ==
  /\ close => MayBeClose(p)
  /\ parts' = [parts EXCEPT ![p] = present]
  /\ LET writes == BasicProperties(p, present)
     IN \E seen \in SeenOf(p, present, changed, writes) :
        \E orphans \in SUBSET (writes.orphaned \ seen.orphaned) :
          LET w == CacheOf(p, seen)
              chosen == SelectNext(present, w.doc.loop, PartOf(Current(w)))
          IN Save(Landed(IF MustChooseNext(w, present, close) /\ ~ DuringHold(w.doc.hold)
                         THEN SetNext(w, chosen, FALSE) ELSE w, writes, orphans))

PartsIn(segment) == {q \in Parts : SegmentOf[q] = segment}

(* handleUpdatedSegment: a part is removed from a segment that stays, or   *)
(* comes back to it.                                                       *)
UpdateSegment(p, part, close) ==
  /\ parts[p] \cap (PartsIn(SegmentOf[part]) \ {part}) # {}
  /\ LET present == IF part \in parts[p] THEN parts[p] \ {part} ELSE parts[p] \cup {part}
     IN CommitIngest(p, present, {SegmentOf[part]}, close)

(* handleRemovedSegment, and canRemoveSegment: a segment that is next when *)
(* it is too close to the end of the current part counts as removable a    *)
(* moment before.                                                          *)
RemoveSegment(p, segment, close) ==
  /\ PartsIn(segment) \cap parts[p] # {}
  /\ PartOf(playlist[p].cur) \notin PartsIn(segment)
  /\ CommitIngest(p, parts[p] \ PartsIn(segment), {}, close)

(* A segment that was removed comes back. *)
RestoreSegment(p, segment, close) ==
  /\ PartsIn(segment) \cap parts[p] = {}
  /\ CommitIngest(p, parts[p] \cup PartsIn(segment), {segment}, close)

-----------------------------------------------------------------------------
Next ==
  \/ \E p \in Playlists :
       \/ \E r \in BOOLEAN : ActivateRundownPlaylist(p, r)
       \/ \E a \in {"no", "rehearsal", "active"} : ResetRundownPlaylist(p, a)
       \/ DeactivateRundownPlaylist(p)
       \/ TakeNextPart(p)
       \/ \E q \in Parts \cup {NoPart}, m \in BOOLEAN : SetNextPart(p, q, m)
       \/ ActivateHold(p)
       \/ DeactivateHold(p)
       \/ \E q \in Removable, c \in BOOLEAN : UpdateSegment(p, q, c)
       \/ \E s \in RemovableSegments, c \in BOOLEAN : RemoveSegment(p, s, c)
       \/ \E s \in RemovableSegments, c \in BOOLEAN : RestoreSegment(p, s, c)
       \/ GatewayStarts(p)
  \/ \E i \in Ids : PartPlaybackStarted(i)

Spec == Init /\ [][Next]_vars

-----------------------------------------------------------------------------
(* Properties. *)

Sel(p) == Selected(playlist[p])

(* Takes, resets, autonexts and ingest agree on what is selected: an       *)
(* inactive playlist has nothing on air (deactivateRundownPlaylistInner);  *)
(* what is on air was taken and no reset took it away, though setNextPart  *)
(* resets whole segments around it; what is next was never played.         *)
SelectionIsSound ==
  \A p \in Playlists :
    LET doc == playlist[p]
    IN /\ doc.active \/ (Sel(p) = {} /\ doc.hold = "none")
       /\ doc.cur # None => doc.cur \in inst.taken \ inst.reset
       /\ doc.next # None => doc.next \notin {doc.cur, doc.prev} \cup inst.taken
       /\ doc.prev # None => doc.prev # doc.cur

(* The instances a playlist refers to are in the database: setNextPart     *)
(* removes what was not taken, and a reset what was rehearsed.             *)
SelectedExist == \A p \in Playlists : Sel(p) \subseteq inst.all

(* A hold is between the parts it was activated for (activateHold),        *)
(* whatever users, gateways and ingest do until the take that starts it.   *)
HoldSpansItsParts ==
  \A p \in Playlists :
    LET doc == playlist[p]
    IN /\ doc.hold = "pending" => PartOf(doc.cur) \in HoldFrom /\ PartOf(doc.next) \in HoldTo
       /\ doc.hold = "active" => PartOf(doc.prev) \in HoldFrom /\ PartOf(doc.cur) \in HoldTo

(* In a playlist that loops no instance of a segment that is over is left  *)
(* to be found when the segment comes again (resetPreviousSegment), also   *)
(* when an autonext or the removal of a part ended the segment.            *)
LoopLeavesNothing ==
  \A p \in Playlists : \A i \in inst.mine \ inst.reset :
    playlist[p].loop /\ OwnerOf(i) = p =>
      \E j \in {playlist[p].cur, playlist[p].next} \ {None} : SegOf(i) = SegOf(j)

(* Only what was next goes on air, and only once: a late or repeated       *)
(* report (_onPartPlaybackStarted) never puts a part on air again.         *)
CurrentIsFresh ==
  [][\A p \in Playlists :
       LET was == playlist[p].cur
           is == playlist'[p].cur
       IN is \notin {was, None} => is = playlist[p].next /\ is \notin inst.taken]_vars

(* A commit may move the next point of p: nothing forbids it. *)
NextMayMove(p) ==
  playlist[p].active /\ ~ DuringHold(playlist[p].hold) /\ ~ MayBeClose(p)

(* After a commit the part that nobody chose by hand is the one that now   *)
(* follows what is on air (ensureNextPartIsValid).                         *)
AutomaticNextFollows ==
  [][\A p \in Playlists :
       LET was == playlist[p]
       IN parts'[p] # parts[p] /\ NextMayMove(p) /\ ~ was.manual /\ was.cur # None =>
            PartOf(playlist'[p].next) = SelectNext(parts'[p], was.loop, PartOf(was.cur))]_vars

(* After a commit the next part is one that there is ("Ensure the next-id  *)
(* is still valid", ensureNextPartIsValid).                                *)
NextIsPresent ==
  [][\A p \in Playlists :
       parts'[p] # parts[p] /\ NextMayMove(p) =>
         PartOf(playlist'[p].next) \in parts'[p] \cup {NoPart}]_vars

-----------------------------------------------------------------------------
(* The inductive invariant behind these properties, of one playlist.       *)

(* What is on air is what jobs of this activation find; what was played    *)
(* before it was taken, too.                                               *)
OnAirIsFound ==
  \A p \in Playlists :
    LET doc == playlist[p]
    IN /\ doc.cur # None => doc.cur \in inst.mine
       /\ doc.prev # None => doc.prev \in inst.taken

(* The next instance, unless it was given up by a reset, was not reset.    *)
NextIsUnused ==
  \A p \in Playlists : playlist[p].next \in inst.mine => playlist[p].next \notin inst.reset

(* In a playlist that loops what is left is next, or of the segment that   *)
(* is on air.                                                              *)
LeftIsAround ==
  \A p \in Playlists : \A i \in inst.mine \ inst.reset :
    playlist[p].loop /\ OwnerOf(i) = p =>
      \/ i = playlist[p].next
      \/ playlist[p].cur # None /\ SegOf(i) = SegOf(playlist[p].cur)

(* The parts that ingest never removes. *)
Lasting == {q \in Parts \ Removable : SegmentOf[q] \notin RemovableSegments}
PartsStay == \A p \in Playlists : Lasting \subseteq parts[p] /\ parts[p] \subseteq Parts

SelectionInv ==
  /\ SelectionIsSound /\ SelectedExist /\ HoldSpansItsParts
  /\ OnAirIsFound /\ NextIsUnused /\ LeftIsAround /\ PartsStay
=============================================================================

------------------------------- MODULE DbCache -------------------------------
(***************************************************************************)
(* The write-back cache that an operation works on while it holds a lock:  *)
(* its collections (cache/CacheCollection.ts), the cache that saves or     *)
(* discards them together (cache/CacheBase.ts) and the frame that loads    *)
(* the cache, runs the operation and decides which (playout/lock.ts,       *)
(* studio/lock.ts).                                                        *)
(*                                                                         *)
(* Draft is the second cache that a blueprint edits during an ingest       *)
(* update: it is filled with documents of the collection DraftOf and       *)
(* written into it afterwards (updateOtherCacheWithData).                  *)
(*                                                                         *)
(* MongoDB is external: an unordered bulk write, of which each operation   *)
(* takes effect at a time of its own, or is refused.                       *)
(***************************************************************************)
EXTENDS Integers

CONSTANTS
  Collections,
  HighPrio,    \* those saved first: their name has "timeline" in it
  DraftOf,     \* the collection that a draft is made of
  Draft,
  Ids, Values, \* of documents
  Absent,      \* no entry, or no document
  Removed,     \* a null entry
  MayReinsert, \* whether an id may be inserted again that was inserted and removed unsaved
  MaxHooks,    \* bound: deferred functions, of either kind
  MaxOps,      \* bound: calls that change the cache
  MaxFaults    \* bound: refused writes, errors of the operation, and crashes

ASSUME CollectionsAssumption == HighPrio \subseteq Collections /\ DraftOf \in Collections
ASSUME DraftAssumption == Draft \notin Collections
ASSUME DocumentsAssumption == Absent # Removed /\ Absent \notin Values /\ Removed \notin Values
ASSUME BoundsAssumption == MaxHooks \in Nat /\ MaxOps \in Nat /\ MaxFaults \in Nat

VARIABLES
  db,        \* the documents of the database
  documents, \* the entries of each collection of the cache
  original,  \* originalDocuments
  editing,   \* a draft is being edited
  deferred,  \* how many _deferredFunctions are left
  afterSave, \* how many _deferredAfterSaveFunctions are left
  pc,        \* how far the operation is
  writes,    \* operations of the bulk writes in progress
  refused,   \* the collections of whose bulk write some operation was refused
  ops, faults

vars == <<db, documents, original, editing, deferred, afterSave, pc, writes, refused, ops, faults>>

Caches == Collections \cup {Draft}
Entry == [inserted : BOOLEAN, updated : BOOLEAN, document : Values]
Write == [kind : {"upsert", "replace", "delete"}, id : Ids, document : Values \cup {Absent}]

(* The two markers are told from an entry. *)
ASSUME EntryAssumption == Absent \notin Entry /\ Removed \notin Entry

TypeOK ==
  /\ db \in [Collections -> [Ids -> Values \cup {Absent}]]
  /\ documents \in [Caches -> [Ids -> Entry \cup {Absent, Removed}]]
  /\ original \in [Caches -> [Ids -> Values \cup {Absent}]]
  /\ editing \in BOOLEAN
  /\ deferred \in Nat /\ afterSave \in Nat
  /\ pc \in {"operation", "deferred", "high", "low", "after", "saved", "undone", "failed", "dead"}
  /\ writes \in [Collections -> SUBSET Write]
  /\ refused \subseteq Collections
  /\ ops \in 0 .. MaxOps
  /\ faults \in 0 .. MaxFaults

Live(e) == e \notin {Absent, Removed}
Dirty(e) == e = Removed \/ (Live(e) /\ (e.inserted \/ e.updated))

(* What findFetch sees of the entries E. *)
Contents(E) == [i \in Ids |-> IF Live(E[i]) THEN E[i].document ELSE Absent]

(* fillWithDataFromArray *)
Filled(docs) ==
  [i \in Ids |-> IF docs[i] = Absent THEN Absent
                 ELSE [inserted |-> FALSE, updated |-> FALSE, document |-> docs[i]]]

NoDocuments == [i \in Ids |-> Absent]

(* The operation begins with what it loaded under its lock. *)
Init ==
  /\ db \in [Collections -> [Ids -> Values \cup {Absent}]]
  /\ original = [k \in Caches |-> IF k = Draft THEN NoDocuments ELSE db[k]]
  /\ documents = [k \in Caches |-> Filled(original[k])]
  /\ editing = FALSE
  /\ deferred = 0 /\ afterSave = 0
  /\ pc = "operation"
  /\ writes = [c \in Collections |-> {}]
  /\ refused = {}
  /\ ops = 0 /\ faults = 0

-----------------------------------------------------------------------------
(* The operation, and the deferred functions that saving begins with.      *)

(* Mutant: a function nobody awaits changes the cache while it is saved. *)
RunningOn == pc \in {"operation", "high"} \/ (pc = "deferred" /\ deferred > 0)

Running == pc = "operation" \/ (pc = "deferred" /\ deferred > 0)

(* While a draft is edited nothing else changes its collection. *)
SetEntry(k, i, e) ==
  /\ Running
  /\ ops < MaxOps
  /\ ops' = ops + 1
  /\ IF editing THEN k # DraftOf ELSE k # Draft
  /\ documents' = [documents EXCEPT ![k][i] = e]
  /\ UNCHANGED <<db, original, editing, deferred, afterSave, pc, writes, refused, faults>>

(* Mutant: what is inserted is taken for known to the database. *)
InsertUpdated(k, i, v) ==
  /\ ~ Live(documents[k][i])
  /\ MayReinsert \/ documents[k][i] = Absent \/ original[k][i] # Absent
  /\ SetEntry(k, i, [inserted |-> FALSE, updated |-> TRUE, document |-> v])

Insert(k, i, v) ==
  /\ ~ Live(documents[k][i])
  /\ MayReinsert \/ documents[k][i] = Absent \/ original[k][i] # Absent
  /\ SetEntry(k, i, [inserted |-> documents[k][i] # Removed,
                     updated |-> documents[k][i] = Removed, document |-> v])

Remove(k, i) == Live(documents[k][i]) /\ SetEntry(k, i, Removed)

(* update: a clean document that does not change stays clean. *)
Update(k, i, v) ==
  /\ Live(documents[k][i])
  /\ Dirty(documents[k][i]) \/ documents[k][i].document # v
  /\ SetEntry(k, i, [documents[k][i] EXCEPT !.document = v, !.updated = TRUE])

Replace(k, i, v) ==
  SetEntry(k, i, IF Live(documents[k][i])
                 THEN [documents[k][i] EXCEPT !.document = v, !.updated = TRUE]
                 ELSE [inserted |-> TRUE, updated |-> FALSE, document |-> v])

(* A draft of the documents S. *)
OpenDraft(S) ==
  /\ pc = "operation" /\ ~ editing
  /\ editing' = TRUE
  /\ LET docs == Contents(documents[DraftOf])
     IN  original' = [original EXCEPT ![Draft] = [i \in Ids |-> IF i \in S THEN docs[i] ELSE Absent]]
  /\ documents' = [documents EXCEPT ![Draft] = Filled(original'[Draft])]
  /\ UNCHANGED <<db, deferred, afterSave, pc, writes, refused, ops, faults>>

(* Mutant: what the draft removed is not removed. *)
MergedWithoutRemoving(e, d) ==
  IF ~ Live(d) \/ ~ Dirty(d) THEN e
  ELSE IF Live(e) THEN [e EXCEPT !.document = d.document, !.updated = TRUE]
  ELSE [inserted |-> TRUE, updated |-> FALSE, document |-> d.document]

(* updateOtherCacheWithData: remove and replace on the collection.         *)
Merged(e, d) ==
  IF d = Removed THEN IF Live(e) THEN Removed ELSE e
  ELSE IF ~ Dirty(d) THEN e
  ELSE IF Live(e) THEN [e EXCEPT !.document = d.document, !.updated = TRUE]
  ELSE [inserted |-> TRUE, updated |-> FALSE, document |-> d.document]

ApplyDraft ==
  /\ pc = "operation" /\ editing
  /\ editing' = FALSE
  /\ documents' = [documents EXCEPT
       ![DraftOf] = [i \in Ids |-> Merged(@[i], documents[Draft][i])],
       ![Draft] = Filled(Contents(@))]
  /\ UNCHANGED <<db, original, deferred, afterSave, pc, writes, refused, ops, faults>>

Defer ==
  /\ Running /\ deferred + afterSave < MaxHooks
  /\ deferred' = deferred + 1
  /\ UNCHANGED <<db, documents, original, editing, afterSave, pc, writes, refused, ops, faults>>

DeferAfterSave ==
  /\ Running /\ deferred + afterSave < MaxHooks
  /\ afterSave' = afterSave + 1
  /\ UNCHANGED <<db, documents, original, editing, deferred, pc, writes, refused, ops, faults>>

-----------------------------------------------------------------------------
(* saveAllToDatabase *)

Save ==
  /\ pc = "operation" /\ ~ editing
  /\ pc' = "deferred"
  /\ UNCHANGED <<db, documents, original, editing, deferred, afterSave, writes, refused, ops, faults>>

DeferredReturns ==
  /\ pc = "deferred" /\ deferred > 0
  /\ deferred' = deferred - 1
  /\ UNCHANGED <<db, documents, original, editing, afterSave, pc, writes, refused, ops, faults>>

(* The bulk write for the entries E. *)
WritesOf(E) ==
  {[kind |-> "delete", id |-> i, document |-> Absent] : i \in {j \in Ids : E[j] = Removed}}
  \cup {[kind |-> IF E[i].inserted THEN "upsert" ELSE "replace", id |-> i, document |-> E[i].document] :
          i \in {j \in Ids : Live(E[j]) /\ Dirty(E[j])}}

(* updateDatabaseWithData of the collections C, up to its await: entries   *)
(* are clean and null entries gone before a single write has happened.     *)
UpdateDatabaseWithData(C) ==
  /\ writes' = [c \in Collections |-> IF c \in C THEN WritesOf(documents[c]) ELSE writes[c]]
  /\ documents' = [k \in Caches |-> IF k \in C THEN Filled(Contents(documents[k])) ELSE documents[k]]

SaveHighPrio ==
  /\ pc = "deferred" /\ deferred = 0
  /\ pc' = "high"
  /\ UpdateDatabaseWithData(HighPrio)
  /\ UNCHANGED <<db, original, editing, deferred, afterSave, refused, ops, faults>>

Settled(C) == \A c \in C : writes[c] = {}

(* Mutant: the write of the timeline is not awaited. *)
SaveLowPrioAtOnce ==
  /\ pc = "high" /\ refused = {}
  /\ pc' = "low"
  /\ UpdateDatabaseWithData(Collections \ HighPrio)
  /\ UNCHANGED <<db, original, editing, deferred, afterSave, refused, ops, faults>>

SaveLowPrio ==
  /\ pc = "high" /\ Settled(HighPrio) /\ refused = {}
  /\ pc' = "low"
  /\ UpdateDatabaseWithData(Collections \ HighPrio)
  /\ UNCHANGED <<db, original, editing, deferred, afterSave, refused, ops, faults>>

Stored ==
  /\ pc = "low" /\ Settled(Collections) /\ refused = {}
  /\ pc' = "after"
  /\ UNCHANGED <<db, documents, original, editing, deferred, afterSave, writes, refused, ops, faults>>

(* Mutant: the operation is over when the last function begins. *)
AfterSaveOffByOne ==
  /\ pc = "after"
  /\ afterSave' = afterSave - 1
  /\ pc' = IF afterSave = 0 THEN "saved" ELSE pc
  /\ UNCHANGED <<db, documents, original, editing, deferred, writes, refused, ops, faults>>

(* The functions deferred to after the save run, and the operation is over.*)
AfterSave ==
  /\ pc = "after"
  /\ afterSave' = IF afterSave = 0 THEN 0 ELSE afterSave - 1
  /\ pc' = IF afterSave = 0 THEN "saved" ELSE pc
  /\ UNCHANGED <<db, documents, original, editing, deferred, writes, refused, ops, faults>>

-----------------------------------------------------------------------------
(* Failures. *)

(* Mutant: isModified() does not look at null entries. *)
DiscardButRemoved ==
  /\ documents' = [k \in Caches |->
       IF k # Draft /\ \E i \in Ids : Live(documents[k][i]) /\ Dirty(documents[k][i])
       THEN Filled(original[k]) ELSE documents[k]]
  /\ deferred' = 0 /\ afterSave' = 0

(* discardChanges, of every collection that isModified().                  *)
DiscardChanges ==
  /\ documents' = [k \in Caches |->
       IF k # Draft /\ \E i \in Ids : Dirty(documents[k][i])
       THEN Filled(original[k]) ELSE documents[k]]
  /\ deferred' = 0 /\ afterSave' = 0

Fault == faults < MaxFaults /\ faults' = faults + 1

(* The operation, or a function it deferred, throws. *)
Throw ==
  /\ Running \/ (pc = "after" /\ afterSave > 0)
  /\ Fault
  /\ DiscardChanges
  /\ pc' = IF pc = "after" THEN "failed" ELSE "undone"
  /\ editing' = FALSE
  /\ UNCHANGED <<db, original, writes, refused, ops>>

(* Promise.all rejects with the first bulk write that does. *)
SaveFails ==
  /\ pc \in {"high", "low"}
  /\ \E c \in refused : writes[c] = {}
  /\ DiscardChanges
  /\ pc' = "failed"
  /\ UNCHANGED <<db, original, editing, writes, refused, ops, faults>>

Crash ==
  /\ pc \notin {"saved", "undone", "failed", "dead"}
  /\ Fault
  /\ pc' = "dead"
  /\ UNCHANGED <<db, documents, original, editing, deferred, afterSave, writes, refused, ops>>

-----------------------------------------------------------------------------
(* The database. *)

WriteHappens(c, w) ==
  /\ w \in writes[c]
  /\ writes' = [writes EXCEPT ![c] = @ \ {w}]
  /\ db' = IF w.kind = "replace" /\ db[c][w.id] = Absent
           THEN db ELSE [db EXCEPT ![c][w.id] = w.document]
  /\ UNCHANGED <<documents, original, editing, deferred, afterSave, pc, refused, ops, faults>>

WriteRefused(c, w) ==
  /\ w \in writes[c]
  /\ Fault
  /\ writes' = [writes EXCEPT ![c] = @ \ {w}]
  /\ refused' = refused \cup {c}
  /\ UNCHANGED <<db, documents, original, editing, deferred, afterSave, pc, ops>>

-----------------------------------------------------------------------------
Change(k, i) ==
  Remove(k, i) \/ \E v \in Values : Insert(k, i, v) \/ Update(k, i, v) \/ Replace(k, i, v)

Next ==
  \/ \E k \in Caches, i \in Ids : Change(k, i)
  \/ \E S \in SUBSET Ids : OpenDraft(S)
  \/ ApplyDraft
  \/ Defer \/ DeferAfterSave
  \/ Save \/ DeferredReturns \/ SaveHighPrio \/ SaveLowPrio \/ Stored \/ AfterSave
  \/ Throw \/ SaveFails \/ Crash
  \/ \E c \in Collections : \E w \in writes[c] : WriteHappens(c, w) \/ WriteRefused(c, w)

Spec == Init /\ [][Next]_vars

-----------------------------------------------------------------------------
(* Properties. *)

(* A save that succeeded stored the cache: after any sequence of inserts,  *)
(* removals, updates, replacements, drafts and deferred functions the      *)
(* database has exactly the documents the operation saw in its cache when  *)
(* it ended (the inserted/updated/null flags of CacheCollection.ts).       *)
SavedIsStored ==
  pc \in {"after", "saved"} => \A c \in Collections : db[c] = Contents(documents[c])

(* An operation that failed before its save began has changed nothing, and *)
(* its cache is the one it had loaded (discardChanges).                    *)
UndoneIsUnchanged ==
  pc = "undone" => \A c \in Collections :
    db[c] = original[c] /\ Contents(documents[c]) = original[c]

(* The playout gateway is never made to wait, nor misled: nothing else of  *)
(* an operation is stored before all of its timeline is.                   *)
TimelineFirst ==
  [][(\E c \in Collections \ HighPrio : db'[c] # db[c]) =>
       \A h \in HighPrio : db[h] = Contents(documents[h])]_vars

(* Whatever was refused, and wherever the process died, each document is   *)
(* the one that was loaded or the one that was to be saved.                *)
OldOrNew ==
  pc \notin {"operation", "deferred"} => \A c \in Collections, i \in Ids :
    db[c][i] \in {original[c][i], Contents(documents[c])[i]}

(* What a blueprint left in its draft is what the collection has when the  *)
(* draft is applied; other documents are as they were.                     *)
DraftIsApplied ==
  [][editing /\ ~ editing' /\ pc' = pc =>
       \A i \in Ids : Contents(documents'[DraftOf])[i] =
         IF documents[Draft][i] = Absent THEN Contents(documents[DraftOf])[i]
                                         ELSE Contents(documents[Draft])[i]]_vars

-----------------------------------------------------------------------------
(* The inductive invariant behind the first four. *)

(* The collections that the save has still to come to. *)
Pending ==
  IF pc \in {"operation", "deferred"} THEN Collections
  ELSE IF pc = "high" THEN Collections \ HighPrio ELSE {}

Saving == pc \in {"high", "low", "after", "saved"}

(* An entry of a document that the database has as d. *)
EntryOf(e, d) ==
  /\ ~ Dirty(e) => (IF Live(e) THEN e.document ELSE Absent) = d
  /\ ~ MayReinsert /\ Live(e) /\ ~ e.inserted => d # Absent

PendingIsUntouched ==
  \A c \in Pending :
    /\ writes[c] = {} /\ db[c] = original[c] /\ c \notin refused
    /\ \A i \in Ids : EntryOf(documents[c][i], original[c][i])

(* A collection that is dirty was not saved. *)
DirtyIsUntouched ==
  \A c \in Collections :
    (\E i \in Ids : Dirty(documents[c][i])) =>
      writes[c] = {} /\ db[c] = original[c] /\ (Saving => c \in Pending)

(* What is written is what the cache has, and "replace" finds a document.  *)
WritesAreContents ==
  \A c \in Collections : \A w \in writes[c] :
    /\ w.document = Contents(documents[c])[w.id]
    /\ w.kind = "delete" <=> w.document = Absent
    /\ ~ MayReinsert /\ w.kind = "replace" => db[c][w.id] # Absent

(* A document of a collection that is saved is stored or being written. *)
StoredOrWritten ==
  ~ MayReinsert /\ Saving =>
    \A c \in Collections \ (Pending \cup refused) : \A i \in Ids :
      db[c][i] = Contents(documents[c])[i] \/ \E w \in writes[c] : w.id = i

(* How far the writes are when the save goes on. *)
WritesAwaited ==
  /\ pc = "low" => Settled(HighPrio) /\ HighPrio \cap refused = {}
  /\ pc \in {"after", "saved", "undone"} => Settled(Collections) /\ refused = {}

HighPrioStored ==
  ~ MayReinsert /\ (\E c \in Collections \ HighPrio : writes[c] # {}) =>
    \A h \in HighPrio : writes[h] = {} /\ db[h] = Contents(documents[h])

Inv ==
  /\ PendingIsUntouched /\ DirtyIsUntouched /\ WritesAreContents
  /\ StoredOrWritten /\ WritesAwaited /\ HighPrioStored
  /\ UndoneIsUnchanged /\ OldOrNew

IInv == TypeOK /\ Inv

(* The invariant behind DraftIsApplied: what the draft left alone is as    *)
(* the collection has it.                                                  *)
DraftIsCurrent ==
  editing /\ pc = "operation" =>
    \A i \in Ids :
      Live(documents[Draft][i]) /\ ~ Dirty(documents[Draft][i]) =>
        Contents(documents[DraftOf])[i] = documents[Draft][i].document
=============================================================================

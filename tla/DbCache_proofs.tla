---------------------------- MODULE DbCache_proofs ----------------------------
(***************************************************************************)
(* What a save, a failure and a crash leave in the database, for any       *)
(* collections, documents, deferred functions and bounds.                  *)
(***************************************************************************)
EXTENDS DbCache, TLAPS

Docs == [Ids -> Values \cup {Absent}]
Entries == [Ids -> Entry \cup {Absent, Removed}]

(***************************************************************************)
(* Entries.                                                                *)
(***************************************************************************)

(* What findFetch sees are documents. *)
LEMMA ContentsType ==
  ASSUME NEW E \in Entries
  PROVE  Contents(E) \in Docs
BY DEF Contents, Entries, Docs, Entry, Live

(* Entries filled from documents are clean and have these documents. *)
LEMMA FilledLemma ==
  ASSUME NEW docs \in Docs
  PROVE  /\ Filled(docs) \in Entries
         /\ \A i \in Ids : ~ Dirty(Filled(docs)[i])
         /\ Contents(Filled(docs)) = docs
<1>1. \A i \in Ids : docs[i] # Absent =>
        [inserted |-> FALSE, updated |-> FALSE, document |-> docs[i]] \in Entry
  BY DEF Docs, Entry
<1>2. Filled(docs) \in Entries
  BY <1>1 DEF Filled, Entries, Docs
<1>3. \A i \in Ids :
        /\ docs[i] = Absent => Filled(docs)[i] = Absent
        /\ docs[i] # Absent =>
             /\ Filled(docs)[i] = [inserted |-> FALSE, updated |-> FALSE, document |-> docs[i]]
             /\ Live(Filled(docs)[i])
  BY <1>1, EntryAssumption DEF Filled, Live
<1>4. ASSUME NEW i \in Ids
      PROVE  ~ Dirty(Filled(docs)[i]) /\ Contents(Filled(docs))[i] = docs[i]
  <2> DEFINE e == Filled(docs)[i]
  <2>0. Contents(Filled(docs))[i] = IF Live(e) THEN e.document ELSE Absent
    BY DEF Contents
  <2>1. CASE docs[i] = Absent
    <3>1. e = Absent /\ e # Removed /\ ~ Live(e)
      BY <1>3, <2>1, DocumentsAssumption DEF Live
    <3> HIDE DEF e
    <3>2. ~ Dirty(e)
      BY <3>1 DEF Dirty
    <3> QED BY <2>0, <2>1, <3>1, <3>2 DEF e
  <2>2. CASE docs[i] # Absent
    <3>1. e = [inserted |-> FALSE, updated |-> FALSE, document |-> docs[i]] /\ Live(e)
      BY <1>3, <2>2
    <3> HIDE DEF e
    <3>2. ~ e.inserted /\ ~ e.updated /\ e.document = docs[i] /\ e # Removed
      BY <3>1 DEF Live
    <3>3. ~ Dirty(e)
      BY <3>2 DEF Dirty
    <3> QED BY <2>0, <3>1, <3>2, <3>3 DEF e
  <2> QED BY <2>1, <2>2
<1>5. Contents(Filled(docs)) \in Docs
  BY <1>2, ContentsType
<1>6. Contents(Filled(docs)) = docs
  BY <1>4, <1>5 DEF Docs
<1> QED BY <1>2, <1>4, <1>6

(* Cleaning the entries keeps their documents. *)
LEMMA CleanedLemma ==
  ASSUME NEW E \in Entries
  PROVE  /\ Filled(Contents(E)) \in Entries
         /\ \A i \in Ids : ~ Dirty(Filled(Contents(E))[i])
         /\ Contents(Filled(Contents(E))) = Contents(E)
BY ContentsType, FilledLemma

(* The bulk write of a collection: an operation for each dirty entry, with *)
(* its document; it replaces only what was not inserted.                   *)
LEMMA WritesOfLemma ==
  ASSUME NEW E \in Entries
  PROVE  /\ WritesOf(E) \subseteq Write
         /\ \A w \in WritesOf(E) :
              /\ w.document = Contents(E)[w.id]
              /\ w.kind = "delete" <=> w.document = Absent
              /\ w.kind = "replace" => Live(E[w.id]) /\ ~ E[w.id].inserted
         /\ \A i \in Ids : Dirty(E[i]) => \E w \in WritesOf(E) : w.id = i
<1> DEFINE del(i) == [kind |-> "delete", id |-> i, document |-> Absent]
           put(i) == [kind |-> IF E[i].inserted THEN "upsert" ELSE "replace", id |-> i,
                      document |-> E[i].document]
           D == {i \in Ids : E[i] = Removed}
           P == {i \in Ids : Live(E[i]) /\ Dirty(E[i])}
<1>1. WritesOf(E) = {del(i) : i \in D} \cup {put(i) : i \in P}
  BY DEF WritesOf
<1>2. \A i \in D : /\ del(i) \in Write /\ Contents(E)[i] = Absent
  BY DEF Write, Contents, Live
<1>3. \A i \in P :
        /\ E[i] \in Entry /\ put(i) \in Write
        /\ Contents(E)[i] = E[i].document /\ E[i].document \in Values
  <2> TAKE i \in P
  <2>1. E[i] \in Entry
    BY DEF Entries, Live
  <2>2. E[i].document \in Values
    BY <2>1 DEF Entry
  <2> QED BY <2>1, <2>2 DEF Write, Contents
<1>4. \A i \in Ids : Dirty(E[i]) => i \in D \/ i \in P
  BY DEF Dirty
<1>5. \A i \in D : del(i).kind = "delete" /\ del(i).id = i /\ del(i).document = Absent
  OBVIOUS
<1>6. \A i \in P :
        /\ put(i).kind = IF E[i].inserted THEN "upsert" ELSE "replace"
        /\ put(i).id = i /\ put(i).document = E[i].document
  OBVIOUS
<1>7. \A i \in P : put(i).document # Absent /\ put(i).kind # "delete" /\ Live(E[i])
  BY <1>3, <1>6, DocumentsAssumption
<1> HIDE DEF del, put
<1>8. \A i \in D : del(i) \in WritesOf(E)
  BY <1>1, Zenon
<1>9. \A i \in P : put(i) \in WritesOf(E)
  BY <1>1, Zenon
<1>10. \A i \in Ids : Dirty(E[i]) => \E w \in WritesOf(E) : w.id = i
  BY <1>4, <1>5, <1>6, <1>8, <1>9
<1>11. ASSUME NEW w \in WritesOf(E)
       PROVE  /\ w \in Write
              /\ w.document = Contents(E)[w.id]
              /\ w.kind = "delete" <=> w.document = Absent
              /\ w.kind = "replace" => Live(E[w.id]) /\ ~ E[w.id].inserted
  <2>1. (\E i \in D : w = del(i)) \/ (\E i \in P : w = put(i))
    BY <1>1, Zenon
  <2>2. ASSUME NEW i \in D, w = del(i)
        PROVE  /\ w \in Write
               /\ w.document = Contents(E)[w.id]
               /\ w.kind = "delete" /\ w.document = Absent
    BY <2>2, <1>2, <1>5
  <2>3. ASSUME NEW i \in P, w = put(i)
        PROVE  /\ w \in Write
               /\ w.document = Contents(E)[w.id]
               /\ w.kind # "delete" /\ w.document # Absent
               /\ w.kind = "replace" => Live(E[w.id]) /\ ~ E[w.id].inserted
    BY <2>3, <1>3, <1>6, <1>7
  <2> QED BY <2>1, <2>2, <2>3
<1> QED BY <1>10, <1>11

(***************************************************************************)
(* Type correctness.                                                       *)
(***************************************************************************)

(* The entries of every cache, and the documents of every collection. *)
LEMMA DocumentsType ==
  ASSUME TypeOK
  PROVE  /\ documents \in [Caches -> Entries] /\ original \in [Caches -> Docs]
         /\ db \in [Collections -> Docs] /\ Collections \subseteq Caches /\ HighPrio \subseteq Collections
         /\ DraftOf \in Collections /\ Draft \in Caches /\ Draft \notin Collections
BY CollectionsAssumption, DraftAssumption DEF TypeOK, Entries, Docs, Caches

(* What a change puts into the cache is an entry, or removes one. *)
LEMMA ChangeIsSetEntry ==
  ASSUME TypeOK, NEW k \in Caches, NEW i \in Ids, Change(k, i)
  PROVE  \E e \in Entry \cup {Removed} :
           /\ SetEntry(k, i, e)
           /\ Dirty(e)
           /\ ~ MayReinsert /\ Live(e) /\ ~ e.inserted =>
                \/ Live(documents[k][i]) /\ ~ documents[k][i].inserted
                \/ original[k][i] # Absent
<1> DEFINE old == documents[k][i]
           updated(v) == [old EXCEPT !.document = v, !.updated = TRUE]
           new(v) == [inserted |-> TRUE, updated |-> FALSE, document |-> v]
           again(v) == [inserted |-> old # Removed, updated |-> old = Removed, document |-> v]
<1>1. old \in Entry \cup {Absent, Removed}
  BY DocumentsType DEF Entries
<1>2. Live(old) => old \in Entry
  BY <1>1 DEF Live
<1>3. \A e \in Entry : Live(e)
  BY EntryAssumption DEF Live
<1>4. \A v \in Values : new(v) \in Entry /\ new(v).inserted /\ Dirty(new(v))
  <2> TAKE v \in Values
  <2>1. new(v) \in Entry /\ new(v).inserted
    BY DEF Entry
  <2> QED BY <1>3, <2>1 DEF Dirty
<1>5. \A v \in Values : Live(old) =>
        /\ updated(v) \in Entry /\ updated(v).inserted = old.inserted /\ Dirty(updated(v))
  <2> SUFFICES ASSUME NEW v \in Values, Live(old)
               PROVE  /\ updated(v) \in Entry
                      /\ updated(v).inserted = old.inserted /\ Dirty(updated(v))
    OBVIOUS
  <2>1. old \in [inserted : BOOLEAN, updated : BOOLEAN, document : Values]
    BY <1>2 DEF Entry
  <2>2. updated(v) \in Entry /\ updated(v).inserted = old.inserted /\ updated(v).updated
    BY <2>1 DEF Entry
  <2> QED BY <1>3, <2>2 DEF Dirty
<1>6. \A v \in Values :
        /\ again(v) \in Entry /\ Dirty(again(v)) /\ (~ again(v).inserted => old = Removed)
  <2> TAKE v \in Values
  <2>1. /\ again(v) \in Entry
        /\ again(v).inserted = (old # Removed) /\ again(v).updated = (old = Removed)
    BY DEF Entry
  <2>2. Dirty(again(v))
    BY <1>3, <2>1 DEF Dirty
  <2> QED BY <2>1, <2>2
<1> HIDE DEF old, updated, new, again
<1>7. CASE Remove(k, i)
  <2>1. SetEntry(k, i, Removed) /\ Dirty(Removed) /\ ~ Live(Removed)
    BY <1>7 DEF Remove, Dirty, Live
  <2> QED BY <2>1
<1>8. ASSUME NEW v \in Values, Insert(k, i, v)
      PROVE  /\ SetEntry(k, i, again(v))
             /\ MayReinsert \/ old = Absent \/ original[k][i] # Absent
  BY <1>8 DEF Insert, again, old
<1>9. ASSUME NEW v \in Values, Insert(k, i, v)
      PROVE  ~ MayReinsert /\ ~ again(v).inserted => original[k][i] # Absent
  BY <1>6, <1>8, <1>9, DocumentsAssumption
<1>10. ASSUME NEW v \in Values, Update(k, i, v)
       PROVE  Live(old) /\ SetEntry(k, i, updated(v))
  BY <1>10 DEF Update, old, updated
<1>11. ASSUME NEW v \in Values, Replace(k, i, v)
       PROVE  (Live(old) /\ SetEntry(k, i, updated(v))) \/ SetEntry(k, i, new(v))
  BY <1>11 DEF Replace, old, updated, new
<1>12. Remove(k, i) \/ \E v \in Values : Insert(k, i, v) \/ Update(k, i, v) \/ Replace(k, i, v)
  BY DEF Change
<1>13. ASSUME NEW v \in Values, Live(old), SetEntry(k, i, updated(v))
       PROVE  \E e \in Entry \cup {Removed} :
                /\ SetEntry(k, i, e) /\ Dirty(e)
                /\ ~ MayReinsert /\ Live(e) /\ ~ e.inserted =>
                     (Live(old) /\ ~ old.inserted) \/ original[k][i] # Absent
  <2>1. ~ updated(v).inserted => ~ old.inserted
    BY <1>5, <1>13
  <2> QED BY <1>5, <1>13, <2>1
<1>14. ASSUME NEW v \in Values, SetEntry(k, i, new(v))
       PROVE  \E e \in Entry \cup {Removed} : SetEntry(k, i, e) /\ Dirty(e) /\ e.inserted
  BY <1>4, <1>14
<1> QED BY <1>6, <1>7, <1>8, <1>9, <1>10, <1>11, <1>12, <1>13, <1>14 DEF old

(* What a draft makes of an entry: it stays, or is dirty. *)
LEMMA MergedLemma ==
  ASSUME NEW e \in Entry \cup {Absent, Removed}, NEW d \in Entry \cup {Absent, Removed}
  PROVE  /\ Merged(e, d) \in Entry \cup {Absent, Removed}
         /\ \/ Merged(e, d) = e
            \/ /\ Dirty(Merged(e, d))
               /\ Live(Merged(e, d)) /\ ~ Merged(e, d).inserted => Live(e) /\ ~ e.inserted
         /\ d = Removed => ~ Live(Merged(e, d))
         /\ d # Removed /\ ~ Dirty(d) => Merged(e, d) = e
         /\ Live(d) /\ Dirty(d) => Live(Merged(e, d)) /\ Merged(e, d).document = d.document
<1> DEFINE m == Merged(e, d)
           changed == [e EXCEPT !.document = d.document, !.updated = TRUE]
           new == [inserted |-> TRUE, updated |-> FALSE, document |-> d.document]
<1>1. \A x \in Entry : Live(x) /\ x # Removed /\ x # Absent
  BY EntryAssumption DEF Live
<1>2. (Live(e) => e \in Entry) /\ (Live(d) => d \in Entry)
  BY DEF Live
<1>3. ~ Live(Removed) /\ ~ Live(Absent) /\ Dirty(Removed)
  BY DEF Live, Dirty
<1>4. CASE d = Removed
  <2>1. m = IF Live(e) THEN Removed ELSE e
    BY <1>4 DEF Merged
  <2> HIDE DEF m
  <2> QED BY <1>3, <1>4, <2>1 DEF m
<1>5. CASE d # Removed /\ ~ Dirty(d)
  <2>1. m = e
    BY <1>5 DEF Merged
  <2> HIDE DEF m
  <2> QED BY <1>5, <2>1 DEF m
<1>6. CASE d # Removed /\ Dirty(d)
  <2>1. d \in Entry /\ d.document \in Values
    BY <1>2, <1>6 DEF Dirty, Entry
  <2>2. CASE Live(e)
    <3>1. m = changed
      BY <1>6, <2>2 DEF Merged
    <3>2. e \in [inserted : BOOLEAN, updated : BOOLEAN, document : Values]
      BY <1>2, <2>2 DEF Entry
    <3>3. /\ changed \in Entry /\ changed.inserted = e.inserted
          /\ changed.updated /\ changed.document = d.document
      BY <2>1, <3>2 DEF Entry
    <3> HIDE DEF m, changed
    <3>4. Live(changed) /\ Dirty(changed)
      BY <1>1, <3>3 DEF Dirty
    <3> QED BY <1>6, <2>1, <2>2, <3>1, <3>3, <3>4 DEF m
  <2>3. CASE ~ Live(e)
    <3>1. m = new
      BY <1>6, <2>3 DEF Merged
    <3>2. new \in Entry /\ new.inserted /\ new.document = d.document
      BY <2>1 DEF Entry
    <3> HIDE DEF m, new
    <3>3. Live(new) /\ Dirty(new)
      BY <1>1, <3>2 DEF Dirty
    <3> QED BY <1>6, <2>1, <3>1, <3>2, <3>3 DEF m
  <2> QED BY <2>2, <2>3
<1> QED BY <1>4, <1>5, <1>6

(* The changes of the cache, one by one. *)
LEMMA SetEntryLemma ==
  ASSUME TypeOK, NEW k \in Caches, NEW i \in Ids, NEW e \in Entry \cup {Removed}, SetEntry(k, i, e)
  PROVE  /\ documents' \in [Caches -> Entries]
         /\ \A c \in Caches, j \in Ids :
              documents'[c][j] = IF c = k /\ j = i THEN e ELSE documents[c][j]
BY DocumentsType DEF SetEntry, Entries

LEMMA ApplyDraftLemma ==
  ASSUME TypeOK, ApplyDraft
  PROVE  /\ documents' \in [Caches -> Entries]
         /\ \A c \in Collections, j \in Ids :
              documents'[c][j] = IF c = DraftOf THEN Merged(documents[c][j], documents[Draft][j])
                                                ELSE documents[c][j]
<1> DEFINE M == [i \in Ids |-> Merged(documents[DraftOf][i], documents[Draft][i])]
           F == Filled(Contents(documents[Draft]))
<1>1. /\ documents \in [Caches -> Entries] /\ Collections \subseteq Caches
      /\ DraftOf \in Caches /\ Draft \in Caches /\ Draft \notin Collections /\ DraftOf # Draft
  BY DocumentsType
<1>2. documents' = [[documents EXCEPT ![DraftOf] = M] EXCEPT ![Draft] = F]
  BY <1>1 DEF ApplyDraft
<1>3. M \in Entries
  BY <1>1, MergedLemma DEF Entries
<1>4. F \in Entries
  BY <1>1, CleanedLemma
<1>5. documents'[DraftOf] = M
  BY <1>1, <1>2, Zenon
<1>6. \A j \in Ids : M[j] = Merged(documents[DraftOf][j], documents[Draft][j])
  OBVIOUS
<1> HIDE DEF M, F
<1>7. documents' \in [Caches -> Entries]
  BY <1>1, <1>2, <1>3, <1>4
<1>8. \A c \in Collections : c # DraftOf => documents'[c] = documents[c]
  BY <1>1, <1>2
<1> QED BY <1>5, <1>6, <1>7, <1>8

(* updateDatabaseWithData changes no content, and leaves nothing dirty. *)
LEMMA UpdateLemma ==
  ASSUME TypeOK, NEW C \in SUBSET Collections, UpdateDatabaseWithData(C)
  PROVE  /\ documents' \in [Caches -> Entries]
         /\ writes' \in [Collections -> SUBSET Write]
         /\ \A c \in Collections :
              /\ Contents(documents'[c]) = Contents(documents[c])
              /\ c \notin C => documents'[c] = documents[c] /\ writes'[c] = writes[c]
              /\ c \in C => writes'[c] = WritesOf(documents[c])
              /\ c \in C => \A i \in Ids : ~ Dirty(documents'[c][i])
<1>1. documents \in [Caches -> Entries] /\ Collections \subseteq Caches
  BY DocumentsType
<1>2. \A k \in Caches : documents[k] \in Entries
  BY <1>1
<1>3. \A k \in Caches : /\ Filled(Contents(documents[k])) \in Entries
                        /\ WritesOf(documents[k]) \in SUBSET Write
  BY <1>2, CleanedLemma, WritesOfLemma
<1>4. \A k \in Caches :
        documents'[k] = IF k \in C THEN Filled(Contents(documents[k])) ELSE documents[k]
  BY DEF UpdateDatabaseWithData
<1>5. \A c \in Collections : writes'[c] = IF c \in C THEN WritesOf(documents[c]) ELSE writes[c]
  BY DEF UpdateDatabaseWithData
<1>6. documents' \in [Caches -> Entries]
  <2>1. documents' = [k \in Caches |-> documents'[k]]
    BY DEF UpdateDatabaseWithData
  <2> QED BY <1>2, <1>3, <1>4, <2>1
<1>7. writes' \in [Collections -> SUBSET Write]
  <2>1. writes' = [c \in Collections |-> writes'[c]]
    BY DEF UpdateDatabaseWithData
  <2>2. \A c \in Collections : writes[c] \in SUBSET Write
    BY DEF TypeOK
  <2> QED BY <1>1, <1>3, <1>5, <2>1, <2>2
<1> QED BY <1>1, <1>2, <1>4, <1>5, <1>6, <1>7, CleanedLemma

(* discardChanges restores what is dirty, and nothing else. *)
LEMMA DiscardLemma ==
  ASSUME TypeOK, DiscardChanges
  PROVE  /\ documents' \in [Caches -> Entries]
         /\ \A c \in Collections :
              /\ (\E i \in Ids : Dirty(documents[c][i])) =>
                   /\ Contents(documents'[c]) = original[c]
                   /\ \A i \in Ids : ~ Dirty(documents'[c][i])
              /\ (\A i \in Ids : ~ Dirty(documents[c][i])) => documents'[c] = documents[c]
<1>1. /\ documents \in [Caches -> Entries] /\ original \in [Caches -> Docs]
      /\ Collections \subseteq Caches /\ Draft \notin Collections
  BY DocumentsType
<1>2. \A k \in Caches :
        documents'[k] = IF k # Draft /\ \E i \in Ids : Dirty(documents[k][i])
                        THEN Filled(original[k]) ELSE documents[k]
  BY DEF DiscardChanges
<1>3. \A k \in Caches : /\ Filled(original[k]) \in Entries
                        /\ Contents(Filled(original[k])) = original[k]
                        /\ \A i \in Ids : ~ Dirty(Filled(original[k])[i])
  BY <1>1, FilledLemma
<1>4. documents' \in [Caches -> Entries]
  <2>1. documents' = [k \in Caches |-> documents'[k]]
    BY DEF DiscardChanges
  <2> QED BY <1>1, <1>2, <1>3, <2>1
<1> QED BY <1>1, <1>2, <1>3, <1>4

(* TypeOK with the sets of this module. *)
LEMMA TypeAgain ==
  ASSUME documents' \in [Caches -> Entries], original' \in [Caches -> Docs],
         db' \in [Collections -> Docs], editing' \in BOOLEAN,
         deferred' \in Nat, afterSave' \in Nat,
         pc' \in {"operation", "deferred", "high", "low", "after", "saved", "undone", "failed", "dead"},
         writes' \in [Collections -> SUBSET Write], refused' \subseteq Collections,
         ops' \in 0 .. MaxOps, faults' \in 0 .. MaxFaults
  PROVE  TypeOK'
BY DEF TypeOK, Entries, Docs

LEMMA FaultLemma ==
  ASSUME TypeOK, Fault
  PROVE  faults' \in 0 .. MaxFaults
BY BoundsAssumption DEF TypeOK, Fault

(* Every step preserves the types. *)
LEMMA TypeNext == TypeOK /\ [Next]_vars => TypeOK'
<1> SUFFICES ASSUME TypeOK, [Next]_vars PROVE TypeOK'
  OBVIOUS
<1>1. /\ documents \in [Caches -> Entries] /\ original \in [Caches -> Docs]
      /\ db \in [Collections -> Docs] /\ Collections \subseteq Caches /\ HighPrio \subseteq Collections
      /\ DraftOf \in Collections /\ Draft \in Caches
  BY DocumentsType
<1>2. ASSUME NEW k \in Caches, NEW i \in Ids, Change(k, i) PROVE TypeOK'
  <2>1. PICK e \in Entry \cup {Removed} : SetEntry(k, i, e)
    BY <1>2, ChangeIsSetEntry
  <2>2. documents' \in [Caches -> Entries]
    BY <2>1, SetEntryLemma
  <2>3. ops' \in 0 .. MaxOps
    BY <2>1, BoundsAssumption DEF SetEntry, TypeOK
  <2> QED BY <1>1, <2>1, <2>2, <2>3, TypeAgain DEF SetEntry, TypeOK
<1>3. ASSUME NEW S \in SUBSET Ids, OpenDraft(S) PROVE TypeOK'
  <2> DEFINE docs == Contents(documents[DraftOf])
             copy == [i \in Ids |-> IF i \in S THEN docs[i] ELSE Absent]
  <2>1. docs \in Docs
    BY <1>1, ContentsType
  <2>2. copy \in Docs
    BY <2>1 DEF Docs
  <2>3. original' = [original EXCEPT ![Draft] = copy]
    BY <1>3 DEF OpenDraft
  <2> HIDE DEF docs, copy
  <2>4. original' \in [Caches -> Docs] /\ original'[Draft] \in Docs
    BY <1>1, <2>2, <2>3
  <2>5. Filled(original'[Draft]) \in Entries
    BY <2>4, FilledLemma
  <2>6. documents' \in [Caches -> Entries]
    BY <1>1, <1>3, <2>5 DEF OpenDraft
  <2> QED BY <1>1, <1>3, <2>4, <2>6, TypeAgain DEF OpenDraft, TypeOK
<1>4. CASE ApplyDraft
  <2>1. documents' \in [Caches -> Entries]
    BY <1>4, ApplyDraftLemma
  <2> QED BY <1>1, <1>4, <2>1, TypeAgain DEF ApplyDraft, TypeOK
<1>5. CASE Defer
  BY <1>1, <1>5, TypeAgain DEF Defer, TypeOK
<1>6. CASE DeferAfterSave
  BY <1>1, <1>6, TypeAgain DEF DeferAfterSave, TypeOK
<1>7. CASE Save
  BY <1>1, <1>7, TypeAgain DEF Save, TypeOK
<1>8. CASE DeferredReturns
  BY <1>1, <1>8, TypeAgain DEF DeferredReturns, TypeOK
<1>9. CASE SaveHighPrio
  <2>1. documents' \in [Caches -> Entries] /\ writes' \in [Collections -> SUBSET Write]
    BY <1>1, <1>9, UpdateLemma DEF SaveHighPrio
  <2> QED BY <1>1, <1>9, <2>1, TypeAgain DEF SaveHighPrio, TypeOK
<1>10. CASE SaveLowPrio
  <2>1. documents' \in [Caches -> Entries] /\ writes' \in [Collections -> SUBSET Write]
    BY <1>1, <1>10, UpdateLemma DEF SaveLowPrio
  <2> QED BY <1>1, <1>10, <2>1, TypeAgain DEF SaveLowPrio, TypeOK
<1>11. CASE Stored
  BY <1>1, <1>11, TypeAgain DEF Stored, TypeOK
<1>12. CASE AfterSave
  BY <1>1, <1>12, TypeAgain DEF AfterSave, TypeOK
<1>13. CASE Throw
  <2>1. documents' \in [Caches -> Entries] /\ faults' \in 0 .. MaxFaults
    BY <1>13, DiscardLemma, FaultLemma DEF Throw
  <2> QED BY <1>1, <1>13, <2>1, TypeAgain DEF Throw, DiscardChanges, TypeOK
<1>14. CASE SaveFails
  <2>1. documents' \in [Caches -> Entries]
    BY <1>14, DiscardLemma DEF SaveFails
  <2> QED BY <1>1, <1>14, <2>1, TypeAgain DEF SaveFails, DiscardChanges, TypeOK
<1>15. CASE Crash
  <2>1. faults' \in 0 .. MaxFaults
    BY <1>15, FaultLemma DEF Crash
  <2> QED BY <1>1, <1>15, <2>1, TypeAgain DEF Crash, TypeOK
<1>16. ASSUME NEW c \in Collections, NEW w \in writes[c], WriteHappens(c, w) PROVE TypeOK'
  <2>1. w \in Write /\ w.id \in Ids /\ w.document \in Values \cup {Absent}
    BY DEF TypeOK, Write
  <2>2. db' \in [Collections -> Docs]
    BY <1>1, <1>16, <2>1 DEF WriteHappens, Docs
  <2>3. writes' \in [Collections -> SUBSET Write]
    BY <1>16 DEF WriteHappens, TypeOK
  <2> QED BY <1>1, <1>16, <2>2, <2>3, TypeAgain DEF WriteHappens, TypeOK
<1>17. ASSUME NEW c \in Collections, NEW w \in writes[c], WriteRefused(c, w) PROVE TypeOK'
  <2>1. writes' \in [Collections -> SUBSET Write] /\ faults' \in 0 .. MaxFaults
    BY <1>17, FaultLemma DEF WriteRefused, TypeOK
  <2> QED BY <1>1, <1>17, <2>1, TypeAgain DEF WriteRefused, TypeOK
<1>18. CASE UNCHANGED vars
  BY <1>18 DEF vars, TypeOK
<1> QED BY <1>2, <1>3, <1>4, <1>5, <1>6, <1>7, <1>8, <1>9, <1>10, <1>11, <1>12, <1>13, <1>14,
           <1>15, <1>16, <1>17, <1>18 DEF Next

LEMMA TypeInit == Init => TypeOK
<1> SUFFICES ASSUME Init PROVE TypeOK
  OBVIOUS
<1>1. /\ Collections \subseteq Caches /\ Caches = Collections \cup {Draft}
      /\ db \in [Collections -> Docs]
  BY DEF Caches, Init, Docs
<1>2. NoDocuments \in Docs
  BY DEF NoDocuments, Docs
<1>3. original \in [Caches -> Docs]
  BY <1>1, <1>2 DEF Init
<1>4. \A k \in Caches : Filled(original[k]) \in Entries
  BY <1>3, FilledLemma
<1>5. documents \in [Caches -> Entries]
  BY <1>4 DEF Init
<1>6. /\ db \in [Collections -> [Ids -> Values \cup {Absent}]]
      /\ documents \in [Caches -> [Ids -> Entry \cup {Absent, Removed}]]
      /\ original \in [Caches -> [Ids -> Values \cup {Absent}]]
  BY <1>1, <1>3, <1>5 DEF Docs, Entries
<1>7. /\ editing \in BOOLEAN /\ deferred \in Nat /\ afterSave \in Nat /\ pc = "operation"
      /\ refused \subseteq Collections /\ ops = 0 /\ faults = 0
      /\ writes \in [Collections -> SUBSET Write]
  BY DEF Init
<1> QED BY <1>6, <1>7, BoundsAssumption DEF TypeOK

(* Every value that the variables of DbCache take is of its type. *)
THEOREM TypeCorrect == Spec => []TypeOK
<1>1. Init => TypeOK
  BY TypeInit
<1>2. TypeOK /\ [Next]_vars => TypeOK'
  BY TypeNext
<1> QED BY <1>1, <1>2, PTL DEF Spec

(***************************************************************************)
(* The inductive invariant.                                                *)
(***************************************************************************)

LEMMA InvInit == Init => Inv
<1> SUFFICES ASSUME Init PROVE Inv
  OBVIOUS
<1>1. TypeOK
  BY TypeInit
<1>2. pc = "operation" /\ refused = {} /\ Pending = Collections /\ ~ Saving
  BY DEF Init, Pending, Saving
<1>3. \A c \in Collections : writes[c] = {} /\ original[c] = db[c] /\ original[c] \in Docs
  BY <1>1, DocumentsType, DraftAssumption DEF Init
<1>4. \A c \in Collections : documents[c] = Filled(original[c])
  BY <1>1, DocumentsType DEF Init
<1>5. \A c \in Collections, i \in Ids : ~ Dirty(documents[c][i])
  BY <1>3, <1>4, FilledLemma
<1>6. \A c \in Collections, i \in Ids : EntryOf(documents[c][i], original[c][i])
  <2> TAKE c \in Collections, i \in Ids
  <2>1. Contents(documents[c])[i] = original[c][i]
    BY <1>3, <1>4, FilledLemma
  <2>2. (IF Live(documents[c][i]) THEN documents[c][i].document ELSE Absent) = original[c][i]
    BY <2>1 DEF Contents
  <2>3. Live(documents[c][i]) => original[c][i] # Absent
    BY <1>4 DEF Filled, Live
  <2> QED BY <2>2, <2>3 DEF EntryOf
<1>7. PendingIsUntouched
  BY <1>2, <1>3, <1>6 DEF PendingIsUntouched
<1> QED BY <1>2, <1>3, <1>5, <1>7 DEF Inv, DirtyIsUntouched, WritesAreContents, StoredOrWritten,
             WritesAwaited, HighPrioStored, UndoneIsUnchanged, OldOrNew

(* The operation, while it runs, changes entries only to dirty ones. *)
LEMMA RunningStep ==
  ASSUME IInv, pc \in {"operation", "deferred"}, pc' \in {"operation", "deferred"},
         UNCHANGED <<db, writes, refused>>,
         \A c \in Collections : original'[c] = original[c],
         \A c \in Collections, i \in Ids :
           \/ documents'[c][i] = documents[c][i]
           \/ /\ Dirty(documents'[c][i])
              /\ ~ MayReinsert /\ Live(documents'[c][i]) /\ ~ documents'[c][i].inserted =>
                   original[c][i] # Absent
  PROVE  Inv'
<1>1. Pending = Collections /\ Pending' = Collections /\ ~ Saving'
  BY DEF Pending, Saving
<1>2. \A c \in Collections :
        /\ writes'[c] = {} /\ db'[c] = original'[c] /\ c \notin refused'
        /\ \A i \in Ids : EntryOf(documents[c][i], original[c][i])
  BY <1>1 DEF IInv, Inv, PendingIsUntouched
<1>3. \A c \in Collections, i \in Ids : EntryOf(documents'[c][i], original'[c][i])
  BY <1>2 DEF EntryOf
<1>4. PendingIsUntouched'
  BY <1>1, <1>2, <1>3 DEF PendingIsUntouched
<1>5. DirtyIsUntouched' /\ WritesAreContents' /\ StoredOrWritten' /\ HighPrioStored'
  BY <1>1, <1>2 DEF DirtyIsUntouched, WritesAreContents, StoredOrWritten, HighPrioStored
<1>6. WritesAwaited' /\ UndoneIsUnchanged' /\ OldOrNew'
  BY DEF WritesAwaited, UndoneIsUnchanged, OldOrNew
<1> QED BY <1>4, <1>5, <1>6 DEF Inv

(* The operation, and everything that happens before the first write. *)
LEMMA ChangeInv ==
  ASSUME IInv, NEW k \in Caches, NEW i \in Ids, Change(k, i)
  PROVE  Inv'
<1>1. TypeOK
  BY DEF IInv
<1>2. PICK e \in Entry \cup {Removed} :
        /\ SetEntry(k, i, e)
        /\ Dirty(e)
        /\ ~ MayReinsert /\ Live(e) /\ ~ e.inserted =>
             \/ Live(documents[k][i]) /\ ~ documents[k][i].inserted
             \/ original[k][i] # Absent
  BY <1>1, ChangeIsSetEntry
<1>3. /\ pc \in {"operation", "deferred"} /\ pc' = pc
      /\ UNCHANGED <<db, writes, refused, original>>
  BY <1>2 DEF SetEntry, Running
<1>4. \A c \in Collections, j \in Ids : EntryOf(documents[c][j], original[c][j])
  BY <1>3 DEF IInv, Inv, PendingIsUntouched, Pending
<1>5. \A c \in Collections, j \in Ids :
        documents'[c][j] = IF c = k /\ j = i THEN e ELSE documents[c][j]
  BY <1>1, <1>2, SetEntryLemma, DocumentsType
<1>6. \A c \in Collections, j \in Ids :
        \/ documents'[c][j] = documents[c][j]
        \/ /\ Dirty(documents'[c][j])
           /\ ~ MayReinsert /\ Live(documents'[c][j]) /\ ~ documents'[c][j].inserted =>
                original[c][j] # Absent
  BY <1>2, <1>4, <1>5 DEF EntryOf
<1> QED BY <1>3, <1>6, RunningStep

LEMMA ApplyDraftInv ==
  ASSUME IInv, ApplyDraft
  PROVE  Inv'
<1>1. TypeOK
  BY DEF IInv
<1>2. pc = "operation" /\ pc' = pc /\ UNCHANGED <<db, writes, refused, original>>
  BY DEF ApplyDraft
<1>3. \A c \in Collections, j \in Ids : EntryOf(documents[c][j], original[c][j])
  BY <1>2 DEF IInv, Inv, PendingIsUntouched, Pending
<1>4. \A c \in Collections, j \in Ids :
        documents'[c][j] = IF c = DraftOf THEN Merged(documents[c][j], documents[Draft][j])
                                          ELSE documents[c][j]
  BY <1>1, ApplyDraftLemma
<1>5. \A c \in Caches, j \in Ids : documents[c][j] \in Entry \cup {Absent, Removed}
  BY <1>1, DocumentsType DEF Entries
<1>6. \A c \in Collections, j \in Ids :
        \/ documents'[c][j] = documents[c][j]
        \/ /\ Dirty(documents'[c][j])
           /\ Live(documents'[c][j]) /\ ~ documents'[c][j].inserted =>
                Live(documents[c][j]) /\ ~ documents[c][j].inserted
  BY <1>1, <1>4, <1>5, MergedLemma, DocumentsType
<1>7. \A c \in Collections, j \in Ids :
        \/ documents'[c][j] = documents[c][j]
        \/ /\ Dirty(documents'[c][j])
           /\ ~ MayReinsert /\ Live(documents'[c][j]) /\ ~ documents'[c][j].inserted =>
                original[c][j] # Absent
  BY <1>3, <1>6 DEF EntryOf
<1> QED BY <1>2, <1>7, RunningStep

LEMMA OpenDraftInv ==
  ASSUME IInv, NEW S \in SUBSET Ids, OpenDraft(S)
  PROVE  Inv'
<1>1. TypeOK
  BY DEF IInv
<1>2. pc = "operation" /\ pc' = pc /\ UNCHANGED <<db, writes, refused>>
  BY DEF OpenDraft
<1>3. \A c \in Collections : original'[c] = original[c] /\ documents'[c] = documents[c]
  BY <1>1, DocumentsType DEF OpenDraft
<1> QED BY <1>2, <1>3, RunningStep

(* The save of a set C of pending collections, up to its await: what is    *)
(* dirty is being written, what is clean is in the database.               *)
LEMMA SavedCollection ==
  ASSUME IInv, NEW C \in SUBSET Collections, UpdateDatabaseWithData(C),
         UNCHANGED <<db, original, refused>>, NEW c \in C, c \in Pending
  PROVE  /\ \A w \in writes'[c] :
              /\ w.document = Contents(documents'[c])[w.id]
              /\ w.kind = "delete" <=> w.document = Absent
              /\ ~ MayReinsert /\ w.kind = "replace" => db'[c][w.id] # Absent
         /\ \A i \in Ids :
              db'[c][i] = Contents(documents'[c])[i] \/ \E w \in writes'[c] : w.id = i
<1>1. TypeOK /\ c \in Collections
  BY DEF IInv
<1>2. /\ documents[c] \in Entries
      /\ Contents(documents'[c]) = Contents(documents[c]) /\ writes'[c] = WritesOf(documents[c])
  BY <1>1, DocumentsType, UpdateLemma
<1>3. /\ db'[c] = original[c]
      /\ \A i \in Ids : EntryOf(documents[c][i], original[c][i])
  BY DEF IInv, Inv, PendingIsUntouched
<1>4. \A w \in writes'[c] :
        /\ w \in Write
        /\ w.document = Contents(documents[c])[w.id]
        /\ w.kind = "delete" <=> w.document = Absent
        /\ w.kind = "replace" => Live(documents[c][w.id]) /\ ~ documents[c][w.id].inserted
  BY <1>2, WritesOfLemma
<1>5. \A w \in writes'[c] : w.id \in Ids
  BY <1>4 DEF Write
<1>6. \A w \in writes'[c] : ~ MayReinsert /\ w.kind = "replace" => db'[c][w.id] # Absent
  BY <1>3, <1>4, <1>5 DEF EntryOf
<1>7. \A i \in Ids : ~ Dirty(documents[c][i]) => db'[c][i] = Contents(documents[c])[i]
  BY <1>3 DEF EntryOf, Contents
<1>8. \A i \in Ids : Dirty(documents[c][i]) => \E w \in writes'[c] : w.id = i
  BY <1>2, WritesOfLemma
<1> QED BY <1>2, <1>4, <1>6, <1>7, <1>8

LEMMA SaveHighPrioInv ==
  ASSUME IInv, SaveHighPrio
  PROVE  Inv'
<1>1. TypeOK /\ HighPrio \in SUBSET Collections
  BY CollectionsAssumption DEF IInv
<1>2. /\ pc = "deferred" /\ pc' = "high" /\ UpdateDatabaseWithData(HighPrio)
      /\ UNCHANGED <<db, original, refused>>
  BY DEF SaveHighPrio
<1>3. Pending = Collections /\ Pending' = Collections \ HighPrio /\ Saving'
  BY <1>2 DEF Pending, Saving
<1>4. \A c \in Collections :
        /\ writes[c] = {} /\ db'[c] = original'[c] /\ c \notin refused'
        /\ \A i \in Ids : EntryOf(documents[c][i], original[c][i])
  BY <1>2, <1>3 DEF IInv, Inv, PendingIsUntouched
<1>5. \A c \in Collections \ HighPrio : documents'[c] = documents[c] /\ writes'[c] = {}
  BY <1>1, <1>2, <1>4, UpdateLemma
<1>6. \A c \in HighPrio : \A i \in Ids : ~ Dirty(documents'[c][i])
  BY <1>1, <1>2, UpdateLemma
<1>7. \A c \in HighPrio :
        /\ \A w \in writes'[c] :
             /\ w.document = Contents(documents'[c])[w.id]
             /\ w.kind = "delete" <=> w.document = Absent
             /\ ~ MayReinsert /\ w.kind = "replace" => db'[c][w.id] # Absent
        /\ \A i \in Ids :
             db'[c][i] = Contents(documents'[c])[i] \/ \E w \in writes'[c] : w.id = i
  BY <1>1, <1>2, <1>3, SavedCollection
<1>8. PendingIsUntouched'
  BY <1>2, <1>3, <1>4, <1>5 DEF PendingIsUntouched, EntryOf
<1>9. DirtyIsUntouched'
  BY <1>3, <1>4, <1>5, <1>6 DEF DirtyIsUntouched
<1>10. WritesAreContents'
  BY <1>5, <1>7 DEF WritesAreContents
<1>11. StoredOrWritten'
  BY <1>3, <1>7 DEF StoredOrWritten
<1>12. WritesAwaited' /\ HighPrioStored' /\ UndoneIsUnchanged'
  BY <1>2, <1>5 DEF WritesAwaited, HighPrioStored, UndoneIsUnchanged
<1>13. OldOrNew'
  BY <1>4 DEF OldOrNew
<1> QED BY <1>8, <1>9, <1>10, <1>11, <1>12, <1>13 DEF Inv

LEMMA SaveLowPrioInv ==
  ASSUME IInv, SaveLowPrio
  PROVE  Inv'
<1> DEFINE Low == Collections \ HighPrio
<1>1. TypeOK /\ HighPrio \subseteq Collections /\ Low \in SUBSET Collections
  BY CollectionsAssumption DEF IInv
<1>2. /\ pc = "high" /\ pc' = "low" /\ UpdateDatabaseWithData(Low) /\ refused = {}
      /\ \A h \in HighPrio : writes[h] = {}
      /\ UNCHANGED <<db, original, refused>>
  BY DEF SaveLowPrio, Settled
<1>3. Pending = Low /\ Pending' = {} /\ Saving /\ Saving'
  BY <1>2 DEF Pending, Saving
<1>4. \A h \in HighPrio : documents'[h] = documents[h] /\ writes'[h] = {}
  BY <1>1, <1>2, UpdateLemma
<1>5. \A h \in HighPrio : \A i \in Ids : ~ Dirty(documents[h][i])
  BY <1>1, <1>3 DEF IInv, Inv, DirtyIsUntouched
<1>6. \A c \in Low : \A i \in Ids : ~ Dirty(documents'[c][i])
  BY <1>1, <1>2, UpdateLemma
<1>7. \A c \in Low :
        /\ \A w \in writes'[c] :
             /\ w.document = Contents(documents'[c])[w.id]
             /\ w.kind = "delete" <=> w.document = Absent
             /\ ~ MayReinsert /\ w.kind = "replace" => db'[c][w.id] # Absent
        /\ \A i \in Ids :
             db'[c][i] = Contents(documents'[c])[i] \/ \E w \in writes'[c] : w.id = i
  BY <1>1, <1>2, <1>3, SavedCollection
<1>8. \A h \in HighPrio : ~ MayReinsert =>
        \A i \in Ids : db[h][i] = Contents(documents[h])[i]
  BY <1>1, <1>2, <1>3 DEF IInv, Inv, StoredOrWritten
<1>9. \A h \in HighPrio : ~ MayReinsert => db[h] = Contents(documents[h])
  BY <1>1, <1>8, DocumentsType, ContentsType DEF Docs
<1>10. PendingIsUntouched' /\ UndoneIsUnchanged'
  BY <1>2, <1>3 DEF PendingIsUntouched, UndoneIsUnchanged
<1>11. \A c \in Collections : \A i \in Ids : ~ Dirty(documents'[c][i])
  BY <1>4, <1>5, <1>6
<1>12. DirtyIsUntouched'
  BY <1>11 DEF DirtyIsUntouched
<1>13. WritesAreContents'
  BY <1>4, <1>7 DEF WritesAreContents
<1>14. StoredOrWritten'
  BY <1>2, <1>4, <1>7, <1>8 DEF StoredOrWritten
<1>15. WritesAwaited'
  BY <1>2, <1>4 DEF WritesAwaited, Settled
<1>16. HighPrioStored'
  BY <1>2, <1>4, <1>9 DEF HighPrioStored
<1>17. OldOrNew'
  <2>1. \A c \in Collections : Contents(documents'[c]) = Contents(documents[c])
    BY <1>1, <1>2, UpdateLemma
  <2>2. \A c \in Collections, i \in Ids : db[c][i] \in {original[c][i], Contents(documents[c])[i]}
    BY <1>2 DEF IInv, Inv, OldOrNew
  <2> QED BY <1>2, <2>1, <2>2 DEF OldOrNew
<1> QED BY <1>10, <1>12, <1>13, <1>14, <1>15, <1>16, <1>17 DEF Inv

(* The save goes on with nothing to write, or the process dies. *)
LEMMA QuietStep ==
  ASSUME IInv, UNCHANGED <<db, documents, original, writes, refused>>,
         \/ Stored
         \/ pc = "after" /\ pc' \in {"after", "saved"}
         \/ pc' = "dead"
         \/ UNCHANGED pc
  PROVE  Inv'
<1>1. (Pending' = Pending \/ Pending' = {}) /\ (Saving' => Saving /\ Pending' = Pending)
  BY DEF Stored, Pending, Saving
<1>2. PendingIsUntouched'
  BY <1>1 DEF IInv, Inv, PendingIsUntouched, EntryOf
<1>3. DirtyIsUntouched'
  BY <1>1 DEF IInv, Inv, DirtyIsUntouched
<1>4. WritesAreContents' /\ HighPrioStored'
  BY DEF IInv, Inv, WritesAreContents, HighPrioStored
<1>5. StoredOrWritten'
  BY <1>1 DEF IInv, Inv, StoredOrWritten
<1>6. WritesAwaited'
  BY DEF IInv, Inv, WritesAwaited, Stored, Settled
<1>7. UndoneIsUnchanged'
  BY DEF IInv, Inv, UndoneIsUnchanged, Stored
<1>8. OldOrNew'
  <2>1. CASE pc \in {"operation", "deferred"}
    <3>1. Pending = Collections
      BY <2>1 DEF Pending
    <3>2. \A c \in Collections : db'[c] = original'[c]
      BY <3>1 DEF IInv, Inv, PendingIsUntouched
    <3> QED BY <3>2 DEF OldOrNew
  <2>2. CASE pc \notin {"operation", "deferred"}
    BY <2>2 DEF IInv, Inv, OldOrNew
  <2> QED BY <2>1, <2>2
<1> QED BY <1>2, <1>3, <1>4, <1>5, <1>6, <1>7, <1>8 DEF Inv

(* discardChanges, of an operation that fails. *)
LEMMA DiscardInv ==
  ASSUME IInv, DiscardChanges, UNCHANGED <<db, original, writes, refused>>,
         pc' = IF pc \in {"operation", "deferred"} THEN "undone" ELSE "failed"
  PROVE  Inv'
<1>1. TypeOK
  BY DEF IInv
<1>2. Pending' = {} /\ ~ Saving'
  BY DEF Pending, Saving
<1>3. \A c \in Collections :
        \/ /\ writes[c] = {} /\ db[c] = original[c]
           /\ Contents(documents'[c]) = original[c]
        \/ documents'[c] = documents[c] /\ \A i \in Ids : ~ Dirty(documents[c][i])
  BY <1>1, DiscardLemma DEF IInv, Inv, DirtyIsUntouched
<1>4. \A c \in Collections : \A i \in Ids : ~ Dirty(documents'[c][i])
  BY <1>1, DiscardLemma
<1>5. PendingIsUntouched' /\ DirtyIsUntouched' /\ StoredOrWritten'
  BY <1>2, <1>4 DEF PendingIsUntouched, DirtyIsUntouched, StoredOrWritten
<1>10. WritesAwaited'
  <2>1. pc \in {"operation", "deferred"} =>
          refused = {} /\ \A c \in Collections : writes[c] = {}
    BY <1>1 DEF IInv, Inv, TypeOK, PendingIsUntouched, Pending
  <2> QED BY <2>1 DEF WritesAwaited, Settled
<1>6. WritesAreContents'
  BY <1>3 DEF IInv, Inv, WritesAreContents
<1>7. HighPrioStored'
  <2>1. HighPrio \subseteq Collections
    BY CollectionsAssumption
  <2> QED BY <1>3, <2>1 DEF IInv, Inv, HighPrioStored
<1>8. UndoneIsUnchanged'
  <2>1. CASE pc \in {"operation", "deferred"}
    <3>1. Pending = Collections
      BY <2>1 DEF Pending
    <3>2. \A c \in Collections :
            db[c] = original[c] /\ \A i \in Ids : EntryOf(documents[c][i], original[c][i])
      BY <3>1 DEF IInv, Inv, PendingIsUntouched
    <3>3. \A c \in Collections :
            (\A i \in Ids : ~ Dirty(documents[c][i])) =>
              \A i \in Ids : Contents(documents[c])[i] = original[c][i]
      BY <3>2 DEF EntryOf, Contents
    <3>4. \A c \in Collections : Contents(documents[c]) \in Docs /\ original[c] \in Docs
      BY <1>1, DocumentsType, ContentsType
    <3>5. \A c \in Collections :
            (\A i \in Ids : ~ Dirty(documents[c][i])) => Contents(documents[c]) = original[c]
      BY <3>3, <3>4 DEF Docs
    <3> QED BY <1>3, <3>2, <3>5 DEF UndoneIsUnchanged
  <2>2. CASE pc \notin {"operation", "deferred"}
    BY <2>2 DEF UndoneIsUnchanged
  <2> QED BY <2>1, <2>2
<1>9. OldOrNew'
  <2>1. CASE pc \in {"operation", "deferred"}
    <3>1. Pending = Collections
      BY <2>1 DEF Pending
    <3>2. \A c \in Collections : db'[c] = original'[c]
      BY <3>1 DEF IInv, Inv, PendingIsUntouched
    <3> QED BY <3>2 DEF OldOrNew
  <2>2. CASE pc \notin {"operation", "deferred"}
    <3>1. \A c \in Collections, i \in Ids : db[c][i] \in {original[c][i], Contents(documents[c])[i]}
      BY <2>2 DEF IInv, Inv, OldOrNew
    <3>2. \A c \in Collections, i \in Ids :
            db[c][i] = original[c][i] \/ db[c][i] = Contents(documents'[c])[i]
      BY <1>3, <3>1
    <3> QED BY <3>2 DEF OldOrNew
  <2> QED BY <2>1, <2>2
<1> QED BY <1>5, <1>6, <1>7, <1>8, <1>9, <1>10 DEF Inv

LEMMA WriteHappensInv ==
  ASSUME IInv, NEW c \in Collections, NEW w \in writes[c], WriteHappens(c, w)
  PROVE  Inv'
<1>1. /\ TypeOK
      /\ w \in Write /\ w.id \in Ids /\ w.kind \in {"upsert", "replace", "delete"}
  BY DEF IInv, TypeOK, Write
<1>2. UNCHANGED <<documents, original, refused, pc>>
  BY DEF WriteHappens
<1>3. /\ writes'[c] = writes[c] \ {w}
      /\ \A d \in Collections : d # c => writes'[d] = writes[d] /\ db'[d] = db[d]
  BY <1>1 DEF WriteHappens, TypeOK
<1>4. \A i \in Ids : i # w.id => db'[c][i] = db[c][i]
  BY <1>1 DEF WriteHappens, TypeOK
<1>5. /\ db'[c][w.id] \in {db[c][w.id], Contents(documents[c])[w.id]}
      /\ ~ MayReinsert => db'[c][w.id] = Contents(documents[c])[w.id]
  <2>1. w.document = Contents(documents[c])[w.id] /\
        (~ MayReinsert /\ w.kind = "replace" => db[c][w.id] # Absent)
    BY DEF IInv, Inv, WritesAreContents
  <2>2. db'[c][w.id] = IF w.kind = "replace" /\ db[c][w.id] = Absent
                       THEN db[c][w.id] ELSE w.document
    BY <1>1 DEF WriteHappens, TypeOK
  <2> QED BY <2>1, <2>2
<1>6. c \notin Pending /\ \A i \in Ids : ~ Dirty(documents[c][i])
  BY DEF IInv, Inv, PendingIsUntouched, DirtyIsUntouched
<1>7. Pending' = Pending /\ Saving' = Saving
  BY <1>2 DEF Pending, Saving
<1>8. PendingIsUntouched'
  <2>1. \A d \in Pending : d \in Collections /\ d # c
    BY <1>6 DEF Pending
  <2> QED BY <1>2, <1>3, <1>7, <2>1 DEF IInv, Inv, PendingIsUntouched, EntryOf
<1>9. DirtyIsUntouched'
  BY <1>2, <1>3, <1>6, <1>7 DEF IInv, Inv, DirtyIsUntouched
<1>10. WritesAreContents'
  <2> SUFFICES ASSUME NEW d \in Collections, NEW x \in writes'[d]
               PROVE  /\ x.document = Contents(documents[d])[x.id]
                      /\ x.kind = "delete" <=> x.document = Absent
                      /\ ~ MayReinsert /\ x.kind = "replace" => db'[d][x.id] # Absent
    BY <1>2 DEF WritesAreContents
  <2>1. x \in writes[d]
    BY <1>3
  <2>2. /\ x.document = Contents(documents[d])[x.id]
        /\ x.kind = "delete" <=> x.document = Absent
        /\ ~ MayReinsert /\ x.kind = "replace" => db[d][x.id] # Absent
    BY <2>1 DEF IInv, Inv, WritesAreContents
  <2>3. x.id \in Ids
    BY <1>1, <2>1 DEF TypeOK, Write
  <2>4. ASSUME ~ MayReinsert, x.kind = "replace" PROVE db'[d][x.id] # Absent
    BY <1>3, <1>4, <1>5, <2>2, <2>3, <2>4
  <2> QED BY <2>2, <2>4
<1>11. StoredOrWritten'
  <2> SUFFICES ASSUME ~ MayReinsert, Saving, NEW d \in Collections \ (Pending \cup refused),
                      NEW i \in Ids
               PROVE  db'[d][i] = Contents(documents[d])[i] \/ \E x \in writes'[d] : x.id = i
    BY <1>2, <1>7 DEF StoredOrWritten
  <2>1. db[d][i] = Contents(documents[d])[i] \/ \E x \in writes[d] : x.id = i
    BY DEF IInv, Inv, StoredOrWritten
  <2> QED BY <1>3, <1>4, <1>5, <2>1
<1>12. WritesAwaited'
  BY <1>2, <1>3, CollectionsAssumption DEF IInv, Inv, WritesAwaited, Settled
<1>13. HighPrioStored'
  <2> SUFFICES ASSUME ~ MayReinsert, NEW d \in Collections \ HighPrio, writes'[d] # {},
                      NEW h \in HighPrio
               PROVE  writes'[h] = {} /\ db'[h] = Contents(documents[h])
    BY <1>2 DEF HighPrioStored
  <2>1. writes[d] # {}
    BY <1>3
  <2>2. writes[h] = {} /\ db[h] = Contents(documents[h])
    BY <2>1 DEF IInv, Inv, HighPrioStored
  <2>3. h \in Collections /\ h # c
    BY <2>2, CollectionsAssumption
  <2> QED BY <1>3, <2>2, <2>3
<1>14. pc \notin {"operation", "deferred", "undone"}
  <2>1. pc = "undone" => writes[c] = {}
    BY DEF IInv, Inv, WritesAwaited, Settled
  <2>2. pc \in {"operation", "deferred"} => c \in Pending
    BY DEF Pending
  <2> QED BY <1>6, <2>1, <2>2
<1>15. UndoneIsUnchanged'
  BY <1>2, <1>14 DEF UndoneIsUnchanged
<1>16. OldOrNew'
  BY <1>2, <1>3, <1>4, <1>5, <1>14 DEF IInv, Inv, OldOrNew
<1> QED BY <1>8, <1>9, <1>10, <1>11, <1>12, <1>13, <1>15, <1>16 DEF Inv

LEMMA WriteRefusedInv ==
  ASSUME IInv, NEW c \in Collections, NEW w \in writes[c], WriteRefused(c, w)
  PROVE  Inv'
<1>1. TypeOK
  BY DEF IInv
<1>2. UNCHANGED <<db, documents, original, pc>> /\ refused' = refused \cup {c}
  BY DEF WriteRefused
<1>3. /\ writes'[c] = writes[c] \ {w}
      /\ \A d \in Collections : d # c => writes'[d] = writes[d]
  BY <1>1 DEF WriteRefused, TypeOK
<1>4. c \notin Pending /\ \A d \in Pending : d \in Collections /\ d # c
  BY DEF IInv, Inv, PendingIsUntouched, Pending
<1>5. Pending' = Pending /\ Saving' = Saving
  BY <1>2 DEF Pending, Saving
<1>6. PendingIsUntouched'
  BY <1>2, <1>3, <1>4, <1>5 DEF IInv, Inv, PendingIsUntouched, EntryOf
<1>7. DirtyIsUntouched' /\ WritesAreContents'
  BY <1>2, <1>3, <1>5 DEF IInv, Inv, DirtyIsUntouched, WritesAreContents
<1>8. StoredOrWritten'
  BY <1>2, <1>3, <1>5 DEF IInv, Inv, StoredOrWritten
<1>9. WritesAwaited' /\ HighPrioStored'
  BY <1>2, <1>3, CollectionsAssumption DEF IInv, Inv, WritesAwaited, HighPrioStored, Settled
<1>10. UndoneIsUnchanged' /\ OldOrNew'
  BY <1>2 DEF IInv, Inv, UndoneIsUnchanged, OldOrNew
<1> QED BY <1>6, <1>7, <1>8, <1>9, <1>10 DEF Inv

LEMMA InvNext == IInv /\ [Next]_vars => IInv'
<1> SUFFICES ASSUME IInv, [Next]_vars PROVE Inv'
  BY TypeNext DEF IInv
<1>1. ASSUME NEW k \in Caches, NEW i \in Ids, Change(k, i) PROVE Inv'
  BY <1>1, ChangeInv
<1>2. ASSUME NEW S \in SUBSET Ids, OpenDraft(S) PROVE Inv'
  BY <1>2, OpenDraftInv
<1>3. CASE ApplyDraft
  BY <1>3, ApplyDraftInv
<1>4. CASE Defer \/ DeferAfterSave
  BY <1>4, RunningStep DEF Defer, DeferAfterSave, Running
<1>5. CASE Save \/ DeferredReturns
  BY <1>5, RunningStep DEF Save, DeferredReturns
<1>6. CASE SaveHighPrio
  BY <1>6, SaveHighPrioInv
<1>7. CASE SaveLowPrio
  BY <1>7, SaveLowPrioInv
<1>8. CASE Stored
  BY <1>8, QuietStep DEF Stored
<1>9. CASE AfterSave
  BY <1>9, QuietStep DEF AfterSave
<1>10. CASE Throw
  <2>1. pc' = IF pc \in {"operation", "deferred"} THEN "undone" ELSE "failed"
    BY <1>10 DEF Throw, Running
  <2> QED BY <1>10, <2>1, DiscardInv DEF Throw
<1>11. CASE SaveFails
  BY <1>11, DiscardInv DEF SaveFails
<1>12. CASE Crash
  BY <1>12, QuietStep DEF Crash
<1>13. ASSUME NEW c \in Collections, NEW w \in writes[c], WriteHappens(c, w) PROVE Inv'
  BY <1>13, WriteHappensInv
<1>14. ASSUME NEW c \in Collections, NEW w \in writes[c], WriteRefused(c, w) PROVE Inv'
  BY <1>14, WriteRefusedInv
<1>15. CASE UNCHANGED vars
  BY <1>15, QuietStep DEF vars
<1> QED BY <1>1, <1>2, <1>3, <1>4, <1>5, <1>6, <1>7, <1>8, <1>9, <1>10, <1>11, <1>12, <1>13,
           <1>14, <1>15 DEF Next

LEMMA Invariance == Spec => []IInv
<1>1. Init => IInv
  BY TypeInit, InvInit DEF IInv
<1>2. IInv /\ [Next]_vars => IInv'
  BY InvNext
<1> QED BY <1>1, <1>2, PTL DEF Spec

(***************************************************************************)
(* What follows from it.                                                   *)
(***************************************************************************)

(* A save that succeeded stored what the operation saw in its cache, if no *)
(* id is inserted again that was inserted and removed before.              *)
THEOREM SavedIsStoredHolds ==
  ASSUME MayReinsert = FALSE
  PROVE  Spec => []SavedIsStored
<1>1. IInv => SavedIsStored
  <2> SUFFICES ASSUME IInv, pc \in {"after", "saved"}, NEW c \in Collections
               PROVE  db[c] = Contents(documents[c])
    BY DEF SavedIsStored
  <2>1. TypeOK /\ Saving /\ Pending = {} /\ refused = {} /\ writes[c] = {}
    BY DEF IInv, Inv, Saving, Pending, WritesAwaited, Settled
  <2>2. \A i \in Ids : db[c][i] = Contents(documents[c])[i]
    BY <2>1 DEF IInv, Inv, StoredOrWritten
  <2>3. db[c] \in Docs /\ Contents(documents[c]) \in Docs
    BY <2>1, DocumentsType, ContentsType
  <2> QED BY <2>2, <2>3 DEF Docs
<1> QED BY <1>1, Invariance, PTL

(* An operation that failed before its save began has changed nothing. *)
THEOREM UndoneIsUnchangedHolds == Spec => []UndoneIsUnchanged
<1>1. IInv => UndoneIsUnchanged
  BY DEF IInv, Inv
<1> QED BY <1>1, Invariance, PTL

(* Whatever fails, and wherever the process dies, each document is the old *)
(* or the new one.                                                         *)
THEOREM OldOrNewHolds == Spec => []OldOrNew
<1>1. IInv => OldOrNew
  BY DEF IInv, Inv
<1> QED BY <1>1, Invariance, PTL

(* Only a write changes the database. *)
LEMMA ChangedByWrite ==
  ASSUME TypeOK, [Next]_vars, NEW c \in Collections, db'[c] # db[c]
  PROVE  writes[c] # {}
<1>1. db' # db
  OBVIOUS
<1>2. \A k \in Caches, i \in Ids : Change(k, i) => UNCHANGED db
  <2> SUFFICES ASSUME NEW k \in Caches, NEW i \in Ids, Change(k, i) PROVE UNCHANGED db
    OBVIOUS
  <2>1. PICK e \in Entry \cup {Removed} : SetEntry(k, i, e)
    BY ChangeIsSetEntry
  <2> QED BY <2>1 DEF SetEntry
<1>3. /\ \A S \in SUBSET Ids : OpenDraft(S) => UNCHANGED db
      /\ ApplyDraft \/ Defer \/ DeferAfterSave => UNCHANGED db
  BY DEF OpenDraft, ApplyDraft, Defer, DeferAfterSave
<1>4. Save \/ DeferredReturns \/ SaveHighPrio \/ SaveLowPrio \/ Stored \/ AfterSave => UNCHANGED db
  BY DEF Save, DeferredReturns, SaveHighPrio, SaveLowPrio, Stored, AfterSave
<1>5. Throw \/ SaveFails \/ Crash => UNCHANGED db
  BY DEF Throw, SaveFails, Crash
<1>6. \A d \in Collections : \A w \in writes[d] : WriteRefused(d, w) => UNCHANGED db
  BY DEF WriteRefused
<1>7. UNCHANGED vars => UNCHANGED db
  BY DEF vars
<1>8. PICK d \in Collections : \E w \in writes[d] : WriteHappens(d, w)
  BY <1>1, <1>2, <1>3, <1>4, <1>5, <1>6, <1>7, Zenon DEF Next
<1>9. d = c
  BY <1>8 DEF WriteHappens, TypeOK
<1> QED BY <1>8, <1>9

(* Nothing else of an operation is stored before all of its timeline is.   *)
THEOREM TimelineFirstHolds ==
  ASSUME MayReinsert = FALSE
  PROVE  Spec => TimelineFirst
<1>1. IInv /\ [Next]_vars =>
        ((\E c \in Collections \ HighPrio : db'[c] # db[c]) =>
           \A h \in HighPrio : db[h] = Contents(documents[h]))
  BY ChangedByWrite DEF IInv, Inv, HighPrioStored
<1> QED BY <1>1, Invariance, PTL DEF Spec, TimelineFirst

(***************************************************************************)
(* Drafts.                                                                 *)
(***************************************************************************)

LEMMA OpenDraftCurrent ==
  ASSUME TypeOK, NEW S \in SUBSET Ids, OpenDraft(S)
  PROVE  DraftIsCurrent'
<1> DEFINE docs == Contents(documents[DraftOf])
           copy == [i \in Ids |-> IF i \in S THEN docs[i] ELSE Absent]
<1>1. /\ documents \in [Caches -> Entries] /\ original \in [Caches -> Docs]
      /\ DraftOf \in Caches /\ Draft \in Caches /\ DraftOf # Draft
  BY DocumentsType
<1>2. docs \in Docs
  BY <1>1, ContentsType
<1>3. copy \in Docs /\ \A i \in Ids : copy[i] # Absent => copy[i] = docs[i]
  BY <1>2 DEF Docs
<1>4. original' = [original EXCEPT ![Draft] = copy]
  BY DEF OpenDraft
<1> HIDE DEF copy
<1>5. original'[Draft] = copy
  BY <1>1, <1>4
<1>6. documents'[Draft] = Filled(copy) /\ documents'[DraftOf] = documents[DraftOf]
  BY <1>1, <1>5 DEF OpenDraft
<1>7. Contents(documents'[Draft]) = copy
  BY <1>3, <1>6, FilledLemma
<1>8. \A i \in Ids : Live(documents'[Draft][i]) => copy[i] = documents'[Draft][i].document
  BY <1>7 DEF Contents
<1>9. \A i \in Ids : Live(documents'[Draft][i]) => copy[i] # Absent
  BY <1>6 DEF Filled, Live
<1> QED BY <1>3, <1>6, <1>8, <1>9 DEF DraftIsCurrent

LEMMA DraftNext == TypeOK /\ DraftIsCurrent /\ [Next]_vars => DraftIsCurrent'
<1> SUFFICES ASSUME TypeOK, DraftIsCurrent, [Next]_vars PROVE DraftIsCurrent'
  OBVIOUS
<1>1. DraftOf \in Collections /\ DraftOf \in Caches /\ Draft \in Caches /\ DraftOf # Draft
  BY DocumentsType
<1>2. ASSUME NEW k \in Caches, NEW i \in Ids, Change(k, i) PROVE DraftIsCurrent'
  <2>1. PICK e \in Entry \cup {Removed} : SetEntry(k, i, e) /\ Dirty(e)
    BY <1>2, ChangeIsSetEntry
  <2>2. \A c \in Caches, j \in Ids :
          documents'[c][j] = IF c = k /\ j = i THEN e ELSE documents[c][j]
    BY <2>1, SetEntryLemma
  <2>3. editing' = editing /\ pc' = pc /\ (editing => k # DraftOf)
    BY <2>1 DEF SetEntry
  <2>4. editing => \A j \in Ids :
          Contents(documents'[DraftOf])[j] = Contents(documents[DraftOf])[j]
    BY <1>1, <2>2, <2>3 DEF Contents
  <2>5. \A j \in Ids : ~ Dirty(documents'[Draft][j]) => documents'[Draft][j] = documents[Draft][j]
    BY <1>1, <2>1, <2>2
  <2> QED BY <2>3, <2>4, <2>5 DEF DraftIsCurrent
<1>3. ASSUME NEW S \in SUBSET Ids, OpenDraft(S) PROVE DraftIsCurrent'
  BY <1>3, OpenDraftCurrent
<1>4. CASE ApplyDraft
  BY <1>4 DEF ApplyDraft, DraftIsCurrent
<1>5. CASE Defer \/ DeferAfterSave \/ Stored \/ AfterSave \/ Crash
  BY <1>5 DEF Defer, DeferAfterSave, Stored, AfterSave, Crash, DraftIsCurrent
<1>6. CASE Save \/ DeferredReturns \/ SaveHighPrio \/ SaveLowPrio
  BY <1>6 DEF Save, DeferredReturns, SaveHighPrio, SaveLowPrio, DraftIsCurrent
<1>7. CASE Throw \/ SaveFails
  BY <1>7 DEF Throw, SaveFails, DraftIsCurrent
<1>8. ASSUME NEW c \in Collections, NEW w \in writes[c], WriteHappens(c, w) \/ WriteRefused(c, w)
      PROVE  DraftIsCurrent'
  BY <1>8 DEF WriteHappens, WriteRefused, DraftIsCurrent
<1>9. CASE UNCHANGED vars
  BY <1>9 DEF vars, DraftIsCurrent
<1> QED BY <1>2, <1>3, <1>4, <1>5, <1>6, <1>7, <1>8, <1>9, Zenon DEF Next

(* Only ApplyDraft ends the editing of a draft and lets the operation go on. *)
LEMMA EndedByApplyDraft ==
  ASSUME TypeOK, [Next]_vars, editing, ~ editing', pc' = pc
  PROVE  ApplyDraft
<1>1. ASSUME NEW k \in Caches, NEW i \in Ids, Change(k, i) PROVE UNCHANGED editing
  <2>1. PICK e \in Entry \cup {Removed} : SetEntry(k, i, e)
    BY <1>1, ChangeIsSetEntry
  <2> QED BY <2>1 DEF SetEntry
<1>2. \A S \in SUBSET Ids : ~ OpenDraft(S)
  BY DEF OpenDraft
<1>3. Defer \/ DeferAfterSave \/ Stored \/ AfterSave \/ Crash => UNCHANGED editing
  BY DEF Defer, DeferAfterSave, Stored, AfterSave, Crash
<1>4. Save \/ DeferredReturns \/ SaveHighPrio \/ SaveLowPrio \/ SaveFails => UNCHANGED editing
  BY DEF Save, DeferredReturns, SaveHighPrio, SaveLowPrio, SaveFails
<1>5. ~ Throw
  BY DEF Throw, Running
<1>6. \A c \in Collections : \A w \in writes[c] :
        WriteHappens(c, w) \/ WriteRefused(c, w) => UNCHANGED editing
  BY DEF WriteHappens, WriteRefused
<1>7. UNCHANGED vars => UNCHANGED editing
  BY DEF vars
<1> QED BY <1>1, <1>2, <1>3, <1>4, <1>5, <1>6, <1>7, Zenon DEF Next

(* A draft becomes the collection: what the blueprint removed is gone,     *)
(* what it changed or added is there, the rest is as it was.               *)
THEOREM DraftIsAppliedHolds == Spec => DraftIsApplied
<1>1. Init => DraftIsCurrent
  BY DEF Init, DraftIsCurrent
<1>2. ASSUME TypeOK, DraftIsCurrent, [Next]_vars, editing, ~ editing', pc' = pc, NEW i \in Ids
      PROVE  Contents(documents'[DraftOf])[i] =
               IF documents[Draft][i] = Absent THEN Contents(documents[DraftOf])[i]
                                               ELSE Contents(documents[Draft])[i]
  <2> DEFINE e == documents[DraftOf][i]
             d == documents[Draft][i]
             m == documents'[DraftOf][i]
             content(x) == IF Live(x) THEN x.document ELSE Absent
  <2>1. ApplyDraft /\ pc = "operation"
    BY <1>2, EndedByApplyDraft DEF ApplyDraft
  <2>2. e \in Entry \cup {Absent, Removed} /\ d \in Entry \cup {Absent, Removed}
    BY <1>2, DocumentsType DEF Entries
  <2>3. m = Merged(e, d)
    BY <1>2, <2>1, ApplyDraftLemma, DocumentsType
  <2>4. /\ Contents(documents'[DraftOf])[i] = content(m)
        /\ Contents(documents[DraftOf])[i] = content(e)
        /\ Contents(documents[Draft])[i] = content(d)
    BY DEF Contents
  <2>5. Live(d) /\ ~ Dirty(d) => content(e) = content(d)
    BY <1>2, <2>1, <2>4 DEF DraftIsCurrent
  <2>6. /\ d = Removed => ~ Live(m) /\ ~ Live(d) /\ d # Absent
        /\ d # Removed /\ ~ Dirty(d) => m = e
        /\ Live(d) /\ Dirty(d) => Live(m) /\ m.document = d.document
    BY <2>2, <2>3, MergedLemma, DocumentsAssumption DEF Live
  <2>7. /\ d = Absent => ~ Dirty(d) /\ d # Removed
        /\ d # Absent /\ d # Removed => Live(d)
        /\ Live(d) => d # Absent /\ d # Removed
    BY DocumentsAssumption DEF Dirty, Live
  <2> HIDE DEF e, d, m
  <2>8. content(m) = IF d = Absent THEN content(e) ELSE content(d)
    BY <2>5, <2>6, <2>7
  <2> QED BY <2>4, <2>8 DEF d
<1>3. TypeOK /\ DraftIsCurrent /\ [Next]_vars =>
        (editing /\ ~ editing' /\ pc' = pc =>
           \A i \in Ids : Contents(documents'[DraftOf])[i] =
             IF documents[Draft][i] = Absent THEN Contents(documents[DraftOf])[i]
                                             ELSE Contents(documents[Draft])[i])
  BY <1>2
<1> QED BY <1>1, <1>3, TypeCorrect, DraftNext, PTL DEF Spec, DraftIsApplied
=============================================================================

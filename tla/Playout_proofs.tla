--------------------------- MODULE Playout_proofs ---------------------------
(***************************************************************************)
(* What is on air and what is next, for any parts, segments, orders,       *)
(* instances and reports: the type invariant of Playout and its safety     *)
(* properties.                                                             *)
(***************************************************************************)
EXTENDS Playout, Filter_proofs

(***************************************************************************)
(* selectNextPart.                                                         *)
(***************************************************************************)

(* Parts are where the order has them.                                     *)
LEMMA PosOfPart ==
  /\ Len(PartOrder) \in Nat /\ DOMAIN PartOrder = 1 .. Len(PartOrder)
  /\ \A k \in DOMAIN PartOrder : PartOrder[k] \in Parts /\ Pos[PartOrder[k]] = k
  /\ \A q \in Parts : Pos[q] \in DOMAIN PartOrder /\ PartOrder[Pos[q]] = q
<1>1. Len(PartOrder) \in Nat /\ DOMAIN PartOrder = 1 .. Len(PartOrder)
  BY PartsAssumption
<1>2. \A k \in DOMAIN PartOrder : PartOrder[k] \in Parts
  BY DEF Parts
<1>3. ASSUME NEW q \in Parts
      PROVE  Pos[q] \in DOMAIN PartOrder /\ PartOrder[Pos[q]] = q
  <2>1. \E k \in DOMAIN PartOrder : PartOrder[k] = q
    BY DEF Parts
  <2> QED BY <2>1 DEF Pos
<1>4. \A k \in DOMAIN PartOrder : Pos[PartOrder[k]] = k
  BY <1>2, <1>3, PartsAssumption
<1> QED BY <1>1, <1>2, <1>3, <1>4

(* The running order of the parts that are present.                        *)
LEMMA RunningOrder ==
  ASSUME NEW present \in SUBSET Parts
  PROVE  LET o == Only(PartOrder, present) IN
         /\ o \in Seq(Parts)
         /\ Len(o) \in Nat /\ DOMAIN o = 1 .. Len(o)
         /\ \A k \in DOMAIN o : o[k] \in present
         /\ \A q \in present : \E k \in DOMAIN o : o[k] = q
         /\ \A j, k \in DOMAIN o : j < k => Pos[o[j]] < Pos[o[k]]
<1> DEFINE o == Only(PartOrder, present)
           I == Places(PartOrder, present)
<1>1. /\ o \in Seq(Parts)
      /\ \A k \in DOMAIN o : \E i \in DOMAIN PartOrder : o[k] = PartOrder[i] /\ PartOrder[i] \in present
      /\ \A i \in DOMAIN PartOrder : PartOrder[i] \in present => \E k \in DOMAIN o : o[k] = PartOrder[i]
  BY PartsAssumption, OnlyHas
<1>2. /\ \A k \in DOMAIN o : Nth(I, k) \in DOMAIN PartOrder /\ o[k] = PartOrder[Nth(I, k)]
      /\ \A j, k \in DOMAIN o : j < k <=> Nth(I, j) < Nth(I, k)
  BY PartsAssumption, OnlyPlaces
<1> HIDE DEF o, I
<1>3. Len(o) \in Nat /\ DOMAIN o = 1 .. Len(o)
  BY <1>1
<1>4. \A k \in DOMAIN o : o[k] \in present
  BY <1>1
<1>5. \A q \in present : \E k \in DOMAIN o : o[k] = q
  BY <1>1, PosOfPart
<1>6. \A k \in DOMAIN o : Pos[o[k]] = Nth(I, k)
  BY <1>2, PosOfPart
<1>7. \A j, k \in DOMAIN o : j < k => Pos[o[j]] < Pos[o[k]]
  BY <1>2, <1>6
<1> QED BY <1>1, <1>3, <1>4, <1>5, <1>7 DEF o

(* There are n numbers up to n.                                            *)
LEMMA Interval ==
  ASSUME NEW n \in Nat
  PROVE  IsFiniteSet(1 .. n) /\ Cardinality(1 .. n) = n
<1>1. 1 \in Int /\ n \in Int
  OBVIOUS
<1>2. IsFiniteSet(1 .. n) /\ Cardinality(1 .. n) = IF 1 > n THEN 0 ELSE n - 1 + 1
  BY <1>1, FS_Interval
<1> QED BY <1>2

(* The parts that come before a part, or are it, are the first ones; the   *)
(* search starts behind them.                                              *)
LEMMA SearchStarts ==
  ASSUME NEW present \in SUBSET Parts, NEW part \in Parts \cup {NoPart}
  PROVE  LET o == Only(PartOrder, present)
             from == SearchFrom(o, part)
         IN /\ from \in 0 .. Len(o)
            /\ part \in present => from \in DOMAIN o /\ o[from] = part
<1> DEFINE o == Only(PartOrder, present)
           before == {k \in DOMAIN o : Pos[o[k]] <= Pos[part]}
           n == Cardinality(before)
           from == SearchFrom(o, part)
<1>1. /\ o \in Seq(Parts) /\ Len(o) \in Nat /\ DOMAIN o = 1 .. Len(o)
      /\ \A k \in DOMAIN o : o[k] \in present
      /\ \A q \in present : \E k \in DOMAIN o : o[k] = q
      /\ \A j, k \in DOMAIN o : j < k => Pos[o[j]] < Pos[o[k]]
  BY RunningOrder
<1>2. from \in {0, n}
  BY DEF SearchFrom
<1>3. part \in present => from = n
  <2> SUFFICES ASSUME part \in present PROVE from = n
    OBVIOUS
  <2>1. \E k \in DOMAIN o : SegmentOf[o[k]] = SegmentOf[part]
    BY <1>1
  <2>2. part # NoPart
    BY PartsAssumption
  <2> QED BY <2>1, <2>2 DEF SearchFrom
<1> HIDE DEF o, from
<1>4. n \in 0 .. Len(o)
  <2>1. before \in SUBSET (1 .. Len(o))
    BY <1>1
  <2>2. IsFiniteSet(1 .. Len(o)) /\ Cardinality(1 .. Len(o)) = Len(o)
    BY <1>1, Interval
  <2> HIDE DEF before
  <2>3. IsFiniteSet(before) /\ Cardinality(before) <= Len(o)
    BY <2>1, <2>2, FS_Subset
  <2>4. Cardinality(before) \in Nat
    BY <2>3, FS_CardinalityType
  <2> QED BY <2>3, <2>4, <1>1
<1>5. \A k \in DOMAIN o : Pos[o[k]] \in Nat
  BY <1>1, PosOfPart
<1>6. part \in present => n \in DOMAIN o /\ o[n] = part
  <2> SUFFICES ASSUME part \in present PROVE n \in DOMAIN o /\ o[n] = part
    OBVIOUS
  <2>1. PICK k \in DOMAIN o : o[k] = part
    BY <1>1
  <2>2. before = 1 .. k
    <3>1. \A j \in DOMAIN o : j > k => ~ (Pos[o[j]] <= Pos[part])
      BY <1>1, <1>5, <2>1
    <3>2. \A j \in DOMAIN o : j <= k => Pos[o[j]] <= Pos[part]
      BY <1>1, <1>5, <2>1
    <3> QED BY <1>1, <3>1, <3>2
  <2>3. n = k
    <3>1. k \in Nat
      BY <1>1
    <3> QED BY <2>2, <3>1, Interval
  <2> QED BY <2>1, <2>3
<1>7. from \in 0 .. Len(o)
  BY <1>1, <1>2, <1>4
<1> QED BY <1>3, <1>6, <1>7 DEF o, from

(* The first playable part behind a place, up to another (or to the end,   *)
(* if that is 0).                                                          *)
LEMMA FirstFound ==
  ASSUME NEW o \in Seq(Parts), NEW from \in Nat, NEW length \in Int, length <= Len(o)
  PROVE  LET r == FindFirst(o, from, length)
             end == IF length = 0 THEN Len(o) ELSE length
         IN /\ r \in Parts \cup {NoPart}
            /\ r # NoPart => \E k \in DOMAIN o : k > from /\ k <= end /\ o[k] = r
            /\ \A k \in DOMAIN o : k > from /\ k <= end /\ o[k] \notin Unplayable => r # NoPart
<1> DEFINE end == IF length = 0 THEN Len(o) ELSE length
           found == {k \in from + 1 .. end : o[k] \notin Unplayable}
           r == FindFirst(o, from, length)
<1>1. Len(o) \in Nat /\ DOMAIN o = 1 .. Len(o) /\ end \in Int /\ end <= Len(o)
  OBVIOUS
<1>2. found \in SUBSET Nat /\ found \subseteq DOMAIN o
  BY <1>1
<1>3. r = IF found = {} THEN NoPart ELSE o[Min(found)]
  BY DEF FindFirst
<1>4. found # {} => Min(found) \in found
  <2> HIDE DEF found
  <2>1. found # {} => \E m \in found : \A n \in found : m <= n
    BY <1>2, LeastElement
  <2> QED BY <2>1 DEF Min
<1>5. \A k \in DOMAIN o : k > from /\ k <= end /\ o[k] \notin Unplayable => k \in found
  BY <1>1
<1>6. \A k \in found : k > from /\ k <= end
  BY <1>1
<1>7. \A k \in DOMAIN o : o[k] \in Parts
  OBVIOUS
<1> HIDE DEF found, r, end
<1>8. r # NoPart => found # {} /\ r = o[Min(found)]
  BY <1>3
<1>9. found # {} => r # NoPart /\ r \in Parts
  BY <1>2, <1>3, <1>4, <1>7, PartsAssumption
<1>10. r \in Parts \cup {NoPart}
  BY <1>3, <1>9
<1>11. r # NoPart => \E k \in DOMAIN o : k > from /\ k <= end /\ o[k] = r
  BY <1>2, <1>4, <1>6, <1>8
<1> QED BY <1>5, <1>9, <1>10, <1>11 DEF r, end

(* The part that is chosen is one of the playlist, or none;                *)
LEMMA ChosenIsPart ==
  ASSUME NEW present \in SUBSET Parts, NEW loop \in BOOLEAN, NEW part \in Parts \cup {NoPart}
  PROVE  SelectNext(present, loop, part) \in Parts \cup {NoPart}
<1> DEFINE o == Only(PartOrder, present)
           from == SearchFrom(o, part)
<1>1. o \in Seq(Parts) /\ Len(o) \in Nat
  BY RunningOrder
<1>2. from \in 0 .. Len(o)
  BY SearchStarts
<1>3. SelectNext(present, loop, part) \in {FindFirst(o, from, Len(o)), FindFirst(o, 0, from - 1)}
  BY DEF SelectNext
<1> HIDE DEF o, from
<1>4. FindFirst(o, from, Len(o)) \in Parts \cup {NoPart}
  BY <1>1, <1>2, FirstFound
<1>5. FindFirst(o, 0, from - 1) \in Parts \cup {NoPart}
  <2>1. from - 1 \in Int /\ from - 1 <= Len(o) /\ 0 \in Nat
    BY <1>1, <1>2
  <2> QED BY <1>1, <2>1, FirstFound
<1> QED BY <1>3, <1>4, <1>5

(* Two parts that can be played and that ingest does not remove.           *)
TwoPlayable == \E q, r \in Lasting \ Unplayable : q # r

(* and, as long as another can be played, never the one it should follow.  *)
(* Without another findFirstPlayablePart(0, undefined, 0) searches the     *)
(* whole playlist, and finds the part itself.                              *)
LEMMA ChosenIsAnother ==
  ASSUME NEW present \in SUBSET Parts, NEW loop \in BOOLEAN, NEW part \in Parts,
         Lasting \subseteq present, loop => TwoPlayable
  PROVE  SelectNext(present, loop, part) # part
<1> DEFINE o == Only(PartOrder, present)
           from == SearchFrom(o, part)
           after == FindFirst(o, from, Len(o))
           around == FindFirst(o, 0, from - 1)
<1>1. /\ o \in Seq(Parts) /\ Len(o) \in Nat /\ DOMAIN o = 1 .. Len(o)
      /\ \A q \in present : \E k \in DOMAIN o : o[k] = q
      /\ \A k \in DOMAIN o : o[k] \in present
      /\ \A j, k \in DOMAIN o : j < k => Pos[o[j]] < Pos[o[k]]
  BY RunningOrder
<1>0. part # NoPart
  BY PartsAssumption
<1>2. /\ from \in 0 .. Len(o)
      /\ part \in present => from \in DOMAIN o /\ o[from] = part
  BY <1>0, SearchStarts
<1>3. SelectNext(present, loop, part) = IF after = NoPart /\ loop THEN around ELSE after
  BY <1>0 DEF SelectNext
<1> HIDE DEF o, from
<1>4. \A q \in Parts : Pos[q] \in Nat
  BY PosOfPart
<1>5. /\ after # NoPart => \E k \in DOMAIN o : k > from /\ k <= Len(o) /\ o[k] = after
      /\ \A k \in DOMAIN o : k > from /\ k <= Len(o) /\ o[k] \notin Unplayable => after # NoPart
  <2>1. from \in Nat /\ Len(o) \in Int /\ Len(o) <= Len(o)
    BY <1>1, <1>2
  <2>2. (IF Len(o) = 0 THEN Len(o) ELSE Len(o)) = Len(o)
    OBVIOUS
  <2> QED BY <1>1, <2>1, <2>2, FirstFound
<1>6. around # NoPart => \E k \in DOMAIN o : /\ k <= (IF from - 1 = 0 THEN Len(o) ELSE from - 1)
                                             /\ o[k] = around
  <2> DEFINE l == from - 1
  <2>1. l \in Int /\ l <= Len(o) /\ 0 \in Nat
    BY <1>1, <1>2
  <2>2. around = FindFirst(o, 0, l)
    OBVIOUS
  <2> HIDE DEF l, around
  <2>3. around # NoPart => \E k \in DOMAIN o : k > 0 /\ k <= (IF l = 0 THEN Len(o) ELSE l) /\ o[k] = around
    BY <1>1, <2>1, <2>2, FirstFound
  <2> QED BY <2>3 DEF l
<1> HIDE DEF after, around
<1>7. after # part
  <2> SUFFICES ASSUME after = part PROVE FALSE
    OBVIOUS
  <2>1. PICK k \in DOMAIN o : k > from /\ o[k] = part
    BY <1>0, <1>5
  <2>2. from \in DOMAIN o /\ o[from] = part
    BY <1>1, <1>2, <2>1
  <2>3. Pos[o[from]] < Pos[o[k]]
    BY <1>1, <2>1, <2>2
  <2> QED BY <1>4, <2>1, <2>2, <2>3
<1>8. ASSUME after = NoPart, loop, around = part
      PROVE  FALSE
  <2>1. PICK k \in DOMAIN o : k <= (IF from - 1 = 0 THEN Len(o) ELSE from - 1) /\ o[k] = part
    BY <1>0, <1>6, <1>8
  <2>2. part \in present /\ from \in DOMAIN o /\ o[from] = part
    BY <1>1, <1>2, <2>1
  <2>3. k = from
    BY <1>1, <1>4, <2>1, <2>2
  <2>4. from = 1
    BY <1>1, <2>1, <2>2, <2>3
  <2>5. PICK q \in Lasting \ Unplayable : q # part
    BY <1>8 DEF TwoPlayable
  <2>6. PICK m \in DOMAIN o : o[m] = q
    BY <1>1, <2>5
  <2>7. m > from
    BY <1>1, <2>2, <2>4, <2>5, <2>6
  <2> QED BY <1>1, <1>5, <1>8, <2>5, <2>6, <2>7
<1> QED BY <1>3, <1>7, <1>8

(***************************************************************************)
(* The cache of a job, and what is done to it.                             *)
(***************************************************************************)

(* Instances as a job may make them, beyond the bound of Ids as well.      *)
AnyIds == Playlists \X Parts \X Nat
Fields == Flags \cup {"all"}

IsDoc(d) ==
  d \in [active : BOOLEAN, rehearsal : BOOLEAN, loop : Loops, hold : HoldStates, manual : BOOLEAN,
         prev : AnyIds \cup {None}, cur : AnyIds \cup {None}, next : AnyIds \cup {None}]

IsAt(at) == at \in [Fields -> SUBSET AnyIds] /\ \A f \in Flags : at[f] \subseteq at.all

IsCache(w) ==
  /\ w = [p |-> w.p, doc |-> w.doc, at |-> w.at, mem |-> w.mem]
  /\ w.p \in Playlists /\ IsDoc(w.doc) /\ IsAt(w.at) /\ w.mem \subseteq w.at.all

(* At most one instance is beyond the bound.                               *)
Room(w) == \E x \in Nat : \A i \in w.at.all : i[3] \in 1 .. MaxCopies \/ i[3] = x

(* A flag is set.                                                          *)
LEMMA FlagIs ==
  ASSUME NEW w, IsCache(w), NEW f \in Flags, NEW S \in SUBSET w.at.all
  PROVE  LET r == Flag(w, f, S) IN
         /\ IsCache(r) /\ r.p = w.p /\ r.doc = w.doc /\ r.mem = w.mem
         /\ r.at[f] = w.at[f] \cup S /\ r.at.all = w.at.all
         /\ \A g \in Fields \ {f} : r.at[g] = w.at[g]
<1> DEFINE at == [w.at EXCEPT ![f] = w.at[f] \cup S]
           r == Flag(w, f, S)
<1>0. w = [p |-> w.p, doc |-> w.doc, at |-> w.at, mem |-> w.mem]
  BY DEF IsCache
<1>1. r = [p |-> w.p, doc |-> w.doc, at |-> at, mem |-> w.mem]
  <2> HIDE DEF at
  <2>1. r = [w EXCEPT !.at = at]
    BY DEF Flag, at
  <2> HIDE DEF r
  <2> QED BY <1>0, <2>1
<1>2. f \in Fields /\ "all" \in Fields /\ f # "all" /\ w.at \in [Fields -> SUBSET AnyIds]
  BY DEF IsCache, IsAt, Fields, Flags
<1>3. at[f] = w.at[f] \cup S /\ \A g \in Fields \ {f} : at[g] = w.at[g]
  BY <1>2
<1>4. S \subseteq AnyIds /\ w.at[f] \subseteq AnyIds
  BY <1>2
<1>5. at \in [Fields -> SUBSET AnyIds]
  BY <1>2, <1>4
<1>6. at.all = w.at.all
  BY <1>2, <1>3
<1>7. \A g \in Flags : at[g] \subseteq at.all
  BY <1>2, <1>3, <1>6 DEF IsCache, IsAt, Fields
<1> HIDE DEF at, r
<1>8. r.p = w.p /\ r.doc = w.doc /\ r.mem = w.mem /\ r.at = at
  BY <1>1
<1>9. IsCache(r)
  BY <1>1, <1>5, <1>6, <1>7, <1>8 DEF IsCache, IsAt
<1> QED BY <1>3, <1>6, <1>8, <1>9 DEF r

(* Instances are removed, and their flags with them.                       *)
LEMMA DropIs ==
  ASSUME NEW w, IsCache(w), NEW S
  PROVE  LET r == Drop(w, S) IN
         /\ IsCache(r) /\ r.p = w.p /\ r.doc = w.doc /\ r.mem = w.mem \ S
         /\ r.at.all = w.at.all \ S
         /\ \A g \in Fields : r.at[g] = w.at[g] \ S
<1> DEFINE at == Among(w.at, w.at.all \ S)
           r == Drop(w, S)
<1>0. w = [p |-> w.p, doc |-> w.doc, at |-> w.at, mem |-> w.mem]
  BY DEF IsCache
<1>1. r = [p |-> w.p, doc |-> w.doc, at |-> at, mem |-> w.mem \ S]
  <2> HIDE DEF at
  <2>1. r = [w EXCEPT !.at = at, !.mem = w.mem \ S]
    BY DEF Drop, at
  <2> HIDE DEF r
  <2> QED BY <1>0, <2>1
<1>2. "all" \in Fields /\ w.at \in [Fields -> SUBSET AnyIds] /\ \A g \in Fields : w.at[g] \subseteq w.at.all
  BY DEF IsCache, IsAt, Fields, Flags
<1>3. at = [g \in Fields |-> w.at[g] \cap (w.at.all \ S)]
  BY <1>2 DEF Among
<1>4. \A g \in Fields : at[g] = w.at[g] \ S
  BY <1>2, <1>3
<1>5. at \in [Fields -> SUBSET AnyIds]
  BY <1>2, <1>3
<1>6. at.all = w.at.all \ S
  BY <1>2, <1>4
<1>7. \A g \in Flags : at[g] \subseteq at.all
  BY <1>2, <1>4, <1>6 DEF Fields
<1>8. w.mem \ S \subseteq at.all
  BY <1>6 DEF IsCache
<1> HIDE DEF at, r
<1>9. r.p = w.p /\ r.doc = w.doc /\ r.mem = w.mem \ S /\ r.at = at
  BY <1>1
<1>10. IsCache(r)
  BY <1>1, <1>5, <1>7, <1>8, <1>9 DEF IsCache, IsAt
<1> QED BY <1>4, <1>6, <1>9, <1>10 DEF r

(* The document is updated.                                                *)
LEMMA WithDocIs ==
  ASSUME NEW w, IsCache(w), NEW d, IsDoc(d)
  PROVE  LET r == WithDoc(w, d) IN
         IsCache(r) /\ r.p = w.p /\ r.doc = d /\ r.mem = w.mem /\ r.at = w.at
<1>1. WithDoc(w, d) = [p |-> w.p, doc |-> d, at |-> w.at, mem |-> w.mem]
  BY DEF WithDoc, IsCache
<1> QED BY <1>1 DEF IsCache

(* A new activation.                                                       *)
LEMMA NewActivationIs ==
  ASSUME NEW w, IsCache(w), NEW d, IsDoc(d)
  PROVE  LET r == NewActivation(w, d) IN
         /\ IsCache(r) /\ r.p = w.p /\ r.doc = d /\ r.mem = w.mem
         /\ r.at.mine = {i \in w.at.mine : OwnerOf(i) # w.p} /\ r.at.all = w.at.all
         /\ \A g \in Fields \ {"mine"} : r.at[g] = w.at[g]
<1> DEFINE M == {i \in w.at.mine : OwnerOf(i) # w.p}
           at == [w.at EXCEPT !.mine = M]
           r == NewActivation(w, d)
<1>0. w = [p |-> w.p, doc |-> w.doc, at |-> w.at, mem |-> w.mem]
  BY DEF IsCache
<1>1. r = [p |-> w.p, doc |-> d, at |-> at, mem |-> w.mem]
  <2> HIDE DEF at
  <2>1. r = [w EXCEPT !.doc = d, !.at = at]
    BY DEF NewActivation, at
  <2> HIDE DEF r
  <2> QED BY <1>0, <2>1
<1>2. "mine" \in Flags /\ "mine" \in Fields /\ "all" \in Fields /\ w.at \in [Fields -> SUBSET AnyIds]
  BY DEF IsCache, IsAt, Fields, Flags
<1>3. M \subseteq w.at.mine /\ w.at.mine \subseteq w.at.all /\ w.at.mine \subseteq AnyIds
  BY <1>2 DEF IsCache, IsAt
<1> HIDE DEF M
<1>4. at.mine = M /\ \A g \in Fields \ {"mine"} : at[g] = w.at[g]
  BY <1>2
<1>5. at \in [Fields -> SUBSET AnyIds]
  BY <1>2, <1>3
<1>6. at.all = w.at.all
  BY <1>2, <1>4
<1>7. \A g \in Flags : at[g] \subseteq at.all
  BY <1>2, <1>3, <1>4, <1>6 DEF IsCache, IsAt, Fields
<1> HIDE DEF at, r
<1>8. r.p = w.p /\ r.doc = d /\ r.mem = w.mem /\ r.at = at
  BY <1>1
<1>9. IsCache(r)
  BY <1>1, <1>5, <1>6, <1>7, <1>8 DEF IsCache, IsAt
<1> QED BY <1>4, <1>6, <1>8, <1>9 DEF r, M

(* A new id is of no instance that there is or that a report tells of.     *)
LEMMA NewIdIsNew ==
  ASSUME NEW w, IsCache(w), Room(w), reports \subseteq Ids, NEW part \in Parts
  PROVE  LET id == NewId(w, part) IN
         id \in AnyIds /\ id \notin w.at.all /\ OwnerOf(id) = w.p /\ PartOf(id) = part /\ id # None
<1> DEFINE used == {i[3] : i \in {j \in w.at.all \cup reports : j[1] = w.p /\ j[2] = part}}
           free == (1 .. MaxCopies + 2) \ used
           k == CHOOSE k \in free : \A j \in free : k <= j
           id == NewId(w, part)
<1>1. id = <<w.p, part, k>>
  BY DEF NewId
<1>2. PICK x \in Nat : \A i \in w.at.all : i[3] \in 1 .. MaxCopies \/ i[3] = x
  BY DEF Room
<1>3. \A i \in reports : i[3] \in 1 .. MaxCopies
  BY DEF Ids
<1>4. \A n \in used : n \in 1 .. MaxCopies \/ n = x
  BY <1>2, <1>3
<1>5. free # {}
  <2> HIDE DEF used
  <2>1. MaxCopies + 1 \notin used \/ MaxCopies + 2 \notin used
    BY <1>4, BoundsAssumption
  <2> QED BY <2>1, BoundsAssumption
<1>6. free \in SUBSET Nat
  BY BoundsAssumption
<1>7. k \in free
  <2> HIDE DEF free
  <2>1. \E m \in free : \A n \in free : m <= n
    BY <1>5, <1>6, LeastElement
  <2> QED BY <2>1
<1> HIDE DEF k
<1>8. k \in Nat /\ k \notin used
  BY <1>6, <1>7
<1>9. id \in AnyIds
  BY <1>1, <1>8 DEF AnyIds, IsCache
<1>10. id[1] = w.p /\ id[2] = part /\ id[3] = k
  BY <1>1
<1>11. id \notin w.at.all
  BY <1>8, <1>10
<1>12. id # None
  BY <1>9, PartsAssumption DEF AnyIds
<1> QED BY <1>9, <1>10, <1>11, <1>12 DEF OwnerOf, PartOf

(* A job begins with what it loads.                                        *)
LEMMA CacheOfIs ==
  ASSUME TypeOK, NEW p \in Playlists, NEW at, IsAt(at), at.all \subseteq Ids
  PROVE  LET w == CacheOf(p, at) IN
         /\ IsCache(w) /\ w.p = p /\ w.doc = playlist[p] /\ w.at = at
         /\ w.mem = LoadedOf(p, playlist[p], at)
         /\ Room(w) /\ \A i \in w.at.all : i[3] \in 1 .. MaxCopies
<1> DEFINE w == CacheOf(p, at)
           d == playlist[p]
<1>1. w = [p |-> p, doc |-> d, at |-> at, mem |-> LoadedOf(p, d, at)]
  BY DEF CacheOf
<1>2. Ids \subseteq AnyIds /\ \A i \in Ids : i[3] \in 1 .. MaxCopies
  BY BoundsAssumption DEF Ids, AnyIds
<1>3. IsDoc(d)
  BY <1>2 DEF TypeOK, IsDoc
<1>4. LoadedOf(p, d, at) \subseteq at.all
  BY DEF LoadedOf
<1> HIDE DEF w, d
<1>5. w.p = p /\ w.doc = d /\ w.at = at /\ w.mem = LoadedOf(p, d, at)
  BY <1>1
<1>6. IsCache(w)
  BY <1>1, <1>3, <1>4, <1>5 DEF IsCache
<1>7. \A i \in w.at.all : i[3] \in 1 .. MaxCopies
  BY <1>2, <1>5
<1>8. Room(w)
  <2>1. 0 \in Nat
    OBVIOUS
  <2> QED BY <1>7, <2>1 DEF Room
<1> QED BY <1>5, <1>6, <1>7, <1>8 DEF w, d

(* What is in the database has the form a cache has.                       *)
LEMMA InstIsAt ==
  ASSUME TypeOK
  PROVE  IsAt(inst) /\ inst.all \subseteq Ids
<1>1. inst \in [Fields -> SUBSET Ids] /\ "all" \in Fields /\ Flags \subseteq Fields
  BY DEF TypeOK, Fields
<1>2. Ids \subseteq AnyIds
  BY BoundsAssumption DEF Ids, AnyIds
<1>3. inst \in [Fields -> SUBSET AnyIds]
  BY <1>1, <1>2
<1>4. \A f \in Flags : inst[f] \subseteq inst.all
  BY DEF TypeOK
<1> QED BY <1>1, <1>3, <1>4 DEF IsAt

(* A new instance is made.                                                 *)
LEMMA InsertIs ==
  ASSUME NEW w, IsCache(w), NEW id \in AnyIds
  PROVE  LET r == Insert(w, id) IN
         /\ IsCache(r) /\ r.p = w.p /\ r.doc = w.doc /\ r.mem = w.mem \cup {id}
         /\ r.at.all = w.at.all \cup {id} /\ r.at.mine = w.at.mine \cup {id}
         /\ \A g \in Fields \ {"all", "mine", "rehearsal"} : r.at[g] = w.at[g]
<1> DEFINE at == [w.at EXCEPT !["all"] = w.at["all"] \cup {id}]
           loaded == [w EXCEPT !.mem = w.mem \cup {id}]
           there == Flag(loaded, "all", {id})
           made == Flag(there, "mine", {id})
           r == Insert(w, id)
<1>1. w = [p |-> w.p, doc |-> w.doc, at |-> w.at, mem |-> w.mem]
  BY DEF IsCache
<1>2. loaded = [p |-> w.p, doc |-> w.doc, at |-> w.at, mem |-> w.mem \cup {id}]
  BY <1>1
<1>3. there = [p |-> w.p, doc |-> w.doc, at |-> at, mem |-> w.mem \cup {id}]
  <2> HIDE DEF at, loaded
  <2>1. loaded.at = w.at
    BY <1>2
  <2>2. there = [loaded EXCEPT !.at = at]
    BY <2>1 DEF Flag, at
  <2> HIDE DEF there
  <2> QED BY <1>2, <2>2
<1>4. "all" \in Fields /\ w.at \in [Fields -> SUBSET AnyIds] /\ "mine" \in Flags /\ "rehearsal" \in Flags
  BY DEF IsCache, IsAt, Fields, Flags
<1>5. at.all = w.at.all \cup {id} /\ \A g \in Fields \ {"all"} : at[g] = w.at[g]
  BY <1>4
<1>6. at \in [Fields -> SUBSET AnyIds]
  BY <1>4
<1>7. \A g \in Flags : at[g] \subseteq at.all
  <2>1. \A g \in Flags : g \in Fields \ {"all"} /\ w.at[g] \subseteq w.at.all
    BY DEF IsCache, IsAt, Fields, Flags
  <2> HIDE DEF at
  <2> QED BY <1>5, <2>1
<1>8. w.mem \cup {id} \subseteq at.all
  <2>1. w.mem \subseteq w.at.all
    BY DEF IsCache
  <2> HIDE DEF at
  <2> QED BY <1>5, <2>1
<1> HIDE DEF at, loaded, there
<1>9. there.p = w.p /\ there.doc = w.doc /\ there.at = at /\ there.mem = w.mem \cup {id}
  BY <1>3
<1>10. IsCache(there)
  BY <1>3, <1>6, <1>7, <1>8, <1>9 DEF IsCache, IsAt
<1>11. {id} \in SUBSET there.at.all
  BY <1>5, <1>9
<1>12. /\ IsCache(made) /\ made.p = w.p /\ made.doc = w.doc /\ made.mem = w.mem \cup {id}
       /\ made.at.mine = w.at.mine \cup {id} /\ made.at.all = w.at.all \cup {id}
       /\ \A g \in Fields \ {"all", "mine"} : made.at[g] = w.at[g]
  <2>1. /\ IsCache(made) /\ made.p = there.p /\ made.doc = there.doc /\ made.mem = there.mem
        /\ made.at["mine"] = there.at["mine"] \cup {id} /\ made.at.all = there.at.all
        /\ \A g \in Fields \ {"mine"} : made.at[g] = there.at[g]
    BY <1>4, <1>10, <1>11, FlagIs
  <2>2. "mine" \in Fields \ {"all"}
    BY DEF Fields, Flags
  <2> HIDE DEF made
  <2> QED BY <1>5, <1>9, <2>1, <2>2
<1> HIDE DEF made
<1>13. {id} \in SUBSET made.at.all
  BY <1>12
<1>14. r = IF w.doc.rehearsal THEN Flag(made, "rehearsal", {id}) ELSE made
  BY DEF Insert, made, there, loaded
<1> HIDE DEF r
<1>15. CASE w.doc.rehearsal
  <2> DEFINE l == Flag(made, "rehearsal", {id})
  <2>1. /\ IsCache(l) /\ l.p = made.p /\ l.doc = made.doc /\ l.mem = made.mem
        /\ l.at.all = made.at.all
        /\ \A g \in Fields \ {"rehearsal"} : l.at[g] = made.at[g]
    BY <1>4, <1>12, <1>13, FlagIs
  <2>2. r = l
    BY <1>14, <1>15
  <2>3. "mine" \in Fields \ {"rehearsal"}
    BY DEF Fields, Flags
  <2> HIDE DEF l
  <2> QED BY <1>12, <2>1, <2>2, <2>3 DEF r
<1>16. CASE ~ w.doc.rehearsal
  BY <1>12, <1>14, <1>16 DEF r
<1> QED BY <1>15, <1>16

(* What a save leaves.                                                     *)
LEMMA SaveIs ==
  ASSUME TypeOK, NEW w, IsCache(w), NEW unheard, SaveAfter(w, unheard)
  PROVE  /\ playlist' = [playlist EXCEPT ![w.p] = w.doc]
         /\ playlist' \in [Playlists -> [active : BOOLEAN, rehearsal : BOOLEAN, loop : Loops,
                                         hold : HoldStates, manual : BOOLEAN,
                                         prev : Ids \cup {None}, cur : Ids \cup {None},
                                         next : Ids \cup {None}]]
         /\ inst' \in [Fields -> SUBSET Ids]
         /\ \A f \in Fields \ {"started", "rehearsal"} : inst'[f] = w.at[f] \cap Kept(w)
         /\ \A f \in Flags : inst'[f] \subseteq inst'.all
         /\ reports' \subseteq Ids
<1> DEFINE left == Among(w.at, Kept(w))
           S == {i \in left.started : OwnerOf(i) = w.p => i = w.doc.cur}
           R == {i \in left.rehearsal : OwnerOf(i) = w.p => i \in Selected(w.doc)}
           after == [left EXCEPT !.started = S, !.rehearsal = R]
<1>1. /\ Kept(w) \cup Selected(w.doc) \subseteq Ids
      /\ reports' = unheard \cap Kept(w)
      /\ playlist' = [playlist EXCEPT ![w.p] = w.doc]
      /\ inst' = after
  BY DEF SaveAfter
<1>2. w.at \in [Fields -> SUBSET AnyIds] /\ \A g \in Fields : w.at[g] \subseteq w.at.all
  BY DEF IsCache, IsAt, Fields
<1>3. left = [f \in Fields |-> w.at[f] \cap Kept(w)]
  BY <1>2 DEF Among
<1>4. "started" \in Flags /\ "rehearsal" \in Flags /\ "all" \in Fields \ {"started", "rehearsal"}
  BY DEF Fields, Flags
<1>5. Flags \subseteq Fields
  BY DEF Fields
<1>6. S \subseteq left["started"] /\ R \subseteq left["rehearsal"]
  OBVIOUS
<1> HIDE DEF left, S, R
<1>7. /\ \A f \in Fields \ {"started", "rehearsal"} : after[f] = left[f]
      /\ after["started"] = S /\ after["rehearsal"] = R /\ DOMAIN after = Fields
  BY <1>3, <1>4, <1>5
<1>8. \A f \in Fields : after[f] \subseteq w.at[f] \cap Kept(w)
  BY <1>3, <1>4, <1>5, <1>6, <1>7
<1>9. after = [f \in Fields |-> after[f]]
  BY <1>3
<1> HIDE DEF after
<1>10. after \in [Fields -> SUBSET Ids]
  BY <1>1, <1>8, <1>9
<1>11. \A f \in Fields \ {"started", "rehearsal"} : after[f] = w.at[f] \cap Kept(w)
  BY <1>3, <1>7
<1>12. \A f \in Flags : after[f] \subseteq after.all
  BY <1>2, <1>4, <1>5, <1>8, <1>11
<1>13. w.doc \in [active : BOOLEAN, rehearsal : BOOLEAN, loop : Loops,
                  hold : HoldStates, manual : BOOLEAN,
                  prev : Ids \cup {None}, cur : Ids \cup {None}, next : Ids \cup {None}]
  <2>1. IsDoc(w.doc)
    BY DEF IsCache
  <2>2. w.doc.prev \in Ids \cup {None} /\ w.doc.cur \in Ids \cup {None} /\ w.doc.next \in Ids \cup {None}
    BY <1>1 DEF Selected
  <2> QED BY <2>1, <2>2 DEF IsDoc
<1>14. playlist' \in [Playlists -> [active : BOOLEAN, rehearsal : BOOLEAN, loop : Loops,
                                    hold : HoldStates, manual : BOOLEAN,
                                    prev : Ids \cup {None}, cur : Ids \cup {None},
                                    next : Ids \cup {None}]]
  BY <1>1, <1>13 DEF TypeOK, IsCache
<1> QED BY <1>1, <1>10, <1>11, <1>12, <1>14

(* None is no instance.                                                    *)
LEMMA NoneIsNoId == None \notin AnyIds
BY PartsAssumption DEF AnyIds

(* What is on air, and what is next, is in no window.                      *)
LEMMA WindowIs ==
  ASSUME NEW w
  PROVE  Window(w) \subseteq w.mem /\ w.doc.cur \notin Window(w) /\ w.doc.next \notin Window(w)
<1>1. Window(w) \subseteq w.mem \ {Current(w), Nexted(w)}
  BY DEF Window
<1>2. w.doc.cur \in w.mem => Current(w) = w.doc.cur
  BY DEF Current, Find
<1>3. w.doc.next \in w.mem => Nexted(w) = w.doc.next
  BY DEF Nexted, Find
<1> QED BY <1>1, <1>2, <1>3

(***************************************************************************)
(* setNextPart.                                                            *)
(***************************************************************************)

(* The instance of the part that becomes next: the one that is next        *)
(* already, or one that nothing else is.                                   *)
LEMMA ChoiceIs ==
  ASSUME NEW w, IsCache(w), Room(w), reports \subseteq Ids,
         NEW part \in Parts \cup {NoPart}, NEW manual \in BOOLEAN
  PROVE  \E id, made :
           /\ id \in AnyIds \cup {None}
           /\ SetNext(w, part, manual) =
                LET chosen == WithDoc(made, [made.doc EXCEPT !.next = id, !.manual = manual])
                    single == Flag(chosen, "reset", Earlier(chosen, part))
                IN ResetOrphans(ResetWindow(Prune(single)))
           /\ IsCache(made) /\ made.p = w.p /\ made.doc = w.doc
           /\ part = NoPart => id = None /\ made = w
           /\ part # NoPart => id \in AnyIds /\ PartOf(id) = part
           /\ id # None => \/ id = w.doc.next /\ id \in w.mem /\ made = w
                           \/ /\ id \notin w.at.all /\ OwnerOf(id) = w.p
                              /\ made.mem = w.mem \cup {id} /\ made.at.all = w.at.all \cup {id}
                              /\ made.at.mine = w.at.mine \cup {id}
                              /\ made.at.taken = w.at.taken /\ made.at.reset = w.at.reset
<1> DEFINE again == Reusable(w, part)
           id == IF part = NoPart THEN None
                 ELSE IF again = {} THEN NewId(w, part) ELSE CHOOSE i \in again : TRUE
           made == IF part = NoPart \/ again # {} THEN w ELSE Insert(w, id)
<1>1. SetNext(w, part, manual) =
        LET chosen == WithDoc(made, [made.doc EXCEPT !.next = id, !.manual = manual])
            single == Flag(chosen, "reset", Earlier(chosen, part))
        IN ResetOrphans(ResetWindow(Prune(single)))
  BY DEF SetNext
<1> HIDE DEF again
<1>2. CASE part = NoPart
  <2>1. id = None /\ made = w
    BY <1>2
  <2>2. None \in AnyIds \cup {None}
    OBVIOUS
  <2> HIDE DEF id, made
  <2> QED BY <1>1, <1>2, <2>1, <2>2
<1>3. CASE part # NoPart /\ again # {}
  <2>1. id \in again /\ made = w
    BY <1>3
  <2> HIDE DEF id, made
  <2>2. id = Nexted(w) /\ id # None /\ PartOf(id) = part
    BY <2>1 DEF again, Reusable
  <2>3. id = w.doc.next /\ id \in w.mem
    BY <2>2 DEF Nexted, Find
  <2>4. id \in AnyIds
    BY <2>3 DEF IsCache, IsAt, Fields
  <2> QED BY <1>1, <1>3, <2>1, <2>2, <2>3, <2>4
<1>4. CASE part # NoPart /\ again = {}
  <2>1. id = NewId(w, part) /\ made = Insert(w, id)
    BY <1>4
  <2>2. part \in Parts
    BY <1>4
  <2> HIDE DEF id, made
  <2>3. id \in AnyIds /\ id \notin w.at.all /\ OwnerOf(id) = w.p /\ PartOf(id) = part /\ id # None
    BY <2>1, <2>2, NewIdIsNew
  <2>4. /\ IsCache(made) /\ made.p = w.p /\ made.doc = w.doc /\ made.mem = w.mem \cup {id}
        /\ made.at.all = w.at.all \cup {id} /\ made.at.mine = w.at.mine \cup {id}
        /\ \A g \in Fields \ {"all", "mine", "rehearsal"} : made.at[g] = w.at[g]
    BY <2>1, <2>3, InsertIs
  <2>5. made.at.taken = w.at.taken /\ made.at.reset = w.at.reset
    <3>1. "taken" \in Fields \ {"all", "mine", "rehearsal"} /\ "reset" \in Fields \ {"all", "mine", "rehearsal"}
      BY DEF Fields, Flags
    <3> QED BY <2>4, <3>1
  <2> QED BY <1>1, <1>4, <2>3, <2>4, <2>5
<1> QED BY <1>2, <1>3, <1>4

(* What setting the next part does, whatever it is and whatever was.       *)
LEMMA SetNextIs ==
  ASSUME NEW w, IsCache(w), Room(w), reports \subseteq Ids,
         NEW part \in Parts \cup {NoPart}, NEW manual \in BOOLEAN
  PROVE  LET r == SetNext(w, part, manual)
             id == r.doc.next
             cur == w.doc.cur
         IN /\ IsCache(r) /\ r.p = w.p
            /\ id \in AnyIds \cup {None}
            /\ r.doc.active = w.doc.active /\ r.doc.loop = w.doc.loop /\ r.doc.hold = w.doc.hold
            /\ r.doc.prev = w.doc.prev /\ r.doc.cur = cur
            /\ part = NoPart => id = None
            /\ part # NoPart => id \in AnyIds /\ id \in r.mem /\ PartOf(id) = part
            /\ id # None => \/ id = w.doc.next /\ id \in w.mem
                            \/ id \notin w.at.all /\ id \in r.at.mine
            /\ r.at.taken = w.at.taken
            /\ r.at.all \subseteq w.at.all \cup {id}
            /\ cur \in w.at.all => cur \in r.at.all
            /\ \A i \in w.mem \cap r.at.all : i \in w.at.taken \cup {cur, id}
            /\ r.at.reset \cap {cur, id} \subseteq w.at.reset
            /\ \A i \in r.at.all : i \in w.at.reset => i \in r.at.reset
            /\ \A i \in r.at.mine : i = id \/ i \in w.at.mine
            /\ \A i \in r.at.all : i \in w.at.mine => i \in r.at.mine
            /\ id \in w.at.all /\ id \in r.at.mine => id \in w.at.mine
<1>1. PICK id, made :
           /\ id \in AnyIds \cup {None}
           /\ SetNext(w, part, manual) =
                LET chosen == WithDoc(made, [made.doc EXCEPT !.next = id, !.manual = manual])
                    single == Flag(chosen, "reset", Earlier(chosen, part))
                IN ResetOrphans(ResetWindow(Prune(single)))
           /\ IsCache(made) /\ made.p = w.p /\ made.doc = w.doc
           /\ part = NoPart => id = None /\ made = w
           /\ part # NoPart => id \in AnyIds /\ PartOf(id) = part
           /\ id # None => \/ id = w.doc.next /\ id \in w.mem /\ made = w
                           \/ /\ id \notin w.at.all /\ OwnerOf(id) = w.p
                              /\ made.mem = w.mem \cup {id} /\ made.at.all = w.at.all \cup {id}
                              /\ made.at.mine = w.at.mine \cup {id}
                              /\ made.at.taken = w.at.taken /\ made.at.reset = w.at.reset
  BY ChoiceIs
<1> DEFINE d == [w.doc EXCEPT !.next = id, !.manual = manual]
           chosen == WithDoc(made, d)
           single == Flag(chosen, "reset", Earlier(chosen, part))
           pruned == Prune(single)
           window == ResetWindow(pruned)
           r == ResetOrphans(window)
<1>2. SetNext(w, part, manual) = r
  BY <1>1
<1>3. /\ IsDoc(d) /\ d.next = id
      /\ d.active = w.doc.active /\ d.loop = w.doc.loop /\ d.hold = w.doc.hold
      /\ d.prev = w.doc.prev /\ d.cur = w.doc.cur
  BY <1>1 DEF IsCache, IsDoc
<1>4. "reset" \in Flags /\ {"all", "mine", "taken"} \subseteq Fields \ {"reset"} /\ "reset" \in Fields
  BY DEF Flags, Fields
<1> HIDE DEF d
<1>5. /\ IsCache(chosen) /\ chosen.p = w.p /\ chosen.doc = d /\ chosen.mem = made.mem
      /\ chosen.at = made.at
  BY <1>1, <1>3, WithDocIs
<1> HIDE DEF chosen
<1>6. Earlier(chosen, part) \in SUBSET (chosen.at.all \ Selected(d))
  BY <1>5 DEF Earlier
<1>7. /\ IsCache(single) /\ single.p = w.p /\ single.doc = d /\ single.mem = made.mem
      /\ single.at.reset = made.at.reset \cup Earlier(chosen, part)
      /\ single.at.all = made.at.all /\ single.at.mine = made.at.mine /\ single.at.taken = made.at.taken
  <2> DEFINE E == Earlier(chosen, part)
  <2>1. E \in SUBSET chosen.at.all
    BY <1>6
  <2> HIDE DEF E
  <2>2. /\ IsCache(Flag(chosen, "reset", E)) /\ Flag(chosen, "reset", E).p = chosen.p
        /\ Flag(chosen, "reset", E).doc = chosen.doc /\ Flag(chosen, "reset", E).mem = chosen.mem
        /\ Flag(chosen, "reset", E).at["reset"] = chosen.at["reset"] \cup E
        /\ Flag(chosen, "reset", E).at.all = chosen.at.all
        /\ \A g \in Fields \ {"reset"} : Flag(chosen, "reset", E).at[g] = chosen.at[g]
    BY <1>4, <1>5, <2>1, FlagIs
  <2>3. single = Flag(chosen, "reset", E)
    BY DEF E
  <2> HIDE DEF single
  <2> QED BY <1>4, <1>5, <2>2, <2>3 DEF E
<1> HIDE DEF single
<1> DEFINE gone == Untaken(single)
<1>8. gone = made.mem \ (made.at.taken \cup {w.doc.cur, id})
  BY <1>3, <1>7 DEF Untaken
<1>9. /\ IsCache(pruned) /\ pruned.p = w.p /\ pruned.doc = d /\ pruned.mem = made.mem \ gone
      /\ pruned.at.all = made.at.all \ gone /\ pruned.at.mine = made.at.mine \ gone
      /\ pruned.at.taken = made.at.taken \ gone
      /\ pruned.at.reset = (made.at.reset \cup Earlier(chosen, part)) \ gone
  <2>1. pruned = Drop(single, gone)
    BY DEF Prune
  <2> HIDE DEF pruned, gone
  <2>2. /\ IsCache(pruned) /\ pruned.p = single.p /\ pruned.doc = single.doc
        /\ pruned.mem = single.mem \ gone /\ pruned.at.all = single.at.all \ gone
        /\ \A g \in Fields : pruned.at[g] = single.at[g] \ gone
    BY <1>7, <2>1, DropIs
  <2> QED BY <1>4, <1>7, <2>2
<1> HIDE DEF pruned, gone
<1> DEFINE W == Window(pruned)
<1>10. W \subseteq pruned.mem /\ w.doc.cur \notin W /\ id \notin W
  BY <1>3, <1>9, WindowIs
<1> HIDE DEF W
<1>11. /\ IsCache(window) /\ window.p = w.p /\ window.doc = d /\ window.mem = pruned.mem
       /\ window.at.reset = pruned.at.reset \cup W
       /\ window.at.all = pruned.at.all /\ window.at.mine = pruned.at.mine
       /\ window.at.taken = pruned.at.taken
  <2>1. window = Flag(pruned, "reset", W)
    BY DEF ResetWindow, W
  <2>2. W \in SUBSET pruned.at.all
    BY <1>9, <1>10 DEF IsCache
  <2> HIDE DEF window
  <2>3. /\ IsCache(window) /\ window.p = pruned.p /\ window.doc = pruned.doc /\ window.mem = pruned.mem
        /\ window.at["reset"] = pruned.at["reset"] \cup W /\ window.at.all = pruned.at.all
        /\ \A g \in Fields \ {"reset"} : window.at[g] = pruned.at[g]
    BY <1>4, <1>9, <2>1, <2>2, FlagIs
  <2> QED BY <1>4, <1>9, <2>3
<1> HIDE DEF window
<1> DEFINE O == Orphans(window)
<1>12. O \subseteq window.mem /\ w.doc.cur \notin O /\ id \notin O
  BY <1>3, <1>11 DEF Orphans
<1> HIDE DEF O
<1>13. /\ IsCache(r) /\ r.p = w.p /\ r.doc = d /\ r.mem = window.mem
       /\ r.at.reset = window.at.reset \cup O
       /\ r.at.all = window.at.all /\ r.at.mine = window.at.mine /\ r.at.taken = window.at.taken
  <2>1. r = Flag(window, "reset", O)
    BY DEF ResetOrphans, O
  <2>2. O \in SUBSET window.at.all
    BY <1>11, <1>12 DEF IsCache
  <2> HIDE DEF r
  <2>3. /\ IsCache(r) /\ r.p = window.p /\ r.doc = window.doc /\ r.mem = window.mem
        /\ r.at["reset"] = window.at["reset"] \cup O /\ r.at.all = window.at.all
        /\ \A g \in Fields \ {"reset"} : r.at[g] = window.at[g]
    BY <1>4, <1>11, <2>1, <2>2, FlagIs
  <2> QED BY <1>4, <1>11, <2>3
<1> HIDE DEF r
<1>14. /\ r.mem = made.mem \ gone /\ r.at.all = made.at.all \ gone
       /\ r.at.mine = made.at.mine \ gone /\ r.at.taken = made.at.taken \ gone
       /\ r.at.reset = ((made.at.reset \cup Earlier(chosen, part)) \ gone) \cup W \cup O
  BY <1>9, <1>11, <1>13
<1>15. /\ made.at.taken = w.at.taken /\ made.at.reset = w.at.reset
       /\ w.mem \subseteq made.mem /\ w.at.all \subseteq made.at.all /\ w.at.mine \subseteq made.at.mine
       /\ made.at.all \subseteq w.at.all \cup {id} /\ made.at.mine \subseteq w.at.mine \cup {id}
  <2>1. \/ made = w
        \/ /\ made.mem = w.mem \cup {id} /\ made.at.all = w.at.all \cup {id}
           /\ made.at.mine = w.at.mine \cup {id}
           /\ made.at.taken = w.at.taken /\ made.at.reset = w.at.reset
    BY <1>1, NoneIsNoId
  <2> QED BY <2>1
<1>16. /\ r.doc.next = id
       /\ r.doc.active = w.doc.active /\ r.doc.loop = w.doc.loop /\ r.doc.hold = w.doc.hold
       /\ r.doc.prev = w.doc.prev /\ r.doc.cur = w.doc.cur
  BY <1>3, <1>13
<1>17. r.at.taken = w.at.taken
  BY <1>8, <1>14, <1>15
<1>18. part # NoPart => id # None /\ id \in made.mem
  BY <1>1, NoneIsNoId
<1>19. part # NoPart => id \in AnyIds /\ id \in r.mem /\ PartOf(id) = part
  BY <1>1, <1>8, <1>14, <1>18
<1>20. id # None => \/ id = w.doc.next /\ id \in w.mem
                    \/ id \notin w.at.all /\ id \in r.at.mine
  BY <1>1, <1>8, <1>14
<1>21. w.doc.cur \in w.at.all => w.doc.cur \in r.at.all
  BY <1>8, <1>14, <1>15
<1>22. \A i \in w.mem \cap r.at.all : i \in w.at.taken \cup {w.doc.cur, id}
  BY <1>8, <1>14, <1>15
<1>23. r.at.reset \cap {w.doc.cur, id} \subseteq w.at.reset
  <2>1. w.doc.cur \notin Earlier(chosen, part) /\ id \notin Earlier(chosen, part)
    <3>1. None \notin chosen.at.all
      BY <1>5, NoneIsNoId DEF IsCache, IsAt, Fields
    <3> QED BY <1>3, <1>6, <3>1 DEF Selected
  <2> QED BY <1>10, <1>12, <1>14, <1>15, <2>1
<1>24. \A i \in r.at.all : i \in w.at.reset => i \in r.at.reset
  BY <1>14, <1>15
<1>25. \A i \in r.at.mine : i = id \/ i \in w.at.mine
  BY <1>14, <1>15
<1>26. \A i \in r.at.all : i \in w.at.mine => i \in r.at.mine
  BY <1>14, <1>15
<1>27. r.at.all \subseteq w.at.all \cup {id}
  BY <1>14, <1>15
<1>28. id \in w.at.all /\ id \in r.at.mine => id \in w.at.mine
  BY <1>1, <1>14, NoneIsNoId DEF IsCache, IsAt, Fields
<1> QED BY <1>1, <1>2, <1>13, <1>16, <1>17, <1>19, <1>20, <1>21, <1>22, <1>23, <1>24, <1>25, <1>26, <1>27, <1>28

(* What is on air, and what is held, stays.                                *)
LEMMA SetNextKeeps ==
  ASSUME NEW w, IsCache(w), Room(w), reports \subseteq Ids,
         NEW part \in Parts \cup {NoPart}, NEW manual \in BOOLEAN
  PROVE  LET r == SetNext(w, part, manual) IN
         /\ IsCache(r) /\ r.p = w.p
         /\ r.doc.active = w.doc.active /\ r.doc.cur = w.doc.cur /\ r.doc.hold = w.doc.hold
<1>1. IsCache(SetNext(w, part, manual)) /\ SetNext(w, part, manual).p = w.p
  BY SetNextIs
<1>2. /\ SetNext(w, part, manual).doc.active = w.doc.active
      /\ SetNext(w, part, manual).doc.cur = w.doc.cur
  BY SetNextIs
<1>3. SetNext(w, part, manual).doc.hold = w.doc.hold
  BY SetNextIs
<1> QED BY <1>1, <1>2, <1>3

(* With room for two more, there is room after the first.                  *)
LEMMA RoomAfter ==
  ASSUME NEW w, IsCache(w), \A i \in w.at.all : i[3] \in 1 .. MaxCopies, reports \subseteq Ids,
         NEW part \in Parts \cup {NoPart}, NEW manual \in BOOLEAN
  PROVE  Room(w) /\ Room(SetNext(w, part, manual))
<1> DEFINE r == SetNext(w, part, manual)
           id == r.doc.next
<1>1. Room(w)
  <2>1. 0 \in Nat
    OBVIOUS
  <2> QED BY <2>1 DEF Room
<1>2. r.at.all \subseteq w.at.all \cup {id} /\ id \in AnyIds \cup {None} /\ IsCache(r)
  BY <1>1, SetNextIs
<1> HIDE DEF r, id
<1>3. CASE id \in AnyIds
  <2>1. id[3] \in Nat
    BY <1>3 DEF AnyIds
  <2>2. \A i \in r.at.all : i[3] \in 1 .. MaxCopies \/ i[3] = id[3]
    BY <1>2
  <2>3. Room(r)
    BY <2>1, <2>2 DEF Room
  <2> QED BY <1>1, <2>3 DEF r
<1>4. CASE id = None
  <2>1. None \notin r.at.all
    BY <1>2, NoneIsNoId DEF IsCache, IsAt, Fields
  <2>2. \A i \in r.at.all : i[3] \in 1 .. MaxCopies
    BY <1>2, <1>4, <2>1
  <2>3. 0 \in Nat
    OBVIOUS
  <2>4. Room(r)
    BY <2>2, <2>3 DEF Room
  <2> QED BY <1>1, <2>4 DEF r
<1> QED BY <1>2, <1>3, <1>4

(***************************************************************************)
(* One playlist.  The reset of a playlist reaches the instances of every   *)
(* other one, so that with two of them what follows does not hold.         *)
(***************************************************************************)

OnePlaylist == \A p, q \in Playlists : p = q

(* The invariant of a document and of the instances there are.             *)
Sound(d, at) ==
  /\ d.active \/ (Selected(d) = {} /\ d.hold = "none")
  /\ d.cur # None => d.cur \in (at.taken \cap at.mine) \ at.reset
  /\ d.next # None => d.next \notin {d.cur, d.prev} \cup at.taken
  /\ d.prev # None => d.prev \in at.taken /\ d.prev # d.cur
  /\ Selected(d) \subseteq at.all
  /\ d.hold = "pending" => PartOf(d.cur) \in HoldFrom /\ PartOf(d.next) \in HoldTo
  /\ d.hold = "active" => PartOf(d.prev) \in HoldFrom /\ PartOf(d.cur) \in HoldTo
  /\ d.next \in at.mine => d.next \notin at.reset
  /\ d.loop => \A i \in at.mine \ at.reset :
                 i = d.next \/ (d.cur # None /\ SegOf(i) = SegOf(d.cur))

(* It is the invariant of the system.                                      *)
LEMMA SoundIs ==
  ASSUME TypeOK, OnePlaylist, SelectionInv, NEW p \in Playlists
  PROVE  Sound(playlist[p], inst)
<1>1. /\ playlist[p].active \/ (Selected(playlist[p]) = {} /\ playlist[p].hold = "none")
      /\ playlist[p].cur # None => playlist[p].cur \in inst.taken \ inst.reset
      /\ playlist[p].next # None => playlist[p].next \notin {playlist[p].cur, playlist[p].prev} \cup inst.taken
      /\ playlist[p].prev # None => playlist[p].prev # playlist[p].cur
  BY DEF SelectionInv, SelectionIsSound, Sel
<1>2. Selected(playlist[p]) \subseteq inst.all
  BY DEF SelectionInv, SelectedExist, Sel
<1>3. /\ playlist[p].hold = "pending" => PartOf(playlist[p].cur) \in HoldFrom /\ PartOf(playlist[p].next) \in HoldTo
      /\ playlist[p].hold = "active" => PartOf(playlist[p].prev) \in HoldFrom /\ PartOf(playlist[p].cur) \in HoldTo
  BY DEF SelectionInv, HoldSpansItsParts
<1>4. /\ playlist[p].cur # None => playlist[p].cur \in inst.mine
      /\ playlist[p].prev # None => playlist[p].prev \in inst.taken
  BY DEF SelectionInv, OnAirIsFound
<1>5. playlist[p].next \in inst.mine => playlist[p].next \notin inst.reset
  BY DEF SelectionInv, NextIsUnused
<1>6. \A i \in inst.mine : OwnerOf(i) = p
  <2>1. inst.mine \subseteq Ids
    BY DEF TypeOK, Flags
  <2>2. \A i \in Ids : OwnerOf(i) \in Playlists
    BY DEF Ids, OwnerOf
  <2> QED BY <2>1, <2>2 DEF OnePlaylist
<1>7. playlist[p].loop => \A i \in inst.mine \ inst.reset :
        i = playlist[p].next \/ (playlist[p].cur # None /\ SegOf(i) = SegOf(playlist[p].cur))
  BY <1>6 DEF SelectionInv, LeftIsAround
<1> QED BY <1>1, <1>2, <1>3, <1>4, <1>5, <1>7 DEF Sound

(* What a sound cache saves is sound.                                      *)
LEMMA SavedIsSound ==
  ASSUME TypeOK, OnePlaylist, NEW w, IsCache(w), Sound(w.doc, w.at),
         NEW unheard, SaveAfter(w, unheard), PartsStay'
  PROVE  SelectionInv'
<1>1. playlist' = [playlist EXCEPT ![w.p] = w.doc] /\ w.p \in Playlists
  BY SaveIs DEF IsCache
<1>2. /\ inst'.all = w.at.all \cap Kept(w) /\ inst'.mine = w.at.mine \cap Kept(w)
      /\ inst'.taken = w.at.taken \cap Kept(w) /\ inst'.reset = w.at.reset \cap Kept(w)
  <2>1. {"all", "mine", "taken", "reset"} \subseteq Fields \ {"started", "rehearsal"}
    BY DEF Fields, Flags
  <2> QED BY <2>1, SaveIs
<1>3. Selected(w.doc) \subseteq Kept(w)
  BY DEF Kept, Sound
<1>4. \A p \in Playlists : playlist'[p] = w.doc
  BY <1>1 DEF OnePlaylist, TypeOK
<1>5. /\ w.doc.cur # None => w.doc.cur \in Kept(w)
      /\ w.doc.next # None => w.doc.next \in Kept(w)
      /\ w.doc.prev # None => w.doc.prev \in Kept(w)
  BY <1>3 DEF Selected
<1>6. SelectionIsSound'
  BY <1>2, <1>4, <1>5 DEF SelectionIsSound, Sel, Sound
<1>7. SelectedExist'
  BY <1>2, <1>3, <1>4 DEF SelectedExist, Sel, Sound
<1>8. HoldSpansItsParts'
  BY <1>4 DEF HoldSpansItsParts, Sound
<1>9. OnAirIsFound'
  BY <1>2, <1>4, <1>5 DEF OnAirIsFound, Sound
<1>10. NextIsUnused'
  BY <1>2, <1>4 DEF NextIsUnused, Sound
<1>11. LeftIsAround'
  BY <1>2, <1>4 DEF LeftIsAround, Sound
<1> QED BY <1>6, <1>7, <1>8, <1>9, <1>10, <1>11 DEF SelectionInv

(* What setNextPart relies on: what is on air was taken, in this           *)
(* activation, and not reset; when it is used again, what was next was not *)
(* taken; and what is left of a segment that is over was loaded, and never *)
(* taken.                                                                  *)
Settled(w, part) ==
  LET d == w.doc
      at == w.at
  IN /\ d.cur # None => d.cur \in (at.taken \cap at.mine) \ at.reset
     /\ d.prev # None => d.prev \in at.taken /\ d.prev # d.cur
     /\ d.next \in w.mem /\ PartOf(d.next) = part =>
          d.next \notin at.taken /\ (d.next \in at.mine => d.next \notin at.reset)
     /\ d.active \/ (d.prev = None /\ d.cur = None /\ d.hold = "none" /\ part = NoPart)
     /\ d.hold # "pending"
     /\ d.hold = "active" => PartOf(d.prev) \in HoldFrom /\ PartOf(d.cur) \in HoldTo
     /\ d.loop => \A i \in at.mine \ at.reset :
          i \in w.mem \ at.taken \/ (d.cur # None /\ SegOf(i) = SegOf(d.cur))

(* Then what it leaves is sound.                                           *)
LEMMA SetNextIsSound ==
  ASSUME NEW w, IsCache(w), Room(w), reports \subseteq Ids,
         NEW part \in Parts \cup {NoPart}, NEW manual \in BOOLEAN, Settled(w, part)
  PROVE  LET r == SetNext(w, part, manual) IN Sound(r.doc, r.at)
<1> DEFINE r == SetNext(w, part, manual)
           id == r.doc.next
           cur == w.doc.cur
<1>1. /\ IsCache(r) /\ r.p = w.p
      /\ id \in AnyIds \cup {None}
      /\ part = NoPart => id = None
      /\ part # NoPart => id \in AnyIds /\ id \in r.mem /\ PartOf(id) = part
      /\ id # None => \/ id = w.doc.next /\ id \in w.mem
                      \/ id \notin w.at.all /\ id \in r.at.mine
      /\ r.at.taken = w.at.taken
      /\ cur \in w.at.all => cur \in r.at.all
      /\ \A i \in w.mem \cap r.at.all : i \in w.at.taken \cup {cur, id}
      /\ r.at.reset \cap {cur, id} \subseteq w.at.reset
      /\ \A i \in r.at.all : i \in w.at.reset => i \in r.at.reset
      /\ \A i \in r.at.mine : i = id \/ i \in w.at.mine
      /\ \A i \in r.at.all : i \in w.at.mine => i \in r.at.mine
      /\ id \in w.at.all /\ id \in r.at.mine => id \in w.at.mine
  BY SetNextIs
<1>2. /\ r.doc.active = w.doc.active /\ r.doc.loop = w.doc.loop
      /\ r.doc.hold = w.doc.hold /\ r.doc.prev = w.doc.prev /\ r.doc.cur = cur
  BY SetNextIs
<1>3. id = r.doc.next /\ cur = w.doc.cur
  OBVIOUS
<1> HIDE DEF r, id, cur
<1>4. /\ w.at.taken \subseteq w.at.all /\ r.at.taken \subseteq r.at.all /\ r.at.mine \subseteq r.at.all
      /\ w.at.mine \subseteq w.at.all /\ w.at.reset \subseteq w.at.all
      /\ w.mem \subseteq w.at.all /\ r.mem \subseteq r.at.all
      /\ None \notin w.at.all /\ None \notin r.at.all
  BY <1>1, NoneIsNoId DEF IsCache, IsAt, Fields, Flags
<1>5. cur # None => cur \in (r.at.taken \cap r.at.mine) \ r.at.reset
  BY <1>1, <1>3, <1>4 DEF Settled
<1>6. id # None => id \notin w.at.taken /\ part # NoPart
  BY <1>1, <1>3, <1>4 DEF Settled
<1>7. id # None => id \notin {cur, w.doc.prev} \cup r.at.taken
  BY <1>1, <1>3, <1>6 DEF Settled
<1>8. w.doc.prev # None => w.doc.prev \in r.at.taken /\ w.doc.prev # cur
  BY <1>1, <1>3 DEF Settled
<1>9. r.doc.active \/ (r.doc.prev = None /\ cur = None /\ id = None /\ r.doc.hold = "none")
  BY <1>1, <1>2, <1>3 DEF Settled
<1>10. Selected(r.doc) \subseteq r.at.all
  BY <1>1, <1>2, <1>3, <1>4, <1>5, <1>6, <1>8 DEF Selected
<1>11. /\ r.doc.hold # "pending"
       /\ r.doc.hold = "active" => PartOf(r.doc.prev) \in HoldFrom /\ PartOf(r.doc.cur) \in HoldTo
  BY <1>2, <1>3 DEF Settled
<1>12. id \in r.at.mine => id \notin r.at.reset
  <2> SUFFICES ASSUME id \in r.at.mine, id \in r.at.reset PROVE FALSE
    OBVIOUS
  <2>1. id \in w.at.reset /\ id # None
    BY <1>1, <1>4
  <2>2. id = w.doc.next /\ id \in w.mem /\ part # NoPart /\ PartOf(id) = part /\ id \in w.at.mine
    BY <1>1, <1>4, <1>6, <2>1
  <2> QED BY <2>1, <2>2 DEF Settled
<1>13. ASSUME w.doc.loop, NEW i \in r.at.mine \ r.at.reset
       PROVE  i = id \/ (cur # None /\ SegOf(i) = SegOf(cur))
  <2> SUFFICES ASSUME i # id PROVE cur # None /\ SegOf(i) = SegOf(cur)
    OBVIOUS
  <2>1. i \in w.at.mine \ w.at.reset /\ i \in r.at.all
    BY <1>1, <1>4
  <2>2. CASE cur # None /\ SegOf(i) = SegOf(cur)
    BY <2>2
  <2>3. CASE i \in w.mem \ w.at.taken
    BY <1>1, <1>4, <2>1, <2>3
  <2> QED BY <1>3, <1>13, <2>1, <2>2, <2>3 DEF Settled
<1>14. Sound(r.doc, r.at)
  BY <1>2, <1>3, <1>5, <1>7, <1>8, <1>9, <1>10, <1>11, <1>12, <1>13 DEF Sound, Selected
<1> QED BY <1>14 DEF r

(***************************************************************************)
(* The jobs' steps on their cache.                                         *)
(***************************************************************************)

Bounded(w) == \A i \in w.at.all : i[3] \in 1 .. MaxCopies

(* The part that follows an instance is one of the playlist, or none.      *)
LEMMA FollowingIs ==
  ASSUME TypeOK, NEW w, IsCache(w), NEW ref \in AnyIds \cup {None}
  PROVE  LET part == SelectNext(parts[w.p], w.doc.loop, PartOf(ref))
         IN part \in Parts \cup {NoPart} /\ SetNextAfter(w, ref) = SetNext(w, part, FALSE)
<1>1. parts[w.p] \in SUBSET Parts /\ w.doc.loop \in BOOLEAN
  BY BoundsAssumption DEF TypeOK, IsCache, IsDoc
<1>2. PartOf(ref) \in Parts \cup {NoPart}
  BY NoneIsNoId DEF PartOf, AnyIds
<1> QED BY <1>1, <1>2, ChosenIsPart DEF SetNextAfter

(* A job of an active playlist loads the selected instances of this        *)
(* activation and what is left of their segments.                          *)
LEMMA ActiveLoads ==
  ASSUME OnePlaylist, TypeOK, NEW p \in Playlists, playlist[p].active,
         NEW at, IsAt(at), at.all \subseteq Ids
  PROVE  LET w == CacheOf(p, at)
             S == Selected(playlist[p])
         IN /\ w.mem \subseteq at.mine
            /\ S \cap at.mine \subseteq w.mem
            /\ \A s \in S \cap at.all, i \in at.mine \ at.reset : SegOf(i) = SegOf(s) => i \in w.mem
<1> DEFINE w == CacheOf(p, at)
           S == Selected(playlist[p])
           own == {i \in at.all : OwnerOf(i) = p /\ (playlist[p].active => i \in at.mine)}
           segments == {SegOf(i) : i \in S \cap at.all}
<1>1. w.mem = {i \in own : i \in S \/ (i \notin at.reset /\ SegOf(i) \in segments)}
  BY CacheOfIs DEF LoadedOf
<1>2. at.mine \subseteq at.all
  BY DEF IsAt, Flags
<1>3. \A i \in at.all : OwnerOf(i) = p
  BY DEF OnePlaylist, Ids, OwnerOf
<1>4. own = at.mine
  BY <1>2, <1>3
<1> HIDE DEF w, S, own
<1>5. w.mem \subseteq at.mine /\ S \cap at.mine \subseteq w.mem
  BY <1>1, <1>4
<1>6. \A s \in S \cap at.all, i \in at.mine \ at.reset : SegOf(i) = SegOf(s) => i \in w.mem
  BY <1>1, <1>4
<1> QED BY <1>5, <1>6 DEF w, S

(* The playlist is reset.                                                  *)
LEMMA ResetAllIs ==
  ASSUME TypeOK, NEW w, IsCache(w), Bounded(w)
  PROVE  LET r == ResetAll(w) IN
         /\ IsCache(r) /\ r.p = w.p /\ Room(r)
         /\ r.doc.active = w.doc.active /\ r.doc.cur = None /\ r.doc.hold = "none"
         /\ ~ w.doc.active => Bounded(r)
         /\ OnePlaylist /\ Sound(w.doc, w.at) => Sound(r.doc, r.at)
<1> DEFINE left == Drop(w, w.at.rehearsal)
           over == Flag(left, "reset", left.at.all)
           none == [w.doc EXCEPT !.prev = None, !.cur = None, !.hold = "none"]
           begin == NewActivation(over, none)
           idle == WithDoc(over, none)
           r == ResetAll(w)
<1>1. r = IF w.doc.active THEN SetNextAfter(begin, None) ELSE SetNext(idle, NoPart, FALSE)
  BY DEF ResetAll
<1> HIDE DEF r
<1>2. /\ IsDoc(none) /\ none.prev = None /\ none.cur = None /\ none.hold = "none"
      /\ none.active = w.doc.active /\ none.next = w.doc.next
  BY DEF IsCache, IsDoc, HoldStates
<1>3. "reset" \in Flags /\ {"all", "mine", "taken", "reset"} \subseteq Fields /\ reports \subseteq Ids
  BY DEF Fields, Flags, TypeOK
<1> HIDE DEF none
<1>4. /\ IsCache(left) /\ left.p = w.p /\ left.doc = w.doc /\ left.mem \subseteq w.mem
      /\ left.at.all \subseteq w.at.all /\ left.at.taken \subseteq w.at.taken
  <2> DEFINE R == w.at.rehearsal
  <2>1. left = Drop(w, R)
    OBVIOUS
  <2> HIDE DEF left, R
  <2>2. /\ IsCache(left) /\ left.p = w.p /\ left.doc = w.doc /\ left.mem = w.mem \ R
        /\ left.at.all = w.at.all \ R /\ \A g \in Fields : left.at[g] = w.at[g] \ R
    BY <2>1, DropIs
  <2> QED BY <1>3, <2>2
<1> HIDE DEF left
<1>5. /\ IsCache(over) /\ over.p = w.p /\ over.doc = w.doc /\ over.mem \subseteq w.mem
      /\ over.at.all \subseteq w.at.all /\ over.at.taken \subseteq w.at.taken
      /\ over.at.all \subseteq over.at.reset
  <2> DEFINE A == left.at.all
  <2>1. over = Flag(left, "reset", A) /\ A \in SUBSET left.at.all
    OBVIOUS
  <2> HIDE DEF over, A
  <2>2. /\ IsCache(over) /\ over.p = left.p /\ over.doc = left.doc /\ over.mem = left.mem
        /\ over.at["reset"] = left.at["reset"] \cup A /\ over.at.all = left.at.all
        /\ \A g \in Fields \ {"reset"} : over.at[g] = left.at[g]
    BY <1>3, <1>4, <2>1, FlagIs
  <2>3. over.at.taken = left.at.taken
    BY <2>2, <1>3
  <2> QED BY <1>4, <2>2, <2>3 DEF A
<1> HIDE DEF over
<1>6. CASE w.doc.active
  <2>1. /\ IsCache(begin) /\ begin.p = w.p /\ begin.doc = none /\ begin.mem = over.mem
        /\ begin.at.mine = {i \in over.at.mine : OwnerOf(i) # w.p} /\ begin.at.all = over.at.all
        /\ begin.at.taken = over.at.taken
    <3>1. \A g \in Fields \ {"mine"} : begin.at[g] = over.at[g]
      BY <1>2, <1>5, NewActivationIs
    <3>2. /\ IsCache(begin) /\ begin.p = over.p /\ begin.doc = none /\ begin.mem = over.mem
          /\ begin.at.mine = {i \in over.at.mine : OwnerOf(i) # over.p} /\ begin.at.all = over.at.all
      BY <1>2, <1>5, NewActivationIs
    <3> HIDE DEF begin
    <3> QED BY <1>3, <1>5, <3>1, <3>2
  <2> HIDE DEF begin
  <2> DEFINE part == SelectNext(parts[begin.p], begin.doc.loop, PartOf(None))
  <2>2. part \in Parts \cup {NoPart} /\ r = SetNext(begin, part, FALSE)
    BY <1>1, <1>6, <2>1, FollowingIs
  <2> HIDE DEF part
  <2>3. \A i \in begin.at.all : i[3] \in 1 .. MaxCopies
    BY <1>5, <2>1 DEF Bounded
  <2>4. Room(begin) /\ Room(r)
    BY <1>3, <2>1, <2>2, <2>3, RoomAfter
  <2>5. IsCache(r) /\ r.p = w.p /\ r.doc.active = w.doc.active /\ r.doc.cur = None /\ r.doc.hold = "none"
    <3>1. /\ IsCache(r) /\ r.p = begin.p /\ r.doc.active = begin.doc.active
          /\ r.doc.cur = begin.doc.cur /\ r.doc.hold = begin.doc.hold
      BY <1>3, <2>1, <2>2, <2>4, SetNextKeeps
    <3> QED BY <1>2, <2>1, <3>1
  <2>6. ASSUME OnePlaylist, Sound(w.doc, w.at)
        PROVE  Sound(r.doc, r.at)
    <3>1. begin.at.mine = {}
      <4>1. \A i \in over.at.mine : i \in AnyIds /\ w.p \in Playlists
        BY <1>5 DEF IsCache, IsAt, Fields, Flags
      <4> QED BY <2>1, <2>6, <4>1 DEF OnePlaylist, AnyIds, OwnerOf
    <3>2. begin.doc.next \in begin.mem => begin.doc.next \notin begin.at.taken
      <4>1. None \notin begin.mem
        BY <2>1, NoneIsNoId DEF IsCache, IsAt, Fields
      <4> QED BY <1>2, <1>5, <2>1, <2>6, <4>1 DEF Sound
    <3>3. Settled(begin, part)
      BY <1>2, <1>6, <2>1, <3>1, <3>2 DEF Settled
    <3> QED BY <1>3, <2>1, <2>2, <2>4, <3>3, SetNextIsSound
  <2> QED BY <1>6, <2>4, <2>5, <2>6 DEF r
<1>7. CASE ~ w.doc.active
  <2>1. IsCache(idle) /\ idle.p = w.p /\ idle.doc = none /\ idle.mem = over.mem /\ idle.at = over.at
    BY <1>2, <1>5, WithDocIs
  <2>2. r = SetNext(idle, NoPart, FALSE) /\ NoPart \in Parts \cup {NoPart} /\ FALSE \in BOOLEAN
    BY <1>1, <1>7
  <2> HIDE DEF idle
  <2>3. \A i \in idle.at.all : i[3] \in 1 .. MaxCopies
    BY <1>5, <2>1 DEF Bounded
  <2>4. Room(idle) /\ Room(r)
    BY <1>3, <2>1, <2>2, <2>3, RoomAfter
  <2>5. IsCache(r) /\ r.p = w.p /\ r.doc.active = w.doc.active /\ r.doc.cur = None /\ r.doc.hold = "none"
    <3>1. /\ IsCache(r) /\ r.p = idle.p /\ r.doc.active = idle.doc.active
          /\ r.doc.cur = idle.doc.cur /\ r.doc.hold = idle.doc.hold
      BY <1>3, <2>1, <2>2, <2>4, SetNextKeeps
    <3> QED BY <1>2, <2>1, <3>1
  <2>6. Bounded(r)
    <3>1. r.at.all \subseteq idle.at.all \cup {r.doc.next} /\ r.doc.next = None
      BY <1>3, <2>1, <2>2, <2>4, SetNextIs
    <3>2. None \notin r.at.all
      BY <2>5, NoneIsNoId DEF IsCache, IsAt, Fields
    <3> QED BY <2>3, <3>1, <3>2 DEF Bounded
  <2>7. Sound(r.doc, r.at)
    <3>1. PartOf(idle.doc.next) = NoPart /\ idle.doc.next \in idle.mem => FALSE
      <4>1. idle.mem \subseteq AnyIds
        BY <2>1 DEF IsCache, IsAt, Fields
      <4> QED BY <4>1, NoneIsNoId, PartsAssumption DEF PartOf, AnyIds
    <3>2. idle.at.mine \ idle.at.reset = {}
      BY <1>5, <2>1 DEF IsCache, IsAt, Flags
    <3>3. Settled(idle, NoPart)
      BY <1>2, <2>1, <3>1, <3>2 DEF Settled
    <3> QED BY <1>3, <2>1, <2>2, <2>4, <3>3, SetNextIsSound
  <2> QED BY <1>7, <2>4, <2>5, <2>6, <2>7 DEF r
<1> QED BY <1>6, <1>7

(* The playlist is activated, or activated again in another mode.          *)
LEMMA ActivatedIs ==
  ASSUME TypeOK, NEW w, IsCache(w), Room(w), ~ w.doc.active => Bounded(w), NEW b \in BOOLEAN
  PROVE  LET r == Activated(w, b) IN
         /\ IsCache(r) /\ r.p = w.p /\ r.doc.cur \in {None, w.doc.cur}
         /\ /\ OnePlaylist /\ Sound(w.doc, w.at)
            /\ w.doc.active /\ w.doc.cur # None => w.doc.cur \in w.mem /\ w.mem \subseteq w.at.mine
            => Sound(r.doc, r.at)
<1> DEFINE fresh == IF w.doc.active THEN w ELSE ResetAll(w)
           on == [fresh.doc EXCEPT !.active = TRUE, !.rehearsal = b]
           act == NewActivation(fresh, on)
           off == [act.doc EXCEPT !.prev = None, !.cur = None, !.next = None]
           idle == WithDoc(act, off)
           r == Activated(w, b)
<1>1. r = IF Current(act) = None \/ Current(act) \in act.at.reset
          THEN SetNextAfter(idle, None) ELSE Preserve(act)
  BY DEF Activated
<1>2. reports \subseteq Ids /\ {"all", "mine", "taken", "reset"} \subseteq Fields /\ "mine" \in Flags
  BY DEF TypeOK, Fields, Flags
<1> HIDE DEF r
<1>3. /\ IsCache(fresh) /\ fresh.p = w.p /\ Room(fresh)
      /\ w.doc.active => fresh = w
      /\ ~ w.doc.active => fresh.doc.cur = None /\ fresh.doc.hold = "none"
      /\ OnePlaylist /\ Sound(w.doc, w.at) => Sound(fresh.doc, fresh.at)
  <2>1. CASE w.doc.active
    BY <2>1
  <2>2. CASE ~ w.doc.active
    BY <2>2, ResetAllIs
  <2> QED BY <2>1, <2>2
<1> HIDE DEF fresh
<1>4. /\ IsDoc(on) /\ on.active /\ on.hold = fresh.doc.hold
      /\ on.prev = fresh.doc.prev /\ on.cur = fresh.doc.cur /\ on.next = fresh.doc.next
      /\ on.loop = fresh.doc.loop
  BY <1>3 DEF IsCache, IsDoc
<1> HIDE DEF on
<1>5. /\ IsCache(act) /\ act.p = w.p /\ act.doc = on /\ act.mem = fresh.mem
      /\ act.at.mine = {i \in fresh.at.mine : OwnerOf(i) # w.p} /\ act.at.all = fresh.at.all
      /\ act.at.taken = fresh.at.taken /\ act.at.reset = fresh.at.reset
  <2>1. \A g \in Fields \ {"mine"} : act.at[g] = fresh.at[g]
    BY <1>3, <1>4, NewActivationIs
  <2>2. /\ IsCache(act) /\ act.p = fresh.p /\ act.doc = on /\ act.mem = fresh.mem
        /\ act.at.mine = {i \in fresh.at.mine : OwnerOf(i) # fresh.p} /\ act.at.all = fresh.at.all
    BY <1>3, <1>4, NewActivationIs
  <2> HIDE DEF act
  <2> QED BY <1>2, <1>3, <2>1, <2>2
<1>6. OnePlaylist => act.at.mine = {}
  <2>1. \A i \in fresh.at.mine : i \in AnyIds /\ w.p \in Playlists
    BY <1>3 DEF IsCache, IsAt, Fields, Flags
  <2> HIDE DEF act
  <2> QED BY <1>5, <2>1 DEF OnePlaylist, AnyIds, OwnerOf
<1> HIDE DEF act
<1>7. CASE Current(act) = None \/ Current(act) \in act.at.reset
  <2>1. /\ IsDoc(off) /\ off.active /\ off.hold = on.hold
        /\ off.prev = None /\ off.cur = None /\ off.next = None
    <3>1. IsDoc(act.doc)
      BY <1>4, <1>5
    <3> QED BY <1>4, <1>5, <3>1 DEF IsDoc
  <2> HIDE DEF off
  <2>2. IsCache(idle) /\ idle.p = w.p /\ idle.doc = off /\ idle.mem = act.mem /\ idle.at = act.at
    BY <1>5, <2>1, WithDocIs
  <2> HIDE DEF idle
  <2> DEFINE part == SelectNext(parts[idle.p], idle.doc.loop, PartOf(None))
  <2>3. part \in Parts \cup {NoPart} /\ r = SetNext(idle, part, FALSE)
    BY <1>1, <1>7, <2>2, FollowingIs
  <2> HIDE DEF part
  <2>4. Room(idle)
    <3>1. idle.at.all = fresh.at.all
      BY <1>5, <2>2
    <3> QED BY <1>3, <3>1 DEF Room
  <2>5. IsCache(r) /\ r.p = w.p /\ r.doc.cur = None
    <3>1. IsCache(r) /\ r.p = idle.p /\ r.doc.cur = idle.doc.cur
      BY <1>2, <2>2, <2>3, <2>4, SetNextKeeps
    <3> QED BY <2>1, <2>2, <3>1
  <2>6. ASSUME OnePlaylist, Sound(w.doc, w.at),
               w.doc.active /\ w.doc.cur # None => w.doc.cur \in w.mem /\ w.mem \subseteq w.at.mine
        PROVE  Sound(r.doc, r.at)
    <3>1. off.hold \notin {"pending", "active"}
      <4>1. CASE ~ w.doc.active
        BY <1>3, <1>4, <2>1, <4>1
      <4>2. CASE w.doc.active
        <5>1. w.doc.cur # None => Current(act) = w.doc.cur /\ Current(act) \notin act.at.reset
          BY <1>3, <1>4, <1>5, <2>6, <4>2 DEF Current, Find, Sound
        <5>2. w.doc.cur = None
          BY <1>7, <5>1
        <5>3. PartOf(None) = NoPart /\ NoPart \notin HoldFrom /\ NoPart \notin HoldTo
          BY PartsAssumption DEF PartOf
        <5> QED BY <1>3, <1>4, <2>1, <2>6, <4>2, <5>2, <5>3 DEF Sound
      <4> QED BY <4>1, <4>2
    <3>2. idle.doc.next \notin idle.mem
      BY <2>1, <2>2, NoneIsNoId DEF IsCache, IsAt, Fields
    <3>3. Settled(idle, part)
      BY <1>6, <2>1, <2>2, <2>6, <3>1, <3>2 DEF Settled
    <3> QED BY <1>2, <2>2, <2>3, <2>4, <3>3, SetNextIsSound
  <2> QED BY <2>5, <2>6 DEF r
<1>8. CASE ~ (Current(act) = None \/ Current(act) \in act.at.reset)
  <2> DEFINE S == act.mem \cap Selected(act.doc)
  <2>1. r = Flag(act, "mine", S)
    BY <1>1, <1>8 DEF Preserve
  <2>2. S \in SUBSET act.at.all
    BY <1>5 DEF IsCache
  <2> HIDE DEF S
  <2>3. /\ IsCache(r) /\ r.p = w.p /\ r.doc = on /\ r.mem = act.mem
        /\ r.at.mine = act.at.mine \cup S /\ r.at.all = act.at.all
        /\ r.at.taken = act.at.taken /\ r.at.reset = act.at.reset
    <3>1. /\ IsCache(r) /\ r.p = act.p /\ r.doc = act.doc /\ r.mem = act.mem
          /\ r.at["mine"] = act.at["mine"] \cup S /\ r.at.all = act.at.all
          /\ \A g \in Fields \ {"mine"} : r.at[g] = act.at[g]
      BY <1>2, <1>5, <2>1, <2>2, FlagIs
    <3> QED BY <1>2, <1>5, <3>1
  <2>4. on.cur # None /\ on.cur \in act.mem
    BY <1>5, <1>8 DEF Current, Find
  <2>5. w.doc.active /\ fresh = w
    BY <1>3, <1>4, <2>4
  <2>6. r.doc.cur = w.doc.cur
    BY <1>4, <2>3, <2>5
  <2>7. ASSUME OnePlaylist, Sound(w.doc, w.at),
               w.doc.active /\ w.doc.cur # None => w.doc.cur \in w.mem /\ w.mem \subseteq w.at.mine
        PROVE  Sound(r.doc, r.at)
    <3>1. /\ r.at.mine = w.mem \cap Selected(w.doc) /\ r.at.all = w.at.all
          /\ r.at.taken = w.at.taken /\ r.at.reset = w.at.reset
      BY <1>4, <1>5, <1>6, <2>3, <2>5, <2>7 DEF S, Selected
    <3>2. w.mem \subseteq w.at.mine /\ w.doc.cur \in w.mem
      BY <1>4, <1>5, <2>4, <2>5, <2>7
    <3>3. /\ r.doc.active /\ r.doc.hold = w.doc.hold /\ r.doc.loop = w.doc.loop
          /\ r.doc.prev = w.doc.prev /\ r.doc.cur = w.doc.cur /\ r.doc.next = w.doc.next
      BY <1>4, <2>3, <2>5
    <3>4. Selected(r.doc) = Selected(w.doc) /\ w.doc.cur \in Selected(w.doc)
      BY <3>3, <2>4, <1>4, <2>5 DEF Selected
    <3> HIDE DEF r
    <3> QED BY <2>7, <3>1, <3>2, <3>3, <3>4 DEF Sound
  <2> QED BY <2>3, <2>6, <2>7 DEF r
<1> QED BY <1>7, <1>8

(* The nexted instance goes on air.                                        *)
LEMMA OnAirIs ==
  ASSUME NEW w, IsCache(w), Room(w), NEW i \in w.mem, NEW hold \in HoldStates
  PROVE  LET t == ResetPreviousSegment(OnAir(w, i, hold))
             d == w.doc
         IN /\ IsCache(t) /\ Room(t) /\ t.p = w.p /\ t.mem = w.mem
            /\ t.at.all = w.at.all /\ t.at.mine = w.at.mine /\ t.at.taken = w.at.taken \cup {i}
            /\ t.doc.active = d.active /\ t.doc.loop = d.loop /\ t.doc.hold = hold
            /\ t.doc.prev = d.cur /\ t.doc.cur = i /\ t.doc.next = d.next
            /\ w.at.reset \subseteq t.at.reset
            /\ \A j \in t.at.reset : j \in w.at.reset \/ SegOf(j) # SegOf(i)
            /\ d.loop /\ d.cur \in w.mem /\ SegOf(d.cur) # SegOf(i) =>
                 \A j \in w.mem : SegOf(j) = SegOf(d.cur) => j \in t.at.reset
<1> DEFINE d == [w.doc EXCEPT !.prev = w.doc.cur, !.cur = i, !.hold = hold]
           heard == Flag(w, "taken", {i})
           on == WithDoc(heard, d)
           S == {j \in on.mem : SegOf(j) = SegOf(Previous(on))}
           left == on.doc.loop /\ Previous(on) # None
                   /\ (Current(on) # None => SegOf(Previous(on)) # SegOf(Current(on)))
           t == ResetPreviousSegment(OnAir(w, i, hold))
<1>1. t = IF left THEN Flag(on, "reset", S) ELSE on
  BY DEF ResetPreviousSegment, OnAir
<1>2. /\ "taken" \in Flags /\ "reset" \in Flags
      /\ {"all", "mine", "reset"} \subseteq Fields \ {"taken"}
      /\ {"all", "mine", "taken"} \subseteq Fields \ {"reset"}
  BY DEF Fields, Flags
<1> HIDE DEF t, S, left
<1>3. i \in AnyIds /\ i \in w.at.all
  BY DEF IsCache, IsAt, Fields
<1>4. /\ IsDoc(d) /\ d.active = w.doc.active /\ d.loop = w.doc.loop /\ d.hold = hold
      /\ d.prev = w.doc.cur /\ d.cur = i /\ d.next = w.doc.next
  BY <1>3 DEF IsCache, IsDoc
<1> HIDE DEF d
<1>5. /\ IsCache(heard) /\ heard.p = w.p /\ heard.mem = w.mem
      /\ heard.at.all = w.at.all /\ heard.at.mine = w.at.mine
      /\ heard.at.taken = w.at.taken \cup {i} /\ heard.at.reset = w.at.reset
  <2> DEFINE I == {i}
  <2>1. I \in SUBSET w.at.all /\ heard = Flag(w, "taken", I)
    BY <1>3
  <2> HIDE DEF heard, I
  <2>2. /\ IsCache(heard) /\ heard.p = w.p /\ heard.mem = w.mem
        /\ heard.at["taken"] = w.at["taken"] \cup I /\ heard.at.all = w.at.all
        /\ \A g \in Fields \ {"taken"} : heard.at[g] = w.at[g]
    BY <1>2, <2>1, FlagIs
  <2> QED BY <1>2, <2>2 DEF I
<1> HIDE DEF heard
<1>6. IsCache(on) /\ on.p = w.p /\ on.doc = d /\ on.mem = w.mem /\ on.at = heard.at
  BY <1>4, <1>5, WithDocIs
<1> HIDE DEF on
<1>7. Current(on) = i /\ i # None
  BY <1>3, <1>4, <1>6, NoneIsNoId DEF Current, Find
<1>8. CASE left
  <2>1. t = Flag(on, "reset", S) /\ S \in SUBSET on.at.all
    BY <1>1, <1>6, <1>8 DEF S, IsCache
  <2>2. /\ IsCache(t) /\ t.p = on.p /\ t.doc = on.doc /\ t.mem = on.mem
        /\ t.at["reset"] = on.at["reset"] \cup S /\ t.at.all = on.at.all
        /\ \A g \in Fields \ {"reset"} : t.at[g] = on.at[g]
    BY <1>2, <1>6, <2>1, FlagIs
  <2>3. /\ t.at.mine = w.at.mine /\ t.at.taken = w.at.taken \cup {i} /\ t.at.all = w.at.all
        /\ t.at.reset = w.at.reset \cup S
    BY <1>2, <1>5, <1>6, <2>2
  <2>4. SegOf(Previous(on)) # SegOf(i) /\ Previous(on) = w.doc.cur
    BY <1>4, <1>6, <1>7, <1>8 DEF left, Previous, Find
  <2>5. S = {j \in w.mem : SegOf(j) = SegOf(w.doc.cur)}
    BY <1>6, <2>4 DEF S
  <2>6. Room(t)
    BY <2>3 DEF Room
  <2>7. \A j \in S : SegOf(j) # SegOf(i)
    BY <2>4, <2>5
  <2> QED BY <1>4, <1>6, <2>2, <2>3, <2>5, <2>6, <2>7 DEF t
<1>9. CASE ~ left
  <2>1. t = on
    BY <1>1, <1>9
  <2>2. t.at.all = w.at.all
    BY <1>5, <1>6, <2>1
  <2>3. Room(t)
    BY <2>2 DEF Room
  <2>4. w.doc.loop /\ w.doc.cur \in w.mem => SegOf(w.doc.cur) = SegOf(i)
    <3>1. w.doc.cur \in w.mem => Previous(on) = w.doc.cur /\ w.doc.cur # None
      BY <1>4, <1>6, NoneIsNoId DEF Previous, Find, IsCache, IsAt, Fields
    <3> QED BY <1>4, <1>6, <1>7, <1>9, <3>1 DEF left
  <2> QED BY <1>4, <1>5, <1>6, <2>1, <2>3, <2>4 DEF t
<1> QED BY <1>8, <1>9

(* After that the next part is chosen as it should be: another part        *)
(* follows, and what is left of the segment that is over was reset.        *)
LEMMA TakenIsSettled ==
  ASSUME NEW w, IsCache(w), Room(w), NEW i \in w.mem, NEW hold \in {"none", "active"}, NEW part
  PROVE  /\ w.doc.active /\ w.doc.next = i /\ i \in w.at.mine \ w.at.reset /\ part # PartOf(i)
         /\ w.doc.cur # None => w.doc.cur \in w.mem \cap w.at.taken /\ w.doc.cur # i
         /\ hold = "active" => PartOf(w.doc.cur) \in HoldFrom /\ PartOf(i) \in HoldTo
         /\ w.doc.loop => \A j \in w.at.mine \ w.at.reset :
              j = i \/ (w.doc.cur # None /\ SegOf(j) = SegOf(w.doc.cur) /\ j \in w.mem)
         => Settled(ResetPreviousSegment(OnAir(w, i, hold)), part)
<1> DEFINE t == ResetPreviousSegment(OnAir(w, i, hold))
<1>1. /\ IsCache(t) /\ t.mem = w.mem
      /\ t.at.mine = w.at.mine /\ t.at.taken = w.at.taken \cup {i}
      /\ t.doc.active = w.doc.active /\ t.doc.loop = w.doc.loop /\ t.doc.hold = hold
      /\ t.doc.prev = w.doc.cur /\ t.doc.cur = i /\ t.doc.next = w.doc.next
      /\ w.at.reset \subseteq t.at.reset
      /\ \A j \in t.at.reset : j \in w.at.reset \/ SegOf(j) # SegOf(i)
      /\ w.doc.loop /\ w.doc.cur \in w.mem /\ SegOf(w.doc.cur) # SegOf(i) =>
           \A j \in w.mem : SegOf(j) = SegOf(w.doc.cur) => j \in t.at.reset
  <2>1. hold \in HoldStates
    BY DEF HoldStates
  <2> QED BY <2>1, OnAirIs
<1> HIDE DEF t
<1>2. i # None
  BY NoneIsNoId DEF IsCache, IsAt, Fields
<1> SUFFICES
      ASSUME w.doc.active, w.doc.next = i, i \in w.at.mine \ w.at.reset, part # PartOf(i),
             w.doc.cur # None => w.doc.cur \in w.mem \cap w.at.taken /\ w.doc.cur # i,
             hold = "active" => PartOf(w.doc.cur) \in HoldFrom /\ PartOf(i) \in HoldTo,
             w.doc.loop => \A j \in w.at.mine \ w.at.reset :
               j = i \/ (w.doc.cur # None /\ SegOf(j) = SegOf(w.doc.cur) /\ j \in w.mem)
      PROVE  Settled(t, part)
  BY DEF t
<1>3. ASSUME w.doc.loop, NEW j \in t.at.mine \ t.at.reset
      PROVE  SegOf(j) = SegOf(i)
  <2> SUFFICES ASSUME j # i PROVE SegOf(j) = SegOf(i)
    OBVIOUS
  <2>1. w.doc.cur # None /\ SegOf(j) = SegOf(w.doc.cur) /\ j \in w.mem
    BY <1>1, <1>3
  <2> QED BY <1>1, <1>3, <2>1
<1> QED BY <1>1, <1>2, <1>3 DEF Settled

(***************************************************************************)
(* The jobs.                                                               *)
(***************************************************************************)

(* In a playlist that loops there is always another part that can follow.  *)
AnotherFollows == TRUE \in Loops => TwoPlayable

(* A job saves a cache; what is on air then was on air or next before, and *)
(* a sound selection is sound again.                                       *)
JobSaves ==
  \E w, unheard :
    /\ IsCache(w) /\ SaveAfter(w, unheard)
    /\ w.doc.cur \in {None, playlist[w.p].cur, playlist[w.p].next}
    /\ OnePlaylist /\ AnotherFollows /\ SelectionInv => Sound(w.doc, w.at)

(* How a job begins,                                                       *)
LEMMA Begins ==
  ASSUME TypeOK, NEW p \in Playlists
  PROVE  LET w == CacheOf(p, inst) IN
         /\ IsCache(w) /\ Room(w) /\ Bounded(w) /\ w.p = p /\ w.doc = playlist[p] /\ w.at = inst
         /\ None \notin w.mem
         /\ OnePlaylist /\ SelectionInv => Sound(w.doc, w.at)
<1> DEFINE w == CacheOf(p, inst)
<1>1. /\ IsCache(w) /\ Room(w) /\ w.p = p /\ w.doc = playlist[p] /\ w.at = inst
      /\ \A i \in w.at.all : i[3] \in 1 .. MaxCopies
  BY InstIsAt, CacheOfIs
<1> HIDE DEF w
<1>2. None \notin w.mem
  BY <1>1, NoneIsNoId DEF IsCache, IsAt, Fields
<1>3. OnePlaylist /\ SelectionInv => Sound(w.doc, w.at)
  BY <1>1, SoundIs
<1>4. Bounded(w)
  BY <1>1 DEF Bounded
<1> QED BY <1>1, <1>2, <1>3, <1>4 DEF w

(* and what it finds in a playlist that is active.                         *)
LEMMA BeginsActive ==
  ASSUME TypeOK, NEW p \in Playlists, playlist[p].active, OnePlaylist, SelectionInv
  PROVE  LET w == CacheOf(p, inst)
             d == playlist[p]
         IN /\ w.mem \subseteq inst.mine
            /\ d.cur # None => d.cur \in w.mem
            /\ d.next \in w.mem => d.next \in inst.mine \ inst.reset /\ d.next # d.cur
            /\ d.loop => \A j \in inst.mine \ inst.reset :
                 j = d.next \/ (d.cur # None /\ SegOf(j) = SegOf(d.cur) /\ j \in w.mem)
<1> DEFINE w == CacheOf(p, inst)
           d == playlist[p]
           S == Selected(d)
<1>1. /\ w.mem \subseteq inst.mine
      /\ S \cap inst.mine \subseteq w.mem
      /\ \A s \in S \cap inst.all, i \in inst.mine \ inst.reset : SegOf(i) = SegOf(s) => i \in w.mem
  BY InstIsAt, ActiveLoads
<1>2. Sound(d, inst)
  BY SoundIs
<1>3. None \notin w.mem
  BY Begins
<1>4. d.cur # None => d.cur \in S
  BY DEF Selected
<1> HIDE DEF w, d
<1>5. d.cur # None => d.cur \in w.mem /\ d.cur \in S \cap inst.all
  BY <1>1, <1>2, <1>4 DEF Sound
<1>6. d.next \in w.mem => d.next \in inst.mine \ inst.reset /\ d.next # d.cur
  BY <1>1, <1>2, <1>3 DEF Sound
<1>7. d.loop => \A j \in inst.mine \ inst.reset :
        j = d.next \/ (d.cur # None /\ SegOf(j) = SegOf(d.cur) /\ j \in w.mem)
  BY <1>1, <1>2, <1>5 DEF Sound
<1> QED BY <1>1, <1>5, <1>6, <1>7 DEF w, d

(* SetNextAfter of what has just gone on air.                              *)
LEMMA TakenIsSound ==
  ASSUME TypeOK, NEW w, IsCache(w), Room(w), NEW i \in w.mem, NEW hold \in {"none", "active"}
  PROVE  LET r == SetNextAfter(ResetPreviousSegment(OnAir(w, i, hold)), i) IN
         /\ IsCache(r) /\ r.p = w.p /\ r.doc.cur = i
         /\ /\ AnotherFollows /\ PartsStay
            /\ w.doc.active /\ w.doc.next = i /\ i \in w.at.mine \ w.at.reset
            /\ w.doc.cur # None => w.doc.cur \in w.mem \cap w.at.taken /\ w.doc.cur # i
            /\ hold = "active" => PartOf(w.doc.cur) \in HoldFrom /\ PartOf(i) \in HoldTo
            /\ w.doc.loop => \A j \in w.at.mine \ w.at.reset :
                 j = i \/ (w.doc.cur # None /\ SegOf(j) = SegOf(w.doc.cur) /\ j \in w.mem)
            => Sound(r.doc, r.at)
<1> DEFINE t == ResetPreviousSegment(OnAir(w, i, hold))
           part == SelectNext(parts[t.p], t.doc.loop, PartOf(i))
           r == SetNextAfter(t, i)
<1>1. IsCache(t) /\ Room(t) /\ t.p = w.p /\ t.doc.cur = i
  <2>1. hold \in HoldStates
    BY DEF HoldStates
  <2> QED BY <2>1, OnAirIs
<1> HIDE DEF t
<1>2. i \in AnyIds
  BY DEF IsCache, IsAt, Fields
<1>3. part \in Parts \cup {NoPart} /\ r = SetNext(t, part, FALSE) /\ reports \subseteq Ids
  BY <1>1, <1>2, FollowingIs DEF TypeOK
<1>4. AnotherFollows /\ PartsStay => part # PartOf(i)
  <2> SUFFICES ASSUME AnotherFollows, PartsStay PROVE part # PartOf(i)
    OBVIOUS
  <2> DEFINE present == parts[t.p]
             loop == t.doc.loop
             q == PartOf(i)
  <2>1. present \in SUBSET Parts /\ Lasting \subseteq present
    BY <1>1 DEF PartsStay, IsCache
  <2>2. loop \in BOOLEAN /\ (loop => TwoPlayable)
    BY <1>1, BoundsAssumption DEF IsCache, IsDoc, AnotherFollows
  <2>3. q \in Parts
    BY <1>2, NoneIsNoId DEF PartOf, AnyIds
  <2>4. part = SelectNext(present, loop, q)
    OBVIOUS
  <2> HIDE DEF present, loop, q, part
  <2>5. part # q
    BY <2>1, <2>2, <2>3, <2>4, ChosenIsAnother
  <2> QED BY <2>5 DEF q
<1> HIDE DEF part, r
<1>5. IsCache(r) /\ r.p = t.p /\ r.doc.cur = t.doc.cur
  BY <1>1, <1>3, SetNextKeeps
<1>6. Settled(t, part) => Sound(r.doc, r.at)
  BY <1>1, <1>3, SetNextIsSound
<1> QED BY <1>1, <1>4, <1>5, <1>6, TakenIsSettled DEF t, r

(* activateRundownPlaylist.                                                *)
LEMMA ActivateSaves ==
  ASSUME TypeOK, NEW p \in Playlists, NEW b \in BOOLEAN, ActivateRundownPlaylist(p, b)
  PROVE  JobSaves
<1> DEFINE w == CacheOf(p, inst)
           r == Activated(w, b)
<1>1. SaveAfter(r, reports)
  BY DEF ActivateRundownPlaylist, Save
<1>2. /\ IsCache(w) /\ Room(w) /\ Bounded(w) /\ w.p = p /\ w.doc = playlist[p] /\ w.at = inst
      /\ OnePlaylist /\ SelectionInv => Sound(w.doc, w.at)
  BY Begins
<1>3. OnePlaylist /\ SelectionInv /\ w.doc.active /\ w.doc.cur # None =>
        w.doc.cur \in w.mem /\ w.mem \subseteq w.at.mine
  BY <1>2, BeginsActive
<1> HIDE DEF w
<1>4. /\ IsCache(r) /\ r.p = w.p /\ r.doc.cur \in {None, w.doc.cur}
      /\ /\ OnePlaylist /\ Sound(w.doc, w.at)
         /\ w.doc.active /\ w.doc.cur # None => w.doc.cur \in w.mem /\ w.mem \subseteq w.at.mine
         => Sound(r.doc, r.at)
  BY <1>2, ActivatedIs
<1> HIDE DEF r
<1>5. /\ r.doc.cur \in {None, playlist[r.p].cur, playlist[r.p].next}
      /\ OnePlaylist /\ AnotherFollows /\ SelectionInv => Sound(r.doc, r.at)
  BY <1>2, <1>3, <1>4
<1> QED BY <1>1, <1>4, <1>5 DEF JobSaves

(* resetRundownPlaylist, with or without an activation.                    *)
LEMMA ResetSaves ==
  ASSUME TypeOK, NEW p \in Playlists, NEW a \in {"no", "rehearsal", "active"}, ResetRundownPlaylist(p, a)
  PROVE  JobSaves
<1> DEFINE w == CacheOf(p, inst)
           b == a = "rehearsal"
           reset == ResetAll(w)
           on == Activated(reset, b)
           r == IF a = "no" THEN reset ELSE on
<1>1. SaveAfter(r, reports)
  BY DEF ResetRundownPlaylist, Save
<1>2. /\ IsCache(w) /\ Bounded(w) /\ w.p = p
      /\ OnePlaylist /\ SelectionInv => Sound(w.doc, w.at)
  BY Begins
<1> HIDE DEF w
<1>3. /\ IsCache(reset) /\ reset.p = w.p /\ Room(reset) /\ reset.doc.cur = None
      /\ ~ reset.doc.active => Bounded(reset)
      /\ OnePlaylist /\ Sound(w.doc, w.at) => Sound(reset.doc, reset.at)
  BY <1>2, ResetAllIs
<1> HIDE DEF reset
<1>4. /\ IsCache(on) /\ on.p = reset.p /\ on.doc.cur \in {None, reset.doc.cur}
      /\ OnePlaylist /\ Sound(reset.doc, reset.at) => Sound(on.doc, on.at)
  <2>1. b \in BOOLEAN
    OBVIOUS
  <2> HIDE DEF b
  <2> QED BY <1>3, <2>1, ActivatedIs
<1> HIDE DEF on
<1>5. /\ IsCache(r) /\ r.doc.cur = None
      /\ OnePlaylist /\ SelectionInv => Sound(r.doc, r.at)
  BY <1>2, <1>3, <1>4
<1> HIDE DEF r
<1> QED BY <1>1, <1>5 DEF JobSaves

(* deactivateRundownPlaylist.                                              *)
LEMMA DeactivateSaves ==
  ASSUME TypeOK, NEW p \in Playlists, DeactivateRundownPlaylist(p)
  PROVE  JobSaves
<1> DEFINE w == CacheOf(p, inst)
           off == [w.doc EXCEPT !.active = FALSE, !.hold = "none", !.prev = None, !.cur = None]
           begin == NewActivation(w, off)
           r == SetNext(begin, NoPart, FALSE)
<1>1. SaveAfter(r, reports)
  BY DEF DeactivateRundownPlaylist, Save
<1>2. /\ IsCache(w) /\ Room(w) /\ w.p = p
  BY Begins
<1> HIDE DEF w
<1>3. IsDoc(off) /\ off.prev = None /\ off.cur = None /\ off.hold = "none"
  BY <1>2 DEF IsCache, IsDoc, HoldStates
<1> HIDE DEF off
<1>4. /\ IsCache(begin) /\ begin.p = w.p /\ begin.doc = off /\ begin.mem = w.mem
      /\ begin.at.mine = {i \in w.at.mine : OwnerOf(i) # w.p} /\ begin.at.all = w.at.all
  BY <1>2, <1>3, NewActivationIs
<1> HIDE DEF begin
<1>5. Room(begin) /\ reports \subseteq Ids /\ NoPart \in Parts \cup {NoPart} /\ FALSE \in BOOLEAN
  BY <1>2, <1>4 DEF Room, TypeOK
<1>6. IsCache(r) /\ r.doc.cur = begin.doc.cur
  BY <1>4, <1>5, SetNextKeeps
<1>7. Settled(begin, NoPart) => Sound(r.doc, r.at)
  BY <1>4, <1>5, SetNextIsSound
<1> HIDE DEF r
<1>8. OnePlaylist => Settled(begin, NoPart)
  <2>1. OnePlaylist => begin.at.mine = {}
    <3>1. \A i \in w.at.mine : i \in AnyIds /\ w.p \in Playlists
      BY <1>2 DEF IsCache, IsAt, Fields, Flags
    <3> QED BY <1>4, <3>1 DEF OnePlaylist, AnyIds, OwnerOf
  <2>2. begin.doc.next \in begin.mem => PartOf(begin.doc.next) # NoPart
    <3>1. begin.mem \subseteq AnyIds
      BY <1>4 DEF IsCache, IsAt, Fields
    <3> QED BY <3>1, NoneIsNoId, PartsAssumption DEF PartOf, AnyIds
  <2> QED BY <1>3, <1>4, <2>1, <2>2 DEF Settled
<1>9. r.doc.cur = None
  BY <1>3, <1>4, <1>6
<1> QED BY <1>1, <1>6, <1>7, <1>8, <1>9 DEF JobSaves

(* takeNextPart.                                                           *)
LEMMA TakeSaves ==
  ASSUME TypeOK, NEW p \in Playlists, TakeNextPart(p)
  PROVE  JobSaves
<1> DEFINE w == CacheOf(p, inst)
           n == Nexted(w)
           h == HoldAfterTake(w.doc.hold)
           r == SetNextAfter(ResetPreviousSegment(OnAir(w, n, h)), n)
           done == [w.doc EXCEPT !.hold = "complete"]
           c == WithDoc(w, done)
<1>1. /\ playlist[p].active
      /\ \/ w.doc.hold = "active" /\ SaveAfter(c, reports)
         \/ w.doc.hold # "active" /\ n # None /\ SaveAfter(r, reports)
  BY DEF TakeNextPart, Save
<1>2. /\ IsCache(w) /\ Room(w) /\ w.p = p /\ w.doc = playlist[p] /\ w.at = inst /\ None \notin w.mem
      /\ OnePlaylist /\ SelectionInv => Sound(w.doc, w.at)
  BY Begins
<1>3. OnePlaylist /\ SelectionInv =>
         /\ w.doc.cur # None => w.doc.cur \in w.mem
         /\ w.doc.next \in w.mem => w.doc.next \in w.at.mine \ w.at.reset /\ w.doc.next # w.doc.cur
         /\ w.doc.loop => \A j \in w.at.mine \ w.at.reset :
              j = w.doc.next \/ (w.doc.cur # None /\ SegOf(j) = SegOf(w.doc.cur) /\ j \in w.mem)
  BY <1>1, <1>2, BeginsActive
<1> HIDE DEF w
<1>4. CASE w.doc.hold = "active" /\ SaveAfter(c, reports)
  <2>1. /\ IsDoc(done) /\ done.hold = "complete" /\ done.active = w.doc.active
        /\ done.prev = w.doc.prev /\ done.cur = w.doc.cur /\ done.next = w.doc.next
        /\ done.loop = w.doc.loop
    BY <1>2 DEF IsCache, IsDoc, HoldStates
  <2> HIDE DEF done
  <2>2. IsCache(c) /\ c.p = w.p /\ c.doc = done /\ c.at = w.at
    BY <1>2, <2>1, WithDocIs
  <2> HIDE DEF c
  <2>3. OnePlaylist /\ SelectionInv => Sound(c.doc, c.at)
    <3>1. Selected(done) = Selected(w.doc)
      BY <2>1 DEF Selected
    <3> QED BY <1>1, <1>2, <2>1, <2>2, <3>1 DEF Sound
  <2>4. c.doc.cur \in {None, playlist[c.p].cur, playlist[c.p].next}
    BY <1>2, <2>1, <2>2
  <2> QED BY <1>4, <2>2, <2>3, <2>4 DEF JobSaves
<1>5. CASE w.doc.hold # "active" /\ n # None /\ SaveAfter(r, reports)
  <2>1. n = w.doc.next /\ n \in w.mem
    BY <1>5 DEF Nexted, Find
  <2>2. h \in {"none", "active"} /\ (h = "active" => w.doc.hold = "pending")
    BY DEF HoldAfterTake
  <2> HIDE DEF n, h
  <2>3. /\ IsCache(r) /\ r.p = w.p /\ r.doc.cur = n
        /\ /\ AnotherFollows /\ PartsStay
           /\ w.doc.active /\ w.doc.next = n /\ n \in w.at.mine \ w.at.reset
           /\ w.doc.cur # None => w.doc.cur \in w.mem \cap w.at.taken /\ w.doc.cur # n
           /\ h = "active" => PartOf(w.doc.cur) \in HoldFrom /\ PartOf(n) \in HoldTo
           /\ w.doc.loop => \A j \in w.at.mine \ w.at.reset :
                j = n \/ (w.doc.cur # None /\ SegOf(j) = SegOf(w.doc.cur) /\ j \in w.mem)
           => Sound(r.doc, r.at)
    BY <1>2, <2>1, <2>2, TakenIsSound
  <2> HIDE DEF r
  <2>4. ASSUME OnePlaylist, AnotherFollows, SelectionInv
        PROVE  Sound(r.doc, r.at)
    <3>1. Sound(w.doc, w.at) /\ PartsStay
      BY <1>2, <2>4 DEF SelectionInv
    <3>2. w.doc.active /\ n \in w.at.mine \ w.at.reset
      BY <1>1, <1>2, <1>3, <2>1, <2>4
    <3>3. w.doc.cur # None => w.doc.cur \in w.mem \cap w.at.taken /\ w.doc.cur # n
      BY <1>3, <2>1, <2>4, <3>1 DEF Sound
    <3>4. h = "active" => PartOf(w.doc.cur) \in HoldFrom /\ PartOf(n) \in HoldTo
      BY <2>1, <2>2, <3>1 DEF Sound
    <3> QED BY <1>3, <2>1, <2>3, <2>4, <3>1, <3>2, <3>3, <3>4
  <2>5. r.doc.cur \in {None, playlist[r.p].cur, playlist[r.p].next}
    BY <1>2, <2>1, <2>3
  <2> QED BY <1>5, <2>3, <2>4, <2>5 DEF JobSaves
<1> QED BY <1>1, <1>4, <1>5

(* In a sound cache, outside of a hold, the next part may be set.          *)
LEMMA SoundIsSettled ==
  ASSUME NEW w, IsCache(w), Sound(w.doc, w.at), w.doc.active, w.doc.hold \notin {"pending", "active"},
         w.doc.next \in w.at.mine => w.doc.next \in w.mem, NEW part
  PROVE  Settled(w, part)
<1>1. None \notin w.mem /\ None \notin w.at.mine
  BY NoneIsNoId DEF IsCache, IsAt, Fields, Flags
<1>2. w.doc.next \in w.mem \/ w.doc.next \in w.at.mine => w.doc.next \notin w.at.taken
  BY <1>1 DEF Sound
<1> QED BY <1>1, <1>2 DEF Sound, Settled

(* A user sets or clears the next part.                                    *)
LEMMA SetNextSaves ==
  ASSUME TypeOK, NEW p \in Playlists, NEW part \in Parts \cup {NoPart}, NEW manual \in BOOLEAN,
         SetNextPart(p, part, manual)
  PROVE  JobSaves
<1> DEFINE w == CacheOf(p, inst)
           r == SetNext(w, part, manual)
<1>1. /\ playlist[p].active /\ playlist[p].hold \notin {"pending", "active"}
      /\ SaveAfter(r, reports)
  BY DEF SetNextPart, DuringHold, Save
<1>2. /\ IsCache(w) /\ Room(w) /\ w.p = p /\ w.doc = playlist[p] /\ w.at = inst
      /\ OnePlaylist /\ SelectionInv => Sound(w.doc, w.at)
  BY Begins
<1>3. OnePlaylist => Selected(w.doc) \cap w.at.mine \subseteq w.mem
  BY <1>1, <1>2, InstIsAt, ActiveLoads
<1> HIDE DEF w
<1>4. reports \subseteq Ids
  BY DEF TypeOK
<1>5. IsCache(r) /\ r.p = w.p /\ r.doc.cur = w.doc.cur
  BY <1>2, <1>4, SetNextKeeps
<1>6. Settled(w, part) => Sound(r.doc, r.at)
  BY <1>2, <1>4, SetNextIsSound
<1> HIDE DEF r
<1>7. OnePlaylist => (w.doc.next \in w.at.mine => w.doc.next \in w.mem)
  <2>1. None \notin w.at.mine
    BY <1>2, NoneIsNoId DEF IsCache, IsAt, Fields, Flags
  <2> QED BY <1>3, <2>1 DEF Selected
<1>8. OnePlaylist /\ SelectionInv => Settled(w, part)
  BY <1>1, <1>2, <1>7, SoundIsSettled
<1> QED BY <1>1, <1>2, <1>5, <1>6, <1>8 DEF JobSaves

(* A hold is activated or given up: only the state of the hold changes.    *)
LEMMA HoldSaves ==
  ASSUME TypeOK, NEW p \in Playlists, ActivateHold(p) \/ DeactivateHold(p)
  PROVE  JobSaves
<1> DEFINE w == CacheOf(p, inst)
<1>1. /\ IsCache(w) /\ w.p = p /\ w.doc = playlist[p] /\ w.at = inst
      /\ OnePlaylist /\ SelectionInv => Sound(w.doc, w.at)
  BY Begins
<1>2. PICK h \in {"pending", "none"} :
        /\ playlist[p].active
        /\ SaveAfter(WithDoc(w, [w.doc EXCEPT !.hold = h]), reports)
        /\ h = "pending" => PartOf(Current(w)) \in HoldFrom /\ PartOf(Nexted(w)) \in HoldTo
  <2>1. CASE ActivateHold(p)
    BY <2>1 DEF ActivateHold, Save
  <2>2. CASE DeactivateHold(p)
    BY <1>1, <2>2 DEF DeactivateHold, Save
  <2> QED BY <2>1, <2>2
<1> DEFINE d == [w.doc EXCEPT !.hold = h]
           r == WithDoc(w, d)
<1> HIDE DEF w
<1>3. /\ IsDoc(d) /\ d.hold = h /\ d.active = w.doc.active /\ d.loop = w.doc.loop
      /\ d.prev = w.doc.prev /\ d.cur = w.doc.cur /\ d.next = w.doc.next
  BY <1>1 DEF IsCache, IsDoc, HoldStates
<1> HIDE DEF d
<1>4. IsCache(r) /\ r.p = w.p /\ r.doc = d /\ r.at = w.at
  BY <1>1, <1>3, WithDocIs
<1>5. SaveAfter(r, reports)
  BY <1>2 DEF d
<1> HIDE DEF r
<1>6. h = "pending" => PartOf(w.doc.cur) \in HoldFrom /\ PartOf(w.doc.next) \in HoldTo
  <2>1. PartOf(None) \notin HoldFrom /\ PartOf(None) \notin HoldTo
    BY PartsAssumption DEF PartOf
  <2> QED BY <1>2, <2>1 DEF Current, Nexted, Find
<1>7. OnePlaylist /\ SelectionInv => Sound(r.doc, r.at)
  <2> SUFFICES ASSUME OnePlaylist, SelectionInv PROVE Sound(d, w.at)
    BY <1>4
  <2>1. Selected(d) = Selected(w.doc)
    BY <1>3 DEF Selected
  <2>2. h # "active"
    OBVIOUS
  <2>3. Sound(w.doc, w.at) /\ w.doc.active
    BY <1>1, <1>2
  <2> QED BY <1>3, <1>6, <2>1, <2>2, <2>3 DEF Sound
<1>8. r.doc.cur \in {None, playlist[r.p].cur, playlist[r.p].next}
  BY <1>1, <1>3, <1>4
<1> QED BY <1>4, <1>5, <1>7, <1>8 DEF JobSaves

(* A part starts on a gateway.                                             *)
LEMMA StartedSaves ==
  ASSUME TypeOK, NEW i \in Ids, PartPlaybackStarted(i)
  PROVE  JobSaves \/ (playlist' = playlist /\ inst' = inst /\ reports' \subseteq Ids)
<1> DEFINE p == OwnerOf(i)
           w == CacheOf(p, inst)
           taken == Flag(w, "taken", {i})
           heard == Flag(taken, "started", {i})
           r == SetNextAfter(ResetPreviousSegment(OnAir(heard, i, "none")), i)
<1>1. PICK left \in {reports, reports \ {i}} :
        \/ i \in w.mem /\ i = w.doc.cur /\ SaveAfter(heard, left)
        \/ i \in w.mem /\ i # w.doc.cur /\ i = w.doc.next /\ SaveAfter(r, left)
        \/ reports' = left /\ UNCHANGED <<playlist, inst>>
  BY DEF PartPlaybackStarted
<1>2. p \in Playlists /\ i \in AnyIds
  BY BoundsAssumption DEF Ids, OwnerOf, AnyIds
<1> HIDE DEF p
<1>3. /\ IsCache(w) /\ Room(w) /\ w.p = p /\ w.doc = playlist[p] /\ w.at = inst
      /\ OnePlaylist /\ SelectionInv => Sound(w.doc, w.at)
  BY <1>2, Begins
<1>4. playlist[p].active /\ OnePlaylist /\ SelectionInv =>
         /\ w.doc.cur # None => w.doc.cur \in w.mem
         /\ w.doc.next \in w.mem => w.doc.next \in w.at.mine \ w.at.reset /\ w.doc.next # w.doc.cur
         /\ w.doc.loop => \A j \in w.at.mine \ w.at.reset :
              j = w.doc.next \/ (w.doc.cur # None /\ SegOf(j) = SegOf(w.doc.cur) /\ j \in w.mem)
  BY <1>2, <1>3, BeginsActive
<1> HIDE DEF w
<1>5. i \in w.mem =>
         /\ IsCache(heard) /\ heard.p = w.p /\ heard.doc = w.doc /\ heard.mem = w.mem
         /\ heard.at.all = w.at.all /\ heard.at.mine = w.at.mine
         /\ heard.at.taken = w.at.taken \cup {i} /\ heard.at.reset = w.at.reset
  <2> SUFFICES ASSUME i \in w.mem
               PROVE  /\ IsCache(heard) /\ heard.p = w.p /\ heard.doc = w.doc /\ heard.mem = w.mem
                      /\ heard.at.all = w.at.all /\ heard.at.mine = w.at.mine
                      /\ heard.at.taken = w.at.taken \cup {i} /\ heard.at.reset = w.at.reset
    OBVIOUS
  <2> DEFINE I == {i}
  <2>1. I \in SUBSET w.at.all /\ taken = Flag(w, "taken", I) /\ heard = Flag(taken, "started", I)
    BY <1>3 DEF IsCache
  <2>2. /\ "taken" \in Flags /\ "started" \in Flags
        /\ {"mine", "reset"} \subseteq Fields \ {"taken"}
        /\ {"mine", "reset", "taken"} \subseteq Fields \ {"started"}
    BY DEF Fields, Flags
  <2> HIDE DEF heard, taken
  <2>3. /\ IsCache(taken) /\ taken.p = w.p /\ taken.doc = w.doc /\ taken.mem = w.mem
        /\ taken.at["taken"] = w.at["taken"] \cup I /\ taken.at.all = w.at.all
        /\ \A g \in Fields \ {"taken"} : taken.at[g] = w.at[g]
    <3> HIDE DEF I
    <3> QED BY <1>3, <2>1, <2>2, FlagIs
  <2>4. I \in SUBSET taken.at.all
    BY <2>1, <2>3
  <2> HIDE DEF I
  <2>5. /\ IsCache(heard) /\ heard.p = taken.p /\ heard.doc = taken.doc /\ heard.mem = taken.mem
        /\ heard.at.all = taken.at.all
        /\ \A g \in Fields \ {"started"} : heard.at[g] = taken.at[g]
    BY <2>1, <2>2, <2>3, <2>4, FlagIs
  <2> QED BY <2>2, <2>3, <2>5 DEF I
<1> HIDE DEF heard
<1>6. CASE i \in w.mem /\ i = w.doc.cur /\ SaveAfter(heard, left)
  <2>1. OnePlaylist /\ SelectionInv => Sound(heard.doc, heard.at)
    <3>1. i # None
      BY <1>2, NoneIsNoId
    <3> QED BY <1>3, <1>5, <1>6, <3>1 DEF Sound
  <2>2. heard.doc.cur \in {None, playlist[heard.p].cur, playlist[heard.p].next}
    BY <1>3, <1>5, <1>6
  <2> QED BY <1>5, <1>6, <2>1, <2>2 DEF JobSaves
<1>7. CASE i \in w.mem /\ i # w.doc.cur /\ i = w.doc.next /\ SaveAfter(r, left)
  <2>1. Room(heard) /\ "none" \in {"none", "active"}
    BY <1>3, <1>5, <1>7 DEF Room
  <2>2. /\ IsCache(r) /\ r.p = heard.p /\ r.doc.cur = i
        /\ /\ AnotherFollows /\ PartsStay
           /\ heard.doc.active /\ heard.doc.next = i /\ i \in heard.at.mine \ heard.at.reset
           /\ heard.doc.cur # None => heard.doc.cur \in heard.mem \cap heard.at.taken /\ heard.doc.cur # i
           /\ "none" = "active" => PartOf(heard.doc.cur) \in HoldFrom /\ PartOf(i) \in HoldTo
           /\ heard.doc.loop => \A j \in heard.at.mine \ heard.at.reset :
                j = i \/ (heard.doc.cur # None /\ SegOf(j) = SegOf(heard.doc.cur) /\ j \in heard.mem)
           => Sound(r.doc, r.at)
    <3>1. i \in heard.mem /\ IsCache(heard)
      BY <1>5, <1>7
    <3> QED BY <2>1, <3>1, TakenIsSound
  <2> HIDE DEF r
  <2>3. ASSUME OnePlaylist, AnotherFollows, SelectionInv
        PROVE  Sound(r.doc, r.at)
    <3>1. Sound(w.doc, w.at) /\ PartsStay
      BY <1>3, <2>3 DEF SelectionInv
    <3>2. w.doc.active
      <4>1. i # None
        BY <1>2, NoneIsNoId
      <4> QED BY <1>7, <3>1, <4>1 DEF Sound, Selected
    <3>3. i \in w.at.mine \ w.at.reset
      BY <1>3, <1>4, <1>7, <2>3, <3>2
    <3>4. w.doc.cur # None => w.doc.cur \in w.mem \cap (w.at.taken \cup {i}) /\ w.doc.cur # i
      BY <1>3, <1>4, <1>7, <2>3, <3>1, <3>2 DEF Sound
    <3>5. w.doc.loop => \A j \in w.at.mine \ w.at.reset :
            j = i \/ (w.doc.cur # None /\ SegOf(j) = SegOf(w.doc.cur) /\ j \in w.mem)
      BY <1>3, <1>4, <1>7, <2>3, <3>2
    <3> QED BY <1>5, <1>7, <2>2, <2>3, <3>1, <3>2, <3>3, <3>4, <3>5
  <2>4. r.doc.cur \in {None, playlist[r.p].cur, playlist[r.p].next}
    BY <1>3, <1>5, <1>7, <2>2
  <2> QED BY <1>7, <2>2, <2>3, <2>4 DEF JobSaves
<1>8. CASE reports' = left /\ UNCHANGED <<playlist, inst>>
  <2>1. left \subseteq Ids
    BY DEF TypeOK
  <2> QED BY <1>8, <2>1
<1> QED BY <1>1, <1>6, <1>7, <1>8

(* The instances of parts that are no longer there are to be reset, but    *)
(* for the one that is on air and the one that is next.                    *)
LEMMA BasicPropertiesIs ==
  ASSUME NEW p \in Playlists, NEW present
  PROVE  LET u == BasicProperties(p, present) IN
         /\ u.orphaned \subseteq inst.all /\ u.reset \subseteq inst.all
         /\ u.reset \cap {playlist[p].cur, playlist[p].next} = {}
BY DEF BasicProperties

(* Two flags are written.                                                  *)
LEMMA MarkedIs ==
  ASSUME NEW at, IsAt(at), NEW o \in SUBSET at.all, NEW r \in SUBSET at.all,
         NEW u, u = Marked(at, o, r)
  PROVE  /\ IsAt(u) /\ u.all = at.all /\ u.mine = at.mine /\ u.taken = at.taken
         /\ u.orphaned = o /\ u.reset = r
<1>0. u = [at EXCEPT !.orphaned = o, !.reset = r]
  BY DEF Marked
<1>1. /\ at \in [Fields -> SUBSET AnyIds] /\ \A f \in Flags : at[f] \subseteq at.all
      /\ "reset" \in Flags /\ "orphaned" \in Flags /\ Flags \subseteq Fields
      /\ {"all", "mine", "taken"} \subseteq Fields \ {"reset", "orphaned"}
  BY DEF IsAt, Fields, Flags
<1>2. at.all \subseteq AnyIds
  BY <1>1 DEF Fields
<1>3. /\ \A f \in Fields \ {"reset", "orphaned"} : u[f] = at[f]
      /\ u["reset"] = r /\ u["orphaned"] = o
  BY <1>0, <1>1
<1>4. u = [f \in Fields |-> u[f]]
  BY <1>0, <1>1
<1>5. \A f \in Fields : u[f] \in SUBSET AnyIds
  <2> SUFFICES ASSUME NEW f \in Fields PROVE u[f] \in SUBSET AnyIds
    OBVIOUS
  <2>1. CASE f \notin {"reset", "orphaned"}
    BY <1>1, <1>3, <2>1
  <2>2. CASE f \in {"reset", "orphaned"}
    BY <1>2, <1>3, <2>2
  <2> QED BY <2>1, <2>2
<1>6. u \in [Fields -> SUBSET AnyIds]
  BY <1>4, <1>5
<1>7. u.all = at.all /\ u.mine = at.mine /\ u.taken = at.taken
  BY <1>1, <1>3
<1>8. \A f \in Flags : u[f] \subseteq u.all
  BY <1>1, <1>3, <1>7
<1> QED BY <1>3, <1>6, <1>7, <1>8 DEF IsAt

(* What a query sees of the writes is some of them.                        *)
LEMMA RacingIs ==
  ASSUME NEW at, IsAt(at), NEW u, u.orphaned \subseteq at.all, u.reset \subseteq at.all,
         NEW seen \in Racing(at, u)
  PROVE  /\ IsAt(seen) /\ seen.all = at.all /\ seen.mine = at.mine /\ seen.taken = at.taken
         /\ at.reset \subseteq seen.reset /\ seen.reset \subseteq at.reset \cup u.reset
<1>1. PICK made \in [orphaned : SUBSET u.orphaned, reset : SUBSET u.reset] :
        seen = Marked(at, at.orphaned \cup made.orphaned, at.reset \cup made.reset)
  BY DEF Racing
<1>2. at.orphaned \subseteq at.all /\ at.reset \subseteq at.all
  BY DEF IsAt, Flags
<1> DEFINE O == at.orphaned \cup made.orphaned
           R == at.reset \cup made.reset
<1>3. seen = Marked(at, O, R)
  BY <1>1
<1>4. O \in SUBSET at.all /\ R \in SUBSET at.all /\ at.reset \subseteq R /\ R \subseteq at.reset \cup u.reset
  BY <1>2
<1> HIDE DEF O, R
<1> QED BY <1>3, <1>4, MarkedIs

(* What updatePartInstanceRanks writes is whether an instance is orphaned. *)
LEMMA RankedIs ==
  ASSUME NEW at, IsAt(at), NEW p, NEW present, NEW changed
  PROVE  LET r == Ranked(p, present, changed, at) IN
         /\ IsAt(r) /\ r.all = at.all /\ r.mine = at.mine /\ r.taken = at.taken
         /\ r.reset = at.reset
<1> DEFINE found == {i \in at.all \ at.reset : OwnerOf(i) = p /\ SegOf(i) \in changed}
           gone == {i \in found : PartOf(i) \notin present}
           O == (at.orphaned \ found) \cup gone
           R == at.reset
           r == Ranked(p, present, changed, at)
<1>1. r = Marked(at, O, R)
  BY DEF Ranked
<1>2. O \in SUBSET at.all /\ R \in SUBSET at.all
  BY DEF IsAt, Flags
<1> HIDE DEF O, R, r
<1>3. /\ IsAt(r) /\ r.all = at.all /\ r.mine = at.mine /\ r.taken = at.taken
      /\ r.reset = R
  BY <1>1, <1>2, MarkedIs
<1> QED BY <1>3 DEF r, R

(* What the cache of a commit sees.                                        *)
LEMMA SeenIs ==
  ASSUME TypeOK, NEW p, NEW present, NEW changed,
         NEW u, u.orphaned \subseteq inst.all, u.reset \subseteq inst.all,
         NEW seen \in SeenOf(p, present, changed, u)
  PROVE  /\ IsAt(seen) /\ seen.all = inst.all /\ seen.mine = inst.mine /\ seen.taken = inst.taken
         /\ inst.reset \subseteq seen.reset /\ seen.reset \subseteq inst.reset \cup u.reset
<1>0. PICK early \in Racing(inst, u) : seen \in Racing(Ranked(p, present, changed, early), u)
  BY DEF SeenOf
<1> DEFINE ranked == Ranked(p, present, changed, early)
<1>1. /\ IsAt(early) /\ early.all = inst.all /\ early.mine = inst.mine /\ early.taken = inst.taken
      /\ inst.reset \subseteq early.reset /\ early.reset \subseteq inst.reset \cup u.reset
  BY InstIsAt, RacingIs
<1>2. /\ IsAt(ranked) /\ ranked.all = early.all /\ ranked.mine = early.mine
      /\ ranked.taken = early.taken /\ ranked.reset = early.reset
  BY <1>1, RankedIs
<1> HIDE DEF ranked
<1>3. /\ IsAt(seen) /\ seen.all = ranked.all /\ seen.mine = ranked.mine /\ seen.taken = ranked.taken
      /\ ranked.reset \subseteq seen.reset /\ seen.reset \subseteq ranked.reset \cup u.reset
  <2>1. u.orphaned \subseteq ranked.all /\ u.reset \subseteq ranked.all /\ seen \in Racing(ranked, u)
    BY <1>0, <1>1, <1>2 DEF ranked
  <2> QED BY <1>2, <2>1, RacingIs
<1> QED BY <1>1, <1>2, <1>3

(* What was written is there when the commit is over.                      *)
LEMMA LandedIs ==
  ASSUME NEW w, IsCache(w), NEW u, NEW orphans
  PROVE  LET r == Landed(w, u, orphans) IN
         /\ IsCache(r) /\ r.p = w.p /\ r.doc = w.doc
         /\ r.at.all = w.at.all /\ r.at.mine = w.at.mine /\ r.at.taken = w.at.taken
         /\ r.at.reset = w.at.reset \cup (u.reset \cap w.at.all)
<1> DEFINE O == orphans \cap w.at.all
           R == u.reset \cap w.at.all
           one == Flag(w, "orphaned", O)
           r == Landed(w, u, orphans)
<1>1. r = Flag(one, "reset", R)
  BY DEF Landed
<1>2. /\ "orphaned" \in Flags /\ "reset" \in Flags
      /\ {"mine", "taken", "reset"} \subseteq Fields \ {"orphaned"}
      /\ {"mine", "taken"} \subseteq Fields \ {"reset"}
  BY DEF Fields, Flags
<1> HIDE DEF r
<1>3. /\ IsCache(one) /\ one.p = w.p /\ one.doc = w.doc
      /\ one.at.all = w.at.all /\ one.at.mine = w.at.mine
      /\ one.at.taken = w.at.taken /\ one.at.reset = w.at.reset
  <2>1. O \in SUBSET w.at.all
    OBVIOUS
  <2> HIDE DEF O
  <2>2. /\ IsCache(one) /\ one.p = w.p /\ one.doc = w.doc /\ one.at.all = w.at.all
        /\ \A g \in Fields \ {"orphaned"} : one.at[g] = w.at[g]
    BY <1>2, <2>1, FlagIs
  <2> HIDE DEF one
  <2> QED BY <1>2, <2>2
<1> HIDE DEF one
<1>4. R \in SUBSET one.at.all
  BY <1>3
<1>5. /\ IsCache(r) /\ r.p = one.p /\ r.doc = one.doc /\ r.at.all = one.at.all
      /\ r.at["reset"] = one.at["reset"] \cup R
      /\ \A g \in Fields \ {"reset"} : r.at[g] = one.at[g]
  <2> HIDE DEF R
  <2> QED BY <1>1, <1>2, <1>3, <1>4, FlagIs
<1> QED BY <1>2, <1>3, <1>5 DEF r

(* CommitIngestOperation, whatever its queries see of its own writes.      *)
LEMMA CommitSaves ==
  ASSUME TypeOK, NEW p \in Playlists, NEW present \in SUBSET Parts, NEW changed,
         NEW close \in BOOLEAN, CommitIngest(p, present, changed, close)
  PROVE  JobSaves
<1> DEFINE u == BasicProperties(p, present)
<1>0. PICK seen \in SeenOf(p, present, changed, u) :
      \E orphans \in SUBSET (u.orphaned \ seen.orphaned) :
        LET w == CacheOf(p, seen)
            chosen == SelectNext(present, w.doc.loop, PartOf(Current(w)))
        IN Save(Landed(IF MustChooseNext(w, present, close) /\ ~ DuringHold(w.doc.hold)
                       THEN SetNext(w, chosen, FALSE) ELSE w, u, orphans))
  BY DEF CommitIngest
<1> DEFINE w == CacheOf(p, seen)
           chosen == SelectNext(present, w.doc.loop, PartOf(Current(w)))
           must == MustChooseNext(w, present, close) /\ ~ DuringHold(w.doc.hold)
           s == IF must THEN SetNext(w, chosen, FALSE) ELSE w
<1>a. PICK orphans \in SUBSET (u.orphaned \ seen.orphaned) : Save(Landed(s, u, orphans))
  BY <1>0
<1> DEFINE r == Landed(s, u, orphans)
<1>1. SaveAfter(r, reports)
  BY <1>a DEF Save
<1>3. /\ u.orphaned \subseteq inst.all /\ u.reset \subseteq inst.all
      /\ u.reset \cap {playlist[p].cur, playlist[p].next} = {}
  BY BasicPropertiesIs
<1> HIDE DEF u
<1>4. /\ IsAt(seen) /\ seen.all = inst.all /\ seen.mine = inst.mine /\ seen.taken = inst.taken
      /\ inst.reset \subseteq seen.reset /\ seen.reset \subseteq inst.reset \cup u.reset
  BY <1>0, <1>3, SeenIs
<1>5. seen.all \subseteq Ids /\ reports \subseteq Ids
  BY <1>4, InstIsAt DEF TypeOK
<1>6. IsCache(w) /\ Room(w) /\ w.p = p /\ w.doc = playlist[p] /\ w.at = seen
  BY <1>4, <1>5, CacheOfIs
<1>7. OnePlaylist /\ w.doc.active => Selected(w.doc) \cap w.at.mine \subseteq w.mem
  BY <1>4, <1>5, <1>6, ActiveLoads
<1>8. must => w.doc.active /\ w.doc.hold \notin {"pending", "active"}
  BY DEF MustChooseNext, DuringHold
<1> HIDE DEF w, must
<1>9. OnePlaylist /\ SelectionInv => Sound(playlist[p], inst)
  BY SoundIs
<1>10. OnePlaylist /\ SelectionInv => Sound(w.doc, w.at)
  BY <1>3, <1>4, <1>6, <1>9 DEF Sound
<1>11. chosen \in Parts \cup {NoPart}
  <2> DEFINE c == Current(w)
             loop == w.doc.loop
             q == PartOf(c)
  <2>1. c \in AnyIds \cup {None} /\ loop \in BOOLEAN
    BY <1>6, BoundsAssumption DEF Current, Find, IsCache, IsDoc, IsAt, Fields
  <2>2. q \in Parts \cup {NoPart}
    BY <2>1, NoneIsNoId DEF PartOf, AnyIds
  <2>3. chosen = SelectNext(present, loop, q)
    OBVIOUS
  <2> HIDE DEF chosen, q, loop
  <2> QED BY <2>1, <2>2, <2>3, ChosenIsPart
<1> HIDE DEF chosen
<1>12. /\ IsCache(s) /\ s.p = w.p /\ s.doc.cur = w.doc.cur
       /\ s.doc.next # None => (s.doc.next = w.doc.next /\ s.doc.next \in w.at.all) \/ s.doc.next \notin w.at.all
       /\ s.doc.next \in w.at.all /\ s.doc.next \in s.at.mine => s.doc.next \in w.at.mine
       /\ OnePlaylist /\ SelectionInv => Sound(s.doc, s.at)
  <2>1. CASE ~ must
    <3>1. s = w
      BY <2>1
    <3>2. s.doc.next \in w.at.all \/ s.doc.next \notin w.at.all
      OBVIOUS
    <3> QED BY <1>6, <1>10, <3>1, <3>2
  <2>2. CASE must
    <3>1. s = SetNext(w, chosen, FALSE)
      BY <2>2
    <3> HIDE DEF s
    <3>2. /\ IsCache(s) /\ s.p = w.p /\ s.doc.cur = w.doc.cur
          /\ s.doc.next # None => \/ s.doc.next = w.doc.next /\ s.doc.next \in w.mem
                                  \/ s.doc.next \notin w.at.all /\ s.doc.next \in s.at.mine
          /\ s.doc.next \in w.at.all /\ s.doc.next \in s.at.mine => s.doc.next \in w.at.mine
      BY <1>5, <1>6, <1>11, <3>1, SetNextIs
    <3>3. w.mem \subseteq w.at.all /\ None \notin w.at.mine
      BY <1>6, NoneIsNoId DEF IsCache, IsAt, Fields, Flags
    <3>4. ASSUME OnePlaylist, SelectionInv
          PROVE  Sound(s.doc, s.at)
      <4>1. w.doc.next \in w.at.mine => w.doc.next \in w.mem
        BY <1>7, <1>8, <2>2, <3>3, <3>4 DEF Selected
      <4>2. Settled(w, chosen)
        BY <1>6, <1>8, <1>10, <2>2, <3>4, <4>1, SoundIsSettled
      <4> QED BY <1>5, <1>6, <1>11, <3>1, <4>2, SetNextIsSound
    <3> QED BY <3>2, <3>3, <3>4
  <2> QED BY <2>1, <2>2
<1> HIDE DEF s
<1>13. /\ IsCache(r) /\ r.p = s.p /\ r.doc = s.doc
       /\ r.at.all = s.at.all /\ r.at.mine = s.at.mine /\ r.at.taken = s.at.taken
       /\ r.at.reset = s.at.reset \cup (u.reset \cap s.at.all)
  BY <1>12, LandedIs
<1> HIDE DEF r
<1>14. ASSUME OnePlaylist, SelectionInv
       PROVE  Sound(r.doc, r.at)
  <2>1. Sound(s.doc, s.at) /\ Sound(playlist[p], inst)
    BY <1>9, <1>12, <1>14
  <2>2. s.doc.cur # None => s.doc.cur \notin u.reset
    BY <1>3, <1>6, <1>12, <2>1 DEF Sound
  <2>3. s.doc.next \in s.at.mine => s.doc.next \notin u.reset
    <3> SUFFICES ASSUME s.doc.next \in s.at.mine, s.doc.next \in u.reset PROVE FALSE
      OBVIOUS
    <3>1. s.doc.next \in w.at.all /\ s.doc.next # None
      <4>1. None \notin s.at.mine
        BY <1>12, NoneIsNoId DEF IsCache, IsAt, Fields, Flags
      <4> QED BY <1>3, <1>4, <1>6, <4>1
    <3>2. s.doc.next = playlist[p].next /\ s.doc.next \in inst.mine
      BY <1>4, <1>6, <1>12, <3>1
    <3> QED BY <1>3, <2>1, <3>2 DEF Sound
  <2> QED BY <1>13, <2>1, <2>2, <2>3 DEF Sound
<1>15. r.doc.cur \in {None, playlist[r.p].cur, playlist[r.p].next}
  BY <1>6, <1>12, <1>13
<1> QED BY <1>1, <1>13, <1>14, <1>15 DEF JobSaves

(***************************************************************************)
(* The steps of the system.                                                *)
(***************************************************************************)

(* A job writes documents, instances and reports of their types.           *)
LEMMA JobTypes ==
  ASSUME TypeOK, JobSaves, parts' \in [Playlists -> SUBSET Parts]
  PROVE  TypeOK'
<1>1. PICK w, unheard : IsCache(w) /\ SaveAfter(w, unheard)
  BY DEF JobSaves
<1>2. /\ playlist' \in [Playlists -> [active : BOOLEAN, rehearsal : BOOLEAN, loop : Loops,
                                      hold : HoldStates, manual : BOOLEAN,
                                      prev : Ids \cup {None}, cur : Ids \cup {None},
                                      next : Ids \cup {None}]]
      /\ inst' \in [Fields -> SUBSET Ids]
      /\ \A f \in Flags : inst'[f] \subseteq inst'.all
      /\ reports' \subseteq Ids
  BY <1>1, SaveIs
<1> QED BY <1>2 DEF TypeOK, Fields

(* What ingest does to the parts of a playlist.                            *)
Ingests(p) ==
  \/ \E q \in Removable, c \in BOOLEAN : UpdateSegment(p, q, c)
  \/ \E s \in RemovableSegments, c \in BOOLEAN : RemoveSegment(p, s, c)
  \/ \E s \in RemovableSegments, c \in BOOLEAN : RestoreSegment(p, s, c)

(* It is a commit that leaves the parts that are never removed.            *)
LEMMA IngestCommits ==
  ASSUME TypeOK, NEW p \in Playlists, Ingests(p)
  PROVE  \E present \in SUBSET Parts, close \in BOOLEAN : \E changed :
           CommitIngest(p, present, changed, close) /\ (PartsStay => Lasting \subseteq present)
<1>1. parts[p] \in SUBSET Parts /\ Removable \subseteq Parts
  BY PartsAssumption DEF TypeOK
<1>2. PartsStay => Lasting \subseteq parts[p]
  BY DEF PartsStay
<1>3. ASSUME NEW q \in Removable, NEW c \in BOOLEAN, UpdateSegment(p, q, c)
      PROVE  \E present \in SUBSET Parts, close \in BOOLEAN : \E changed :
               CommitIngest(p, present, changed, close) /\ (PartsStay => Lasting \subseteq present)
  <2> DEFINE present == IF q \in parts[p] THEN parts[p] \ {q} ELSE parts[p] \cup {q}
  <2>1. present \in SUBSET Parts /\ (PartsStay => Lasting \subseteq present)
    BY <1>1, <1>2 DEF Lasting
  <2>2. CommitIngest(p, present, {SegmentOf[q]}, c)
    BY <1>3 DEF UpdateSegment
  <2> HIDE DEF present
  <2> QED BY <2>1, <2>2
<1>4. ASSUME NEW s \in RemovableSegments, NEW c \in BOOLEAN, RemoveSegment(p, s, c)
      PROVE  \E present \in SUBSET Parts, close \in BOOLEAN : \E changed :
               CommitIngest(p, present, changed, close) /\ (PartsStay => Lasting \subseteq present)
  <2> DEFINE present == parts[p] \ PartsIn(s)
  <2>1. present \in SUBSET Parts /\ (PartsStay => Lasting \subseteq present)
    BY <1>1, <1>2 DEF Lasting, PartsIn
  <2>2. CommitIngest(p, present, {}, c)
    BY <1>4 DEF RemoveSegment
  <2> HIDE DEF present
  <2> QED BY <2>1, <2>2
<1>5. ASSUME NEW s \in RemovableSegments, NEW c \in BOOLEAN, RestoreSegment(p, s, c)
      PROVE  \E present \in SUBSET Parts, close \in BOOLEAN : \E changed :
               CommitIngest(p, present, changed, close) /\ (PartsStay => Lasting \subseteq present)
  <2> DEFINE present == parts[p] \cup PartsIn(s)
  <2>1. present \in SUBSET Parts /\ (PartsStay => Lasting \subseteq present)
    BY <1>1, <1>2 DEF PartsIn
  <2>2. CommitIngest(p, present, {s}, c)
    BY <1>5 DEF RestoreSegment
  <2> HIDE DEF present
  <2> QED BY <2>1, <2>2
<1> QED BY <1>3, <1>4, <1>5 DEF Ingests

(* A commit leaves parts of the playlist.                                  *)
LEMMA CommitParts ==
  ASSUME TypeOK, NEW p \in Playlists, NEW present \in SUBSET Parts, NEW changed,
         NEW close \in BOOLEAN, CommitIngest(p, present, changed, close),
         PartsStay => Lasting \subseteq present
  PROVE  parts' \in [Playlists -> SUBSET Parts] /\ (PartsStay => PartsStay')
<1>1. parts' = [parts EXCEPT ![p] = present] /\ parts \in [Playlists -> SUBSET Parts]
  BY DEF CommitIngest, TypeOK
<1>2. parts' \in [Playlists -> SUBSET Parts]
  BY <1>1
<1>3. \A q \in Playlists : parts'[q] = IF q = p THEN present ELSE parts[q]
  BY <1>1
<1> QED BY <1>2, <1>3 DEF PartsStay

(* Every step keeps the types, and is a job's, or one of the reports'.     *)
LEMMA StepIs ==
  ASSUME TypeOK, [Next]_vars
  PROVE  /\ TypeOK' /\ (PartsStay => PartsStay')
         /\ JobSaves \/ (playlist' = playlist /\ inst' = inst)
<1>1. parts \in [Playlists -> SUBSET Parts] /\ reports \subseteq Ids
  BY DEF TypeOK
<1>2. ASSUME UNCHANGED parts PROVE parts' \in [Playlists -> SUBSET Parts] /\ (PartsStay => PartsStay')
  BY <1>1, <1>2 DEF PartsStay
<1>3. ASSUME UNCHANGED <<playlist, inst, parts>>, reports' \subseteq Ids
      PROVE  TypeOK'
  BY <1>3 DEF TypeOK
<1>4. ASSUME NEW p \in Playlists, NEW r \in BOOLEAN, ActivateRundownPlaylist(p, r)
      PROVE  JobSaves /\ UNCHANGED parts
  BY <1>4, ActivateSaves DEF ActivateRundownPlaylist
<1>5. ASSUME NEW p \in Playlists, NEW a \in {"no", "rehearsal", "active"}, ResetRundownPlaylist(p, a)
      PROVE  JobSaves /\ UNCHANGED parts
  BY <1>5, ResetSaves DEF ResetRundownPlaylist
<1>6. ASSUME NEW p \in Playlists, DeactivateRundownPlaylist(p)
      PROVE  JobSaves /\ UNCHANGED parts
  BY <1>6, DeactivateSaves DEF DeactivateRundownPlaylist
<1>7. ASSUME NEW p \in Playlists, TakeNextPart(p)
      PROVE  JobSaves /\ UNCHANGED parts
  BY <1>7, TakeSaves DEF TakeNextPart
<1>8. ASSUME NEW p \in Playlists, NEW q \in Parts \cup {NoPart}, NEW m \in BOOLEAN, SetNextPart(p, q, m)
      PROVE  JobSaves /\ UNCHANGED parts
  BY <1>8, SetNextSaves DEF SetNextPart
<1>9. ASSUME NEW p \in Playlists, ActivateHold(p) \/ DeactivateHold(p)
      PROVE  JobSaves /\ UNCHANGED parts
  BY <1>9, HoldSaves DEF ActivateHold, DeactivateHold
<1>10. ASSUME NEW p \in Playlists, GatewayStarts(p)
       PROVE  UNCHANGED <<playlist, inst, parts>> /\ reports' \subseteq Ids
  <2>1. TimelineOf(playlist[p]) \subseteq Ids
    BY DEF TimelineOf, TypeOK
  <2> QED BY <1>1, <1>10, <2>1 DEF GatewayStarts
<1>11. ASSUME NEW i \in Ids, PartPlaybackStarted(i)
       PROVE  /\ JobSaves \/ (playlist' = playlist /\ inst' = inst /\ reports' \subseteq Ids)
              /\ UNCHANGED parts
  BY <1>11, StartedSaves DEF PartPlaybackStarted
<1>12. ASSUME NEW p \in Playlists, Ingests(p)
       PROVE  JobSaves /\ parts' \in [Playlists -> SUBSET Parts] /\ (PartsStay => PartsStay')
  BY <1>12, IngestCommits, CommitSaves, CommitParts
<1>13. ASSUME JobSaves /\ UNCHANGED parts
       PROVE  TypeOK' /\ (PartsStay => PartsStay')
  BY <1>2, <1>13, JobTypes
<1>14. ASSUME UNCHANGED <<playlist, inst, parts>> /\ reports' \subseteq Ids
       PROVE  TypeOK' /\ (PartsStay => PartsStay')
  BY <1>2, <1>3, <1>14
<1>15. CASE UNCHANGED vars
  BY <1>1, <1>14, <1>15 DEF vars
<1>16. CASE Next
  BY <1>4, <1>5, <1>6, <1>7, <1>8, <1>9, <1>10, <1>11, <1>12, <1>13, <1>14, <1>16, JobTypes DEF Next, Ingests
<1> QED BY <1>15, <1>16

(* The part that a cache is set to is the next one of what it becomes.     *)
NextIs(r, w, part) ==
  /\ IsCache(r) /\ r.p = w.p
  /\ IF part = NoPart THEN r.doc.next = None ELSE PartOf(r.doc.next) = part

LEMMA NextIsSet ==
  ASSUME NEW w, IsCache(w), Room(w), reports \subseteq Ids,
         NEW part \in Parts \cup {NoPart}, NEW manual \in BOOLEAN
  PROVE  NextIs(SetNext(w, part, manual), w, part)
<1> DEFINE r == SetNext(w, part, manual)
<1>1. /\ IsCache(r) /\ r.p = w.p
      /\ part = NoPart => r.doc.next = None
      /\ part # NoPart => PartOf(r.doc.next) = part
  BY SetNextIs
<1> HIDE DEF r
<1>2. NextIs(r, w, part)
  BY <1>1 DEF NextIs
<1> QED BY <1>2 DEF r

(* A sound selection stays sound.                                          *)
LEMMA SelectionStep ==
  ASSUME OnePlaylist, AnotherFollows, TypeOK, SelectionInv, [Next]_vars
  PROVE  SelectionInv'
<1>1. PartsStay' /\ (JobSaves \/ (playlist' = playlist /\ inst' = inst))
  BY StepIs DEF SelectionInv
<1>2. CASE JobSaves
  <2>1. PICK w, unheard : IsCache(w) /\ SaveAfter(w, unheard) /\ Sound(w.doc, w.at)
    BY <1>2 DEF JobSaves
  <2> QED BY <1>1, <2>1, SavedIsSound
<1>3. CASE playlist' = playlist /\ inst' = inst
  BY <1>1, <1>3 DEF SelectionInv, SelectionIsSound, Sel, SelectedExist, HoldSpansItsParts,
                    OnAirIsFound, NextIsUnused, LeftIsAround
<1> QED BY <1>1, <1>2, <1>3

(* Nothing is selected to begin with.                                      *)
LEMMA SelectionInit ==
  ASSUME Init
  PROVE  TypeOK /\ SelectionInv
<1>1. inst = [f \in Flags \cup {"all"} |-> {}] /\ parts = [p \in Playlists |-> Parts] /\ reports = {}
  BY DEF Init
<1> DEFINE D == {[active |-> FALSE, rehearsal |-> FALSE, loop |-> l, hold |-> "none", manual |-> FALSE,
                  prev |-> None, cur |-> None, next |-> None] : l \in Loops}
           R == [active : BOOLEAN, rehearsal : BOOLEAN, loop : Loops, hold : HoldStates, manual : BOOLEAN,
                 prev : Ids \cup {None}, cur : Ids \cup {None}, next : Ids \cup {None}]
<1>0. playlist \in [Playlists -> D]
  BY DEF Init
<1>2. \A d \in D : /\ d \in R /\ d.hold = "none"
                   /\ d.cur = None /\ d.next = None /\ d.prev = None
  <2> SUFFICES ASSUME NEW d \in D
               PROVE  d \in R /\ d.hold = "none" /\ d.cur = None /\ d.next = None /\ d.prev = None
    OBVIOUS
  <2>1. \E l \in Loops :
          d = [active |-> FALSE, rehearsal |-> FALSE, loop |-> l, hold |-> "none", manual |-> FALSE,
               prev |-> None, cur |-> None, next |-> None]
    OBVIOUS
  <2>2. "none" \in HoldStates /\ None \in Ids \cup {None} /\ FALSE \in BOOLEAN
    BY DEF HoldStates
  <2> HIDE DEF D
  <2> QED BY <2>1, <2>2
<1>9. playlist \in [Playlists -> R]
  <2> HIDE DEF D, R
  <2> QED BY <1>0, <1>2
<1>3. \A f \in Fields : inst[f] = {}
  BY <1>1 DEF Fields
<1>4. {"all", "mine", "taken", "reset"} \subseteq Fields
  BY DEF Fields, Flags
<1>5. TypeOK
  BY <1>1, <1>3, <1>9 DEF TypeOK, Fields
<1>6. \A p \in Playlists : /\ Selected(playlist[p]) = {} /\ playlist[p].hold = "none"
                           /\ playlist[p].cur = None /\ playlist[p].next = None /\ playlist[p].prev = None
  <2> HIDE DEF D, R
  <2> QED BY <1>0, <1>2 DEF Selected
<1>7. inst.mine = {} /\ inst.all = {}
  BY <1>3, <1>4
<1>8. SelectionInv
  BY <1>1, <1>6, <1>7 DEF SelectionInv, SelectionIsSound, Sel, SelectedExist, HoldSpansItsParts,
                         OnAirIsFound, NextIsUnused, LeftIsAround, PartsStay, Lasting
<1> QED BY <1>5, <1>8

(***************************************************************************)
(* The theorems.                                                           *)
(***************************************************************************)

(* Whatever jobs, reports and commits there are, documents, instances,     *)
(* parts and reports have the form TypeOK says, with several playlists,    *)
(* too.                                                                    *)
THEOREM TypeCorrect == Spec => []TypeOK
<1>1. Init => TypeOK
  BY SelectionInit
<1>2. TypeOK /\ [Next]_vars => TypeOK'
  BY StepIs
<1> QED BY <1>1, <1>2, PTL DEF Spec

(* The inductive invariant.                                                *)
THEOREM SelectionInvHolds ==
  ASSUME OnePlaylist, AnotherFollows
  PROVE  Spec => []SelectionInv
<1>1. Init => SelectionInv
  BY SelectionInit
<1>2. TypeOK /\ SelectionInv /\ [Next]_vars => SelectionInv'
  BY SelectionStep
<1> QED BY <1>1, <1>2, TypeCorrect, PTL DEF Spec

(* What is on air was taken and not reset, what is next was never played,  *)
(* and an inactive playlist has nothing selected.                          *)
THEOREM SelectionIsSoundHolds ==
  ASSUME OnePlaylist, AnotherFollows
  PROVE  Spec => []SelectionIsSound
<1>1. SelectionInv => SelectionIsSound
  BY DEF SelectionInv
<1> QED BY <1>1, SelectionInvHolds, PTL

(* No removal and no reset leaves a playlist referring to an instance that *)
(* is not there.                                                           *)
THEOREM SelectedExistHolds ==
  ASSUME OnePlaylist, AnotherFollows
  PROVE  Spec => []SelectedExist
<1>1. SelectionInv => SelectedExist
  BY DEF SelectionInv
<1> QED BY <1>1, SelectionInvHolds, PTL

(* A hold is between the parts it was activated for.                       *)
THEOREM HoldSpansItsPartsHolds ==
  ASSUME OnePlaylist, AnotherFollows
  PROVE  Spec => []HoldSpansItsParts
<1>1. SelectionInv => HoldSpansItsParts
  BY DEF SelectionInv
<1> QED BY <1>1, SelectionInvHolds, PTL

(* In a playlist that loops no instance of a segment that is over is left. *)
THEOREM LoopLeavesNothingHolds ==
  ASSUME OnePlaylist, AnotherFollows
  PROVE  Spec => []LoopLeavesNothing
<1>1. TypeOK /\ SelectionInv => LoopLeavesNothing
  <2> SUFFICES ASSUME TypeOK, SelectionInv, NEW p \in Playlists, NEW i \in inst.mine \ inst.reset,
                      playlist[p].loop, OwnerOf(i) = p
               PROVE  \E j \in {playlist[p].cur, playlist[p].next} \ {None} : SegOf(i) = SegOf(j)
    BY DEF LoopLeavesNothing
  <2>1. i = playlist[p].next \/ (playlist[p].cur # None /\ SegOf(i) = SegOf(playlist[p].cur))
    BY DEF SelectionInv, LeftIsAround
  <2>2. i # None
    BY InstIsAt, NoneIsNoId DEF IsAt, Fields, Flags
  <2> QED BY <2>1, <2>2
<1> QED BY <1>1, TypeCorrect, SelectionInvHolds, PTL

(* Only what was next goes on air, and only what was never taken: a late   *)
(* or repeated report puts nothing on air again.                           *)
THEOREM CurrentIsFreshHolds ==
  ASSUME OnePlaylist, AnotherFollows
  PROVE  Spec => CurrentIsFresh
<1>1. ASSUME TypeOK, SelectionInv, [Next]_vars, NEW p \in Playlists,
             playlist'[p].cur \notin {playlist[p].cur, None}
      PROVE  playlist'[p].cur = playlist[p].next /\ playlist'[p].cur \notin inst.taken
  <2>1. JobSaves
    BY <1>1, StepIs
  <2>2. PICK w, unheard : /\ IsCache(w) /\ SaveAfter(w, unheard)
                          /\ w.doc.cur \in {None, playlist[w.p].cur, playlist[w.p].next}
    BY <2>1 DEF JobSaves
  <2>3. playlist'[p].cur = playlist[p].next
    <3>1. playlist' = [playlist EXCEPT ![w.p] = w.doc] /\ w.p \in Playlists
      BY <1>1, <2>2, SaveIs DEF IsCache
    <3>2. p = w.p
      BY <3>1 DEF OnePlaylist
    <3>3. playlist'[p] = w.doc
      BY <1>1, <3>1, <3>2 DEF TypeOK
    <3> QED BY <1>1, <2>2, <3>2, <3>3
  <2>4. Sound(playlist[p], inst)
    BY <1>1, SoundIs
  <2> QED BY <1>1, <2>3, <2>4 DEF Sound
<1>2. TypeOK /\ SelectionInv /\ [Next]_vars =>
        [\A p \in Playlists :
           LET was == playlist[p].cur
               is == playlist'[p].cur
           IN is \notin {was, None} => is = playlist[p].next /\ is \notin inst.taken]_vars
  BY <1>1
<1> QED BY <1>2, TypeCorrect, SelectionInvHolds, PTL DEF Spec, CurrentIsFresh

(* ensureNextPartIsValid: the next part is the one that follows, or it is  *)
(* chosen anew.                                                            *)
LEMMA CommitFollows ==
  ASSUME OnePlaylist, TypeOK, SelectionInv, NEW p \in Playlists,
         NEW present \in SUBSET Parts, NEW changed, NEW close \in BOOLEAN,
         CommitIngest(p, present, changed, close),
         NextMayMove(p), ~ playlist[p].manual, playlist[p].cur # None
  PROVE  PartOf(playlist'[p].next) = SelectNext(parts'[p], playlist[p].loop, PartOf(playlist[p].cur))
<1> DEFINE u == BasicProperties(p, present)
<1>0. PICK seen \in SeenOf(p, present, changed, u) :
      \E orphans \in SUBSET (u.orphaned \ seen.orphaned) :
        LET w == CacheOf(p, seen)
            chosen == SelectNext(present, w.doc.loop, PartOf(Current(w)))
        IN Save(Landed(IF MustChooseNext(w, present, close) /\ ~ DuringHold(w.doc.hold)
                       THEN SetNext(w, chosen, FALSE) ELSE w, u, orphans))
  BY DEF CommitIngest
<1> DEFINE w == CacheOf(p, seen)
           chosen == SelectNext(present, w.doc.loop, PartOf(Current(w)))
           must == MustChooseNext(w, present, close) /\ ~ DuringHold(w.doc.hold)
           s == IF must THEN SetNext(w, chosen, FALSE) ELSE w
<1>b. PICK orphans \in SUBSET (u.orphaned \ seen.orphaned) : Save(Landed(s, u, orphans))
  BY <1>0
<1> DEFINE r == Landed(s, u, orphans)
<1>1. SaveAfter(r, reports) /\ ~ close
  BY <1>b DEF Save, CommitIngest, NextMayMove
<1>2. parts'[p] = present
  BY DEF CommitIngest, TypeOK
<1>3. u.orphaned \subseteq inst.all /\ u.reset \subseteq inst.all
  BY BasicPropertiesIs
<1> HIDE DEF u
<1>4. IsAt(seen) /\ seen.all = inst.all /\ seen.mine = inst.mine
  BY <1>0, <1>3, SeenIs
<1>5. seen.all \subseteq Ids /\ reports \subseteq Ids
  BY <1>4, InstIsAt DEF TypeOK
<1>6. IsCache(w) /\ Room(w) /\ w.p = p /\ w.doc = playlist[p] /\ w.at = seen
  BY <1>4, <1>5, CacheOfIs
<1>7. Selected(w.doc) \cap w.at.mine \subseteq w.mem
  BY <1>4, <1>5, <1>6, ActiveLoads DEF NextMayMove
<1>8. must <=> MustChooseNext(w, present, close)
  BY <1>6 DEF NextMayMove
<1> HIDE DEF w, must
<1>9. Current(w) = playlist[p].cur
  <2>1. playlist[p].cur \in inst.mine
    BY SoundIs DEF Sound
  <2> QED BY <1>4, <1>6, <1>7, <2>1 DEF Current, Find, Selected
<1>10. chosen = SelectNext(parts'[p], playlist[p].loop, PartOf(playlist[p].cur))
  BY <1>2, <1>6, <1>9
<1>11. chosen \in Parts \cup {NoPart}
  <2> DEFINE q == PartOf(playlist[p].cur)
             loop == playlist[p].loop
  <2>1. loop \in BOOLEAN
    BY BoundsAssumption DEF TypeOK
  <2>2. q \in Parts \cup {NoPart}
    BY DEF TypeOK, PartOf, Ids
  <2>3. chosen = SelectNext(present, loop, q)
    BY <1>2, <1>10
  <2> HIDE DEF chosen, q, loop
  <2> QED BY <1>2, <2>1, <2>2, <2>3, ChosenIsPart
<1>12. IsCache(s) /\ s.p = p /\ PartOf(s.doc.next) = chosen
  <2>1. CASE must
    <3>1. s = SetNext(w, chosen, FALSE)
      BY <2>1
    <3> HIDE DEF s, chosen
    <3>2. IsCache(w) /\ Room(w) /\ reports \subseteq Ids
      BY <1>5, <1>6
    <3>a. NextIs(s, w, chosen)
      BY <1>11, <3>1, <3>2, NextIsSet
    <3>3. PartOf(None) = NoPart
      BY DEF PartOf
    <3> QED BY <1>6, <3>a, <3>3 DEF NextIs
  <2>2. CASE ~ must
    <3>1. s = w
      BY <2>2
    <3>2. ~ KeepManual(w) /\ w.doc.active
      BY <1>6 DEF KeepManual, NextMayMove
    <3>3. SelectNext(present, w.doc.loop, PartOf(Current(w))) = PartOf(Nexted(w)) /\ Nexted(w) # None
      BY <1>1, <1>8, <1>9, <2>2, <3>2 DEF MustChooseNext
    <3>4. Nexted(w) = w.doc.next
      BY <3>3 DEF Nexted, Find
    <3> QED BY <1>6, <3>1, <3>3, <3>4
  <2> QED BY <2>1, <2>2
<1> HIDE DEF s, chosen
<1>13. IsCache(r) /\ r.p = s.p /\ r.doc = s.doc
  BY <1>12, LandedIs
<1> HIDE DEF r
<1>14. playlist' = [playlist EXCEPT ![r.p] = r.doc]
  BY <1>1, <1>13, SaveIs
<1>15. playlist'[p] = s.doc
  BY <1>12, <1>13, <1>14 DEF TypeOK
<1> QED BY <1>10, <1>12, <1>15

(* After every commit that may move the next part, the one that nobody     *)
(* chose by hand follows what is on air.                                   *)
THEOREM AutomaticNextFollowsHolds ==
  ASSUME OnePlaylist, AnotherFollows
  PROVE  Spec => AutomaticNextFollows
<1>1. ASSUME TypeOK, SelectionInv, [Next]_vars, NEW p \in Playlists,
             parts'[p] # parts[p], NextMayMove(p), ~ playlist[p].manual, playlist[p].cur # None
      PROVE  PartOf(playlist'[p].next) = SelectNext(parts'[p], playlist[p].loop, PartOf(playlist[p].cur))
  <2>1. \E q \in Playlists : Ingests(q)
    BY <1>1 DEF Next, Ingests, vars, ActivateRundownPlaylist, ResetRundownPlaylist, DeactivateRundownPlaylist,
                TakeNextPart, SetNextPart, ActivateHold, DeactivateHold, GatewayStarts, PartPlaybackStarted
  <2>2. Ingests(p)
    BY <2>1 DEF OnePlaylist
  <2>3. \E present \in SUBSET Parts, close \in BOOLEAN : \E changed :
          CommitIngest(p, present, changed, close)
    BY <1>1, <2>2, IngestCommits
  <2> QED BY <1>1, <2>3, CommitFollows
<1>2. TypeOK /\ SelectionInv /\ [Next]_vars =>
        [\A p \in Playlists :
           LET was == playlist[p]
           IN parts'[p] # parts[p] /\ NextMayMove(p) /\ ~ was.manual /\ was.cur # None =>
                PartOf(playlist'[p].next) = SelectNext(parts'[p], was.loop, PartOf(was.cur))]_vars
  BY <1>1
<1> QED BY <1>2, TypeCorrect, SelectionInvHolds, PTL DEF Spec, AutomaticNextFollows
=============================================================================

------------------------ MODULE RundownHomes_proofs ------------------------
(***************************************************************************)
(* A rundown that no job works on is listed by its playlist and has its    *)
(* data, and the order that a user has given stays, for any rundowns,      *)
(* playlists, jobs and failures.                                           *)
(***************************************************************************)
EXTENDS RundownMoves_proofs, Filter_proofs

(***************************************************************************)
(* Orders of rundowns.                                                     *)
(***************************************************************************)

IsOrder(q) == q \in Seq(Rundowns) /\ IsInjective(q)

(* What is filtered is an order of what is left, in the same order.        *)
LEMMA OnlyIsOrder ==
  ASSUME NEW q, IsOrder(q), NEW S
  PROVE  IsOrder(Only(q, S)) /\ ToSet(Only(q, S)) = ToSet(q) \cap S
<1>1. q \in Seq(Rundowns) /\ \A i, j \in DOMAIN q : q[i] = q[j] => i = j
  BY DEF IsOrder, IsInjective
<1>2. IsOrder(Only(q, S))
  BY <1>1, OnlyHas, OnlyOnce DEF IsOrder, IsInjective
<1>3. \A x : x \in ToSet(Only(q, S)) <=> x \in ToSet(q) /\ x \in S
  <2> DEFINE p == Only(q, S)
  <2>1. /\ \A k \in DOMAIN p : \E i \in DOMAIN q : p[k] = q[i] /\ q[i] \in S
        /\ \A i \in DOMAIN q : q[i] \in S => \E k \in DOMAIN p : p[k] = q[i]
    BY <1>1, OnlyHas
  <2> HIDE DEF p
  <2>2. ASSUME NEW x \in ToSet(p) PROVE x \in ToSet(q) /\ x \in S
    BY <2>1 DEF ToSet
  <2>3. ASSUME NEW x \in ToSet(q), x \in S PROVE x \in ToSet(p)
    BY <2>1, <2>3 DEF ToSet
  <2> QED BY <2>2, <2>3 DEF p
<1> QED BY <1>2, <1>3

(* Two orders that share nothing, one after the other.                     *)
LEMMA OrdersConcat ==
  ASSUME NEW p, IsOrder(p), NEW q, IsOrder(q), ToSet(p) \cap ToSet(q) = {}
  PROVE  /\ IsOrder(p \o q) /\ ToSet(p \o q) = ToSet(p) \cup ToSet(q)
         /\ \A x, y : Precedes(p, x, y) => Precedes(p \o q, x, y)
<1> DEFINE s == p \o q
<1>1. /\ p \in Seq(Rundowns) /\ Len(p) \in Nat /\ DOMAIN p = 1 .. Len(p)
      /\ q \in Seq(Rundowns) /\ Len(q) \in Nat /\ DOMAIN q = 1 .. Len(q)
  BY DEF IsOrder
<1>2. /\ s \in Seq(Rundowns) /\ Len(s) = Len(p) + Len(q)
      /\ \A i \in 1 .. Len(s) : s[i] = IF i <= Len(p) THEN p[i] ELSE q[i - Len(p)]
  BY <1>1, ConcatProperties
<1> HIDE DEF s
<1>3. DOMAIN s = 1 .. Len(s)
  BY <1>2
<1>4. \A i \in DOMAIN s : IF i <= Len(p) THEN i \in DOMAIN p /\ s[i] = p[i]
                          ELSE i - Len(p) \in DOMAIN q /\ s[i] = q[i - Len(p)]
  BY <1>1, <1>2, <1>3
<1>5. \A i \in DOMAIN p : i \in DOMAIN s /\ s[i] = p[i]
  BY <1>1, <1>2, <1>3
<1>6. \A i \in DOMAIN q : i + Len(p) \in DOMAIN s /\ s[i + Len(p)] = q[i]
  BY <1>1, <1>2, <1>3
<1>7. \A i \in DOMAIN p, j \in DOMAIN q : p[i] # q[j]
  BY DEF ToSet
<1>8. ASSUME NEW i \in DOMAIN s, NEW j \in DOMAIN s, s[i] = s[j] PROVE i = j
  <2>0. i \in Int /\ j \in Int
    BY <1>3
  <2>1. CASE i <= Len(p) /\ j <= Len(p)
    BY <1>4, <1>8, <2>1 DEF IsOrder, IsInjective
  <2>2. CASE ~(i <= Len(p)) /\ ~(j <= Len(p))
    <3>1. i - Len(p) = j - Len(p)
      BY <1>4, <1>8, <2>2 DEF IsOrder, IsInjective
    <3> QED BY <1>1, <2>0, <3>1
  <2>3. CASE i <= Len(p) /\ ~(j <= Len(p))
    BY <1>4, <1>7, <1>8, <2>3
  <2>4. CASE ~(i <= Len(p)) /\ j <= Len(p)
    BY <1>4, <1>7, <1>8, <2>4
  <2> QED BY <2>1, <2>2, <2>3, <2>4
<1>9. IsOrder(s)
  BY <1>2, <1>8 DEF IsOrder, IsInjective
<1>10. \A x : x \in ToSet(s) <=> x \in ToSet(p) \/ x \in ToSet(q)
  <2>1. ASSUME NEW x \in ToSet(s) PROVE x \in ToSet(p) \/ x \in ToSet(q)
    BY <1>4 DEF ToSet
  <2>2. ASSUME NEW x \in ToSet(p) PROVE x \in ToSet(s)
    BY <1>5 DEF ToSet
  <2>3. ASSUME NEW x \in ToSet(q) PROVE x \in ToSet(s)
    BY <1>6 DEF ToSet
  <2> QED BY <2>1, <2>2, <2>3
<1>11. \A x, y : Precedes(p, x, y) => Precedes(s, x, y)
  BY <1>5 DEF Precedes
<1> QED BY <1>9, <1>10, <1>11 DEF s

(* A stretch of an order.                                                  *)
LEMMA StretchIsOrder ==
  ASSUME NEW q, IsOrder(q), NEW m \in Nat \ {0}, NEW n \in 0 .. Len(q)
  PROVE  /\ IsOrder(SubSeq(q, m, n))
         /\ \A x : x \in ToSet(SubSeq(q, m, n)) <=> \E i \in DOMAIN q : m <= i /\ i <= n /\ q[i] = x
<1> DEFINE s == SubSeq(q, m, n)
<1>1. q \in Seq(Rundowns) /\ Len(q) \in Nat /\ DOMAIN q = 1 .. Len(q)
  BY DEF IsOrder
<1>2. /\ s \in Seq(Rundowns) /\ Len(s) = IF m <= n THEN n - m + 1 ELSE 0
      /\ \A i \in 1 .. n - m + 1 : s[i] = q[m + i - 1]
  BY <1>1
<1> HIDE DEF s
<1>3. DOMAIN s = 1 .. Len(s) /\ \A i \in DOMAIN s : m + i - 1 \in DOMAIN q /\ m <= m + i - 1 /\ m + i - 1 <= n
                                                  /\ s[i] = q[m + i - 1]
  BY <1>1, <1>2
<1>4. ASSUME NEW i \in DOMAIN s, NEW j \in DOMAIN s, s[i] = s[j] PROVE i = j
  <2>1. m + i - 1 = m + j - 1
    BY <1>3, <1>4 DEF IsOrder, IsInjective
  <2> QED BY <1>2, <1>3, <2>1
<1>5. \A i \in DOMAIN q : m <= i /\ i <= n => i - m + 1 \in DOMAIN s /\ s[i - m + 1] = q[i]
  BY <1>1, <1>2, <1>3
<1>6. \A x : x \in ToSet(s) <=> \E i \in DOMAIN q : m <= i /\ i <= n /\ q[i] = x
  <2>1. ASSUME NEW x \in ToSet(s) PROVE \E i \in DOMAIN q : m <= i /\ i <= n /\ q[i] = x
    <3>1. PICK i \in DOMAIN s : s[i] = x
      BY DEF ToSet
    <3> WITNESS m + i - 1 \in DOMAIN q
    <3> QED BY <1>3, <3>1
  <2>2. ASSUME NEW x, NEW i \in DOMAIN q, m <= i, i <= n, q[i] = x PROVE x \in ToSet(s)
    BY <1>5, <2>2 DEF ToSet
  <2> QED BY <2>1, <2>2
<1> QED BY <1>2, <1>4, <1>6 DEF IsOrder, IsInjective, s

(* One more rundown, at some place of an order.                            *)
LEMMA InsertIsOrder ==
  ASSUME NEW q, IsOrder(q), NEW r \in Rundowns, r \notin ToSet(q), NEW i \in 1 .. Len(q) + 1
  PROVE  IsOrder(InsertAt(q, i, r)) /\ IsOrder(Append(q, r))
<1>0. q \in Seq(Rundowns) /\ Len(q) \in Nat /\ DOMAIN q = 1 .. Len(q)
  BY DEF IsOrder
<1> DEFINE a == SubSeq(q, 1, i - 1)
           b == SubSeq(q, i, Len(q))
<1>1. IsOrder(<<r>>) /\ ToSet(<<r>>) = {r}
  BY DEF IsOrder, IsInjective, ToSet
<1>2. IsOrder(a) /\ \A x : x \in ToSet(a) <=> \E k \in DOMAIN q : 1 <= k /\ k <= i - 1 /\ q[k] = x
  <2>1. i - 1 \in 0 .. Len(q)
    BY <1>0
  <2> QED BY <2>1, StretchIsOrder
<1>3. IsOrder(b) /\ \A x : x \in ToSet(b) <=> \E k \in DOMAIN q : i <= k /\ k <= Len(q) /\ q[k] = x
  <2>1. i \in Nat \ {0} /\ Len(q) \in 0 .. Len(q)
    BY <1>0
  <2> QED BY <2>1, StretchIsOrder
<1> HIDE DEF a, b
<1>4. r \notin ToSet(a) /\ r \notin ToSet(b)
  BY <1>2, <1>3 DEF ToSet
<1>5. ToSet(a) \cap ToSet(b) = {}
  <2> SUFFICES ASSUME NEW x \in ToSet(a), x \in ToSet(b) PROVE FALSE
    OBVIOUS
  <2>1. PICK k \in DOMAIN q : 1 <= k /\ k <= i - 1 /\ q[k] = x
    BY <1>2
  <2>2. PICK l \in DOMAIN q : i <= l /\ l <= Len(q) /\ q[l] = x
    BY <1>3
  <2>3. k = l
    BY <2>1, <2>2 DEF IsOrder, IsInjective
  <2> QED BY <1>0, <2>1, <2>2, <2>3
<1>6. IsOrder(a \o <<r>>) /\ ToSet(a \o <<r>>) = ToSet(a) \cup {r}
  <2>1. ToSet(a) \cap ToSet(<<r>>) = {}
    BY <1>1, <1>4
  <2> QED BY <1>1, <1>2, <2>1, OrdersConcat
<1>7. IsOrder((a \o <<r>>) \o b)
  <2>1. ToSet(a \o <<r>>) \cap ToSet(b) = {}
    BY <1>4, <1>5, <1>6
  <2> QED BY <1>3, <1>6, <2>1, OrdersConcat
<1>8. IsOrder(q \o <<r>>)
  <2>1. ToSet(q) \cap ToSet(<<r>>) = {}
    BY <1>1
  <2> QED BY <1>1, <2>1, OrdersConcat
<1>9. Append(q, r) = q \o <<r>>
  BY <1>0, AppendIsConcat
<1> QED BY <1>7, <1>8, <1>9 DEF InsertAt, a, b

(* produceRundownPlaylistInfoFromRundown lists the rundowns it is given,   *)
(* and leaves those that a user has put in order as they are.              *)
LEMMA OrderOfIsOrder ==
  ASSUME NEW doc, IsOrder(doc.order), NEW S \in SUBSET Rundowns
  PROVE  /\ IsOrder(OrderOf(doc, S)) /\ ToSet(OrderOf(doc, S)) = S
         /\ doc.manualOrder => \A x, y \in S : Precedes(doc.order, x, y) => Precedes(OrderOf(doc, S), x, y)
<1> DEFINE sorted == Only(DefaultOrder, S)
           base   == IF doc.manualOrder THEN doc.order ELSE sorted
           added  == Only(sorted, S \ ToSet(base))
           all    == base \o added
<1>1. IsOrder(sorted) /\ ToSet(sorted) = S
  <2>1. IsOrder(DefaultOrder) /\ ToSet(DefaultOrder) \cap S = S
    BY OrderAssumption DEF IsOrder
  <2> QED BY <2>1, OnlyIsOrder
<1> HIDE DEF sorted
<1>2. IsOrder(base)
  BY <1>1
<1> HIDE DEF base
<1>3. IsOrder(added) /\ ToSet(added) = S \ ToSet(base)
  BY <1>1, OnlyIsOrder
<1> HIDE DEF added
<1>4. /\ IsOrder(all) /\ ToSet(all) = ToSet(base) \cup (S \ ToSet(base))
      /\ \A x, y : Precedes(base, x, y) => Precedes(all, x, y)
  BY <1>2, <1>3, OrdersConcat
<1> HIDE DEF all
<1>5. OrderOf(doc, S) = Only(all, S)
  BY DEF OrderOf, sorted, base, added, all
<1>6. IsOrder(Only(all, S)) /\ ToSet(Only(all, S)) = S
  <2>1. ToSet(all) \cap S = S
    BY <1>4
  <2> QED BY <1>4, <2>1, OnlyIsOrder
<1>7. ASSUME doc.manualOrder, NEW x \in S, NEW y \in S, Precedes(doc.order, x, y)
      PROVE  Precedes(Only(all, S), x, y)
  <2>1. Precedes(all, x, y)
    BY <1>4, <1>7 DEF base
  <2> QED BY <1>4, <2>1, OnlyPrecedes DEF IsOrder
<1> QED BY <1>5, <1>6, <1>7

(* The order that a user asks for is one.                                  *)
LEMMA PlaceIsOrder ==
  ASSUME NEW order, IsOrder(order), NEW r \in Rundowns, NEW wanted, IsOrder(wanted), r \in ToSet(wanted)
  PROVE  IsOrder(PlaceInOrder(order, r, wanted))
<1> DEFINE rest  == Only(order, Rundowns \ {r})
           other == IF wanted[1] = r THEN wanted[2] ELSE wanted[1]
           at    == CHOOSE i \in DOMAIN rest : rest[i] = other
           known == other \in ToSet(rest)
<1>1. IsOrder(rest) /\ r \notin ToSet(rest)
  BY OnlyIsOrder
<1> HIDE DEF rest, other
<1>2. Len(rest) \in Nat /\ DOMAIN rest = 1 .. Len(rest)
  BY <1>1 DEF IsOrder
<1>3. known => at \in 1 .. Len(rest)
  BY <1>2 DEF ToSet
<1> HIDE DEF at, known
<1>4. /\ (IF known THEN at ELSE 1) \in 1 .. Len(rest) + 1
      /\ (IF known THEN at + 1 ELSE Len(rest) + 1) \in 1 .. Len(rest) + 1
  BY <1>2, <1>3
<1>5. /\ IsOrder(Append(rest, r))
      /\ IsOrder(InsertAt(rest, IF known THEN at ELSE 1, r))
      /\ IsOrder(InsertAt(rest, IF known THEN at + 1 ELSE Len(rest) + 1, r))
  BY <1>1, <1>4, InsertIsOrder
<1>6. PlaceInOrder(order, r, wanted) \in
        {Append(rest, r), wanted, InsertAt(rest, IF known THEN at ELSE 1, r),
         InsertAt(rest, IF known THEN at + 1 ELSE Len(rest) + 1, r)}
  BY Zenon DEF PlaceInOrder, rest, other, at, known
<1> QED BY <1>5, <1>6

(***************************************************************************)
(* Playlist documents.                                                     *)
(***************************************************************************)

IsSound(d) == d \in PlaylistDoc /\ IsInjective(d.order)

(* The rundowns that two orders share are in the same order in both.       *)
SameOrder(p, q) ==
  \A x, y \in ToSet(p) \cap ToSet(q) : Precedes(p, x, y) => Precedes(q, x, y)

(* The document that is there keeps the order that a user has given it.    *)
KeepsOrder(d, e) == d # None /\ e # None /\ d.manualOrder /\ e.manualOrder => SameOrder(d.order, e.order)

(* A sound document is there, with an order. *)
LEMMA SoundOrder ==
  ASSUME NEW d, IsSound(d)
  PROVE  IsOrder(d.order) /\ d # None /\ d.manualOrder \in BOOLEAN
BY NoneAssumption DEF IsSound, IsOrder, PlaylistDoc

(* Documents with one property changed.                                    *)
LEMMA SoundWithOrder ==
  ASSUME NEW d, IsSound(d), NEW o, IsOrder(o)
  PROVE  /\ IsSound([d EXCEPT !.order = o]) /\ [d EXCEPT !.order = o].order = o
         /\ [d EXCEPT !.order = o].manualOrder = d.manualOrder
<1>1. /\ [d EXCEPT !.order = o] \in PlaylistDoc /\ [d EXCEPT !.order = o].order = o
      /\ [d EXCEPT !.order = o].manualOrder = d.manualOrder
  BY DEF IsSound, IsOrder, PlaylistDoc
<1> QED BY <1>1 DEF IsSound, IsOrder

(* Setting manualOrder leaves the order alone. *)
LEMMA SoundWithManualOrder ==
  ASSUME NEW d, IsSound(d), NEW m \in BOOLEAN
  PROVE  /\ IsSound([d EXCEPT !.manualOrder = m]) /\ [d EXCEPT !.manualOrder = m].order = d.order
         /\ [d EXCEPT !.manualOrder = m].manualOrder = m
<1>1. /\ [d EXCEPT !.manualOrder = m] \in PlaylistDoc /\ [d EXCEPT !.manualOrder = m].order = d.order
      /\ [d EXCEPT !.manualOrder = m].manualOrder = m
  BY DEF IsSound, PlaylistDoc
<1> QED BY <1>1 DEF IsSound

(* A playlist that is made anew has an order, the empty one. *)
LEMMA NewIsSound ==
  IsSound(NewPlaylist)
<1>1. << >> \in Seq(Rundowns) /\ IsInjective(<< >>)
  BY DEF IsInjective
<1> QED BY <1>1 DEF IsSound, NewPlaylist, PlaylistDoc

(* A playlist that is brought up to date lists the rundowns S, and those   *)
(* that a user has put in order stay in order.                             *)
IsMadeOf(e, d, S) ==
  /\ IsSound(e) /\ ToSet(e.order) = S
  /\ d # None => e.manualOrder = d.manualOrder
  /\ KeepsOrder(d, e)

(* producePlaylistInfoFromRundown lists the rundowns S. *)
LEMMA ProducedLists ==
  ASSUME NEW d, d = None \/ IsSound(d), NEW S \in SUBSET Rundowns
  PROVE  IsMadeOf(Produce(d, S), d, S)
<1> DEFINE old == IF d = None THEN NewPlaylist ELSE d
           o == OrderOf(old, S)
<1>1. IsSound(old)
  BY NewIsSound
<1>2. IsOrder(old.order)
  BY <1>1, SoundOrder
<1>3. /\ IsOrder(o) /\ ToSet(o) = S
      /\ old.manualOrder => \A x, y \in S : Precedes(old.order, x, y) => Precedes(o, x, y)
  BY <1>2, OrderOfIsOrder
<1>4. Produce(d, S) = [old EXCEPT !.order = o]
  BY DEF Produce
<1>5. d # None => old = d
  OBVIOUS
<1> HIDE DEF old, o
<1>6. /\ IsSound(Produce(d, S)) /\ Produce(d, S).order = o
      /\ Produce(d, S).manualOrder = old.manualOrder
  BY <1>1, <1>3, <1>4, SoundWithOrder
<1>7. KeepsOrder(d, Produce(d, S))
  BY <1>3, <1>5, <1>6 DEF KeepsOrder, SameOrder
<1> QED BY <1>3, <1>5, <1>6, <1>7 DEF IsMadeOf

(* ensureNextPartIsValid touches no order.                                 *)
LEMMA NextKeepsOrder ==
  ASSUME NEW d, IsSound(d), NEW S \in SUBSET Rundowns, NEW e \in EnsureNext(d, S)
  PROVE  IsSound(e) /\ e.order = d.order /\ e.manualOrder = d.manualOrder
<1>1. CASE d # None /\ d.active
  <2>1. PICK n \in S \cup {None, d.next} : e = [d EXCEPT !.next = n]
    BY <1>1 DEF EnsureNext
  <2>2. n \in Rundowns \cup {None}
    BY DEF IsSound, PlaylistDoc
  <2>3. e \in PlaylistDoc /\ e.order = d.order /\ e.manualOrder = d.manualOrder
    BY <2>1, <2>2 DEF IsSound, PlaylistDoc
  <2> QED BY <2>3 DEF IsSound
<1>2. CASE ~(d # None /\ d.active)
  BY <1>2 DEF EnsureNext
<1> QED BY <1>1, <1>2

(* ensureNextPartIsValid does not make a playlist. *)
LEMMA NoNextOfNone ==
  ASSUME NEW S, NEW e \in EnsureNext(None, S)
  PROVE  e = None
BY DEF EnsureNext

(* A playlist is removed when it has no rundown, else it lists those it has. *)
LEMMA RegeneratedLists ==
  ASSUME NEW d, IsSound(d), NEW S \in SUBSET Rundowns, NEW e \in EnsureNext(Regenerate(d, S), S)
  PROVE  IF S = {} THEN e = None ELSE IsMadeOf(e, d, S)
<1>1. CASE S = {}
  BY <1>1, NoNextOfNone DEF Regenerate
<1>2. CASE S # {}
  <2> DEFINE p == Produce(d, S)
  <2>1. e \in EnsureNext(p, S)
    BY <1>2 DEF Regenerate
  <2>2. IsMadeOf(p, d, S)
    BY ProducedLists
  <2> HIDE DEF p
  <2>3. IsSound(e) /\ e.order = p.order /\ e.manualOrder = p.manualOrder /\ p # None /\ e # None
    BY <2>1, <2>2, NextKeepsOrder, SoundOrder DEF IsMadeOf
  <2>4. KeepsOrder(d, e)
    BY <2>2, <2>3 DEF IsMadeOf, KeepsOrder
  <2> QED BY <1>2, <2>2, <2>3, <2>4 DEF IsMadeOf
<1> QED BY <1>1, <1>2

(***************************************************************************)
(* The inductive invariant, and what a step does to it.                    *)
(***************************************************************************)

Orders ==
  /\ \A p \in Ids : playlist[p] # None => IsSound(playlist[p])
  /\ At("studio", "order") => playlist[job["studio"].into] # None

Marks == data \subseteq Rundowns /\ broken \subseteq Rundowns /\ placed \in [Rundowns -> Ids \cup {None}]

HInv == Orders /\ Marks /\ HomeInv

(* What a step of UserOrderStays is. *)
OrderStep ==
  \A p \in Ids :
    /\ playlist[p] # None /\ playlist'[p] # None
    /\ playlist[p].manualOrder /\ playlist'[p].manualOrder
    /\ ~(At("studio", "order") /\ job["studio"].into = p /\ job["studio"].from = p)
    => \A r, s \in ToSet(playlist[p].order) \cap ToSet(playlist'[p].order) :
         Precedes(playlist[p].order, r, s) => Precedes(playlist'[p].order, r, s)

(* Lists and Away, after the step. *)
ListsAfter(p, r) == playlist'[p] # None /\ r \in ToSet(playlist'[p].order)
AwayAfter(r) ==
  \/ rundownLock'[r] = "ingest"
  \/ job'["studio"].pc \in {"regenerate", "enter", "order", "settle"} /\ job'["studio"].r = r
DoomedAfter(r) ==
  /\ job'["studio"].pc = "list" \/ (job'["studio"].pc = "cleanup" /\ r \in job'["studio"].todo)
  /\ job'["studio"].from = rundown'[r].home
HousedAfter(r) ==
  \/ rundown'[r] = None \/ AwayAfter(r)
  \/ ListsAfter(rundown'[r].home, r) \/ r \in broken' \/ DoomedAfter(r)

(* AllHoused after a step, rundown by rundown. *)
LEMMA HousedPrimed ==
  ASSUME \A r \in Rundowns : HousedAfter(r)
  PROVE  AllHoused'
BY DEF AllHoused, HousedAfter, Exists, Away, AwayAfter, Lists, ListsAfter, Doomed, DoomedAfter, At

(* Only the document of playlist p is written. *)
Writes(p) ==
  /\ \A q \in Ids \ {p} : playlist'[q] = playlist[q]
  /\ playlist'[p] # None => IsSound(playlist'[p])

(* It is written, and still lists what it has listed of its own.           *)
Rewrites(p) ==
  /\ Writes(p)
  /\ \A r \in RundownsOf(p) : Lists(p, r) => ListsAfter(p, r)

(* Every rundown is still listed where it was. *)
ListsStay == \A r \in Rundowns : Exists(r) /\ Lists(rundown[r].home, r) => ListsAfter(rundown[r].home, r)

(* Rewriting a playlist, or none, takes no rundown off a list. *)
LEMMA RewritingKeepsLists ==
  ASSUME IInv, playlist' = playlist \/ \E p \in Ids : Rewrites(p)
  PROVE  ListsStay
<1> SUFFICES ASSUME NEW r \in Rundowns, Exists(r), Lists(rundown[r].home, r)
             PROVE  ListsAfter(rundown[r].home, r)
  BY DEF ListsStay
<1>1. rundown[r].home \in Ids
  BY DEF IInv, Documents
<1> QED BY <1>1 DEF Rewrites, Writes, RundownsOf, Lists, ListsAfter

(* The document of a playlist is replaced by one that lists what it should. *)
LEMMA Replaces ==
  ASSUME IInv, NEW p \in Ids, NEW e, playlist' = [playlist EXCEPT ![p] = e],
         \/ e = None /\ RundownsOf(p) = {}
         \/ IsSound(e) /\ \A r \in RundownsOf(p) : r \in ToSet(e.order)
  PROVE  /\ Rewrites(p) /\ playlist'[p] = e
         /\ \A r \in RundownsOf(p) : ListsAfter(p, r)
<1>1. playlist'[p] = e /\ \A q \in Ids \ {p} : playlist'[q] = playlist[q]
  BY DEF IInv, Documents
<1>2. IsSound(e) => e # None
  BY SoundOrder
<1> QED BY <1>1, <1>2 DEF Rewrites, Writes, ListsAfter

(* It is replaced by one with the same order. *)
LEMMA ReplacesInPlace ==
  ASSUME IInv, NEW p \in Ids, playlist[p] # None, NEW e, playlist' = [playlist EXCEPT ![p] = e],
         IsSound(e), e.order = playlist[p].order
  PROVE  /\ Rewrites(p) /\ playlist'[p] = e /\ e # None
         /\ KeepsOrder(playlist[p], playlist'[p])
         /\ \A r \in Rundowns : ListsAfter(p, r) <=> Lists(p, r)
<1>1. playlist'[p] = e /\ \A q \in Ids \ {p} : playlist'[q] = playlist[q]
  BY DEF IInv, Documents
<1>2. e # None
  BY SoundOrder
<1> QED BY <1>1, <1>2 DEF Rewrites, Writes, ListsAfter, Lists, KeepsOrder, SameOrder

(* Orders after a step that writes one sound document, or none. *)
LEMMA OrdersStay ==
  ASSUME IInv, HInv, playlist' = playlist \/ \E p \in Ids : Writes(p),
         job'["studio"].pc = "order" => playlist'[job'["studio"].into] # None
  PROVE  Orders'
<1>1. \A p \in Ids : playlist'[p] # None => IsSound(playlist'[p])
  BY DEF HInv, Orders, Writes
<1> QED BY <1>1 DEF Orders, IsSound, At

(* No order of a user changes if the document written keeps its own. *)
LEMMA OrderSteps ==
  ASSUME playlist' = playlist \/ \E p \in Ids : Writes(p) /\ KeepsOrder(playlist[p], playlist'[p])
  PROVE  OrderStep
<1>1. \A p \in Ids : playlist'[p] = playlist[p] \/ KeepsOrder(playlist[p], playlist'[p])
  BY DEF Writes
<1> QED BY <1>1 DEF OrderStep, KeepsOrder, SameOrder

(* A step of the ingest thread writes the playlist that its job works on,  *)
Written(p) ==
  /\ Rewrites(p) /\ KeepsOrder(playlist[p], playlist'[p]) /\ ~HoldsPlaylist("studio", p)
  /\ job["ingest"] # Idle /\ p \in {job["ingest"].from, job["ingest"].into}

(* and leaves rundowns housed, or has their lock.                          *)
LeavesHoused(r) ==
  \/ rundown'[r] = None \/ rundownLock'[r] = "ingest" \/ r \in broken'
  \/ ListsAfter(rundown'[r].home, r)
  \/ /\ rundown[r] # None /\ rundown'[r].home = rundown[r].home
     /\ rundownLock[r] # "ingest"
     /\ r \in broken => r \in broken'

(* No playlist is named that a move has made for itself.                   *)
Known(p) ==
  \/ p \in Playlists \cup {None, Tmp}
  \/ job["ingest"] # Idle /\ p \in {job["ingest"].from, job["ingest"].into}
  \/ \E r \in Rundowns : rundown[r] # None /\ rundown[r].home = p

(* What such a step does to the invariant, the job itself aside.           *)
LEMMA IngestHouses ==
  ASSUME IInv, HInv, job'["studio"] = job["studio"],
         playlist' = playlist \/ \E p \in Ids : Written(p),
         \A r \in Rundowns : LeavesHoused(r),
         \A r \in Rundowns : rundown'[r] # None => Known(rundown'[r].home),
         job'["ingest"] # Idle => Known(job'["ingest"].from) /\ Known(job'["ingest"].into)
  PROVE  Orders' /\ AllHoused' /\ MadeForMove' /\ WantedIsFair' /\ OrderStep
<1> DEFINE j == job["studio"]
<1>1. Orders'
  <2>1. j.pc = "order" => playlist'[j.into] # None
    BY DEF HInv, Orders, Written, Rewrites, Writes, HoldsPlaylist, At, IInv, Homes, HomeInMove
  <2> QED BY <2>1, OrdersStay DEF Written, Rewrites
<1>2. AllHoused'
  <2>1. ListsStay
    BY RewritingKeepsLists DEF Written
  <2>2. ASSUME NEW r \in Rundowns PROVE HousedAfter(r)
    BY <2>1, <2>2 DEF LeavesHoused, HousedAfter, ListsStay, HInv, HomeInv, AllHoused, Exists, Away, AwayAfter,
       Doomed, DoomedAfter, At
  <2> QED BY <2>2, HousedPrimed
<1>3. MadeForMove'
  <2> SUFFICES ASSUME j.pc = "settle"
               PROVE  /\ j.into \in Fresh /\ ListsAfter(j.into, j.r)
                      /\ \A r \in Rundowns : rundown'[r] # None => rundown'[r].home # j.into
                      /\ job'["ingest"] # Idle => j.into \notin {job'["ingest"].from, job'["ingest"].into}
    BY DEF MadeForMove, At, Exists, Lists, ListsAfter
  <2>1. /\ j.into \in Fresh /\ Lists(j.into, j.r)
        /\ \A r \in Rundowns : rundown[r] # None => rundown[r].home # j.into
        /\ job["ingest"] # Idle => j.into \notin {job["ingest"].from, job["ingest"].into}
    BY DEF HInv, HomeInv, MadeForMove, At, Exists
  <2>2. ~Known(j.into)
    BY <2>1, IdsAssumption DEF Known
  <2>3. playlist'[j.into] = playlist[j.into]
    BY <2>1 DEF Written, Rewrites, Writes, Ids
  <2> QED BY <2>1, <2>2, <2>3 DEF Lists, ListsAfter
<1>4. WantedIsFair'
  BY DEF HInv, HomeInv, WantedIsFair, IsInjective, ToSet
<1>5. OrderStep
  BY OrderSteps DEF Written, Rewrites
<1> QED BY <1>1, <1>2, <1>3, <1>4, <1>5

(* Nothing is said of jobs that are not there. *)
LEMMA NoUpdateToSave ==
  ASSUME job'["ingest"] = Idle
  PROVE  MadeForUpdate' /\ UpdateSynced'
BY DEF MadeForUpdate, UpdateSynced, At, Idle

(* A job of CommitIngestOperation begins, with or without the data of its  *)
(* rundown.                                                                *)
LEMMA CommitHouses ==
  ASSUME IInv, HInv, NEW r \in Rundowns, NEW doc \in RundownDoc,
         doc.home = (IF Exists(r) THEN rundown[r].home ELSE None),
         NEW remove \in BOOLEAN, Commit(r, doc, remove),
         data' \subseteq Rundowns, \A x \in Rundowns \ {r} : x \in data' <=> x \in data,
         r \in data' \/ doc.orphaned # "no" \/ (Exists(r) /\ remove)
  PROVE  HInv' /\ OrderStep
<1> DEFINE before == rundown[r]
           target == IF before # None /\ before.manual THEN before.home ELSE doc.nrcs
           leaves == before # None /\ (before.home # target \/ remove)
           pc == IF leaves THEN "leave" ELSE "adopt"
           k == [pc |-> pc, r |-> r, doc |-> doc, remove |-> remove, from |-> doc.home, into |-> target]
<1>1. /\ job["ingest"] = Idle /\ job' = [job EXCEPT !["ingest"] = k]
      /\ rundown' = rundown /\ playlist' = playlist /\ broken' = broken /\ placed' = placed
      /\ rundownLock' = [rundownLock EXCEPT ![r] = "ingest"]
  BY DEF Commit, Starts, Lock, ghosts
<1>2. job'["ingest"] = k /\ job'["studio"] = job["studio"]
  <2> HIDE DEF k
  <2> QED BY <1>1, JobUpdate DEF Threads, IInv, Control
<1>3. Known(doc.home) /\ Known(target)
  <2>1. doc.nrcs \in Playlists
    BY DEF RundownDoc
  <2> QED BY <2>1 DEF Known, Exists
<1>4. pc \in {"leave", "adopt"} /\ (pc = "adopt" => ~(Exists(r) /\ remove))
  BY DEF Exists
<1>5. k.pc = pc /\ k.r = r /\ k.from = doc.home /\ k.into = target /\ k.doc = doc /\ k.remove = remove
  OBVIOUS
<1> HIDE DEF k, pc, target
<1>6. rundownLock'[r] = "ingest" /\ \A x \in Rundowns \ {r} : rundownLock'[x] = rundownLock[x]
  BY <1>1 DEF IInv, Control, RundownLocks
<1>7. \A x \in Rundowns : LeavesHoused(x)
  BY <1>1, <1>6 DEF LeavesHoused
<1>8. \A x \in Rundowns : rundown'[x] # None => Known(rundown'[x].home)
  BY <1>1 DEF Known
<1>9. Orders' /\ AllHoused' /\ MadeForMove' /\ WantedIsFair' /\ OrderStep
  BY <1>1, <1>2, <1>3, <1>5, <1>7, <1>8, IngestHouses
<1>10. Marks'
  BY <1>1 DEF HInv, Marks
<1>11. MadeForUpdate' /\ UpdateSynced'
  BY <1>2, <1>4, <1>5 DEF MadeForUpdate, UpdateSynced, At, Exists
<1>12. RundownsSynced'
  BY <1>1, <1>6 DEF HInv, HomeInv, RundownsSynced, Exists
<1> QED BY <1>9, <1>10, <1>11, <1>12 DEF HInv, HomeInv

(* The jobs of the ingest thread that begin. *)
LEMMA IngestStartsHouses ==
  ASSUME IInv, HInv, IngestStarts
  PROVE  HInv' /\ OrderStep
<1> PICK r \in Rundowns :
      \/ \E n \in Playlists, isCreateAction \in BOOLEAN : UpdateRundown(r, n, isCreateAction)
      \/ UpdateSegment(r)
      \/ \E force \in BOOLEAN : RemoveRundown(r, force)
      \/ UnsyncRundown(r)
  BY DEF IngestStarts
<1>0. data \subseteq Rundowns
  BY DEF HInv, Marks
<1>1. Exists(r) => rundown[r] \in RundownDoc /\ rundown[r].home \in Ids
  BY DEF IInv, Documents, Exists
<1>2. ASSUME NEW n \in Playlists, NEW c \in BOOLEAN, UpdateRundown(r, n, c) PROVE HInv' /\ OrderStep
  <2> DEFINE home == IF Exists(r) THEN rundown[r].home ELSE None
             doc == [home |-> home, manual |-> FALSE, nrcs |-> n, orphaned |-> "no"]
  <2>1. Commit(r, doc, FALSE) /\ data' = data \cup {r}
    BY <1>2 DEF UpdateRundown
  <2>2. home \in Ids \cup {None}
    BY <1>1
  <2>3. doc \in RundownDoc /\ doc.home = home
    <3> HIDE DEF home
    <3> QED BY <2>2 DEF RundownDoc
  <2>4. doc.home = (IF Exists(r) THEN rundown[r].home ELSE None)
    BY <2>3 DEF home
  <2> HIDE DEF doc
  <2> QED BY <1>0, <2>1, <2>3, <2>4, CommitHouses
<1>3. CASE UpdateSegment(r)
  <2>1. Exists(r) /\ Commit(r, rundown[r], FALSE) /\ data' = data /\ r \in data
    BY <1>3 DEF UpdateSegment
  <2> QED BY <1>0, <1>1, <2>1, CommitHouses
<1>4. ASSUME NEW force \in BOOLEAN, RemoveRundown(r, force) PROVE HInv' /\ OrderStep
  <2> DEFINE remove == force \/ rundown[r].orphaned = "no"
  <2>1. Exists(r) /\ Commit(r, rundown[r], remove) /\ data' = data \ {r}
    BY <1>4 DEF RemoveRundown
  <2>2. remove \in BOOLEAN /\ (rundown[r].orphaned # "no" \/ remove)
    OBVIOUS
  <2> HIDE DEF remove
  <2> QED BY <1>0, <1>1, <2>1, <2>2, CommitHouses
<1>5. CASE UnsyncRundown(r)
  <2>1. /\ job["ingest"] = Idle /\ job' = [job EXCEPT !["ingest"] = Idle]
        /\ rundown' = [rundown EXCEPT ![r].orphaned = "manual"] /\ Exists(r)
        /\ playlist' = playlist /\ data' = data /\ rundownLock' = rundownLock /\ playlistLock' = playlistLock
        /\ broken' = broken /\ placed' = placed /\ rundownLock[r] = Free
    BY <1>5 DEF UnsyncRundown, Starts, locks, ghosts
  <2>2. job'["ingest"] = Idle /\ job'["studio"] = job["studio"]
    BY <2>1, JobUpdate DEF Threads, IInv, Control
  <2>3. Rehomed(r, rundown[r].home) /\ rundown'[r].orphaned = "manual"
    BY <1>1, <2>1, Orphaned DEF IInv, Documents, RundownDoc
  <2>4. \A x \in Rundowns : rundown'[x] # None => rundown[x] # None /\ rundown'[x].home = rundown[x].home
    BY <2>1, <2>3 DEF Rehomed, OthersStay, Exists
  <2>5. \A x \in Rundowns : rundownLock[x] # "ingest"
    BY <2>1 DEF IInv, Control, RundownLocks, HoldsRundown, Threads, Idle
  <2>6. \A x \in Rundowns : LeavesHoused(x)
    BY <2>1, <2>4, <2>5 DEF LeavesHoused
  <2>7. \A x \in Rundowns : rundown'[x] # None => Known(rundown'[x].home)
    BY <2>4 DEF Known
  <2>8. Orders' /\ AllHoused' /\ MadeForMove' /\ WantedIsFair' /\ OrderStep
    BY <2>1, <2>2, <2>6, <2>7, IngestHouses
  <2>9. Marks'
    BY <2>1 DEF HInv, Marks
  <2>10. RundownsSynced'
    BY <2>1, <2>3 DEF HInv, HomeInv, RundownsSynced, Exists, Rehomed, OthersStay
  <2> QED BY <2>2, <2>8, <2>9, <2>10, NoUpdateToSave DEF HInv, HomeInv
<1> QED BY <1>2, <1>3, <1>4, <1>5

(* The lock of the rundown that an ingest job works on is its own. *)
LEMMA IngestHasRundown ==
  ASSUME IInv, job["ingest"] \in IngestJob
  PROVE  /\ job["ingest"].r \in Rundowns
         /\ \A x \in Rundowns : rundownLock[x] = "ingest" <=> x = job["ingest"].r
         /\ Known(job["ingest"].from) /\ Known(job["ingest"].into) /\ Known(Tmp)
BY DEF IInv, Control, RundownLocks, HoldsRundown, Threads, IngestJob, Known, Idle

(* The rundown leaves, or is trapped. *)
LEMMA LeaveOldPlaylistHouses ==
  ASSUME IInv, HInv, LeaveOldPlaylist
  PROVE  HInv' /\ OrderStep
<1> DEFINE j == job["ingest"]
           k == job'["ingest"]
<1>0. Jobs /\ At("ingest", "leave") /\ j \in IngestJob /\ j.from \in Ids
  BY AtIngest, FromIsPlaylist DEF IInv, Control, LeaveOldPlaylist
<1>1. /\ j.r \in Rundowns
      /\ \A x \in Rundowns : rundownLock[x] = "ingest" <=> x = j.r
      /\ Known(j.from) /\ Known(j.into) /\ Known(Tmp)
  BY <1>0, IngestHasRundown
<1>2. /\ playlist' = playlist /\ data' = data /\ rundownLock' = rundownLock /\ broken' = broken
      /\ placed' \in {placed, [placed EXCEPT ![j.r] = None]}
  BY DEF LeaveOldPlaylist, LeaveFor, documents, locks, ghosts
<1>3. rundown' = rundown \/ Rehomed(j.r, Tmp)
  <2>1. CASE AllowedToMoveOut(j.from, j.r)
    BY <1>0, <1>1, <2>1, Rehomes DEF LeaveOldPlaylist, LeaveFor, IInv, Homes, HomeInIngest, Documents, RundownDoc,
       Exists, Ids
  <2>2. CASE ~AllowedToMoveOut(j.from, j.r)
    BY <2>2 DEF LeaveOldPlaylist, LeaveFor, documents
  <2> QED BY <2>1, <2>2
<1>4. /\ job'["studio"] = job["studio"] /\ k.r = j.r /\ k.from = j.from /\ k.into \in {j.from, j.into}
      /\ k.pc \in {"regenerate", "adopt"}
      /\ k.doc.orphaned # "no" \/ (k.doc = j.doc /\ k.remove = j.remove)
         \/ (~j.remove /\ k.doc.orphaned = j.doc.orphaned)
      /\ k.pc = "adopt" => k.doc.orphaned # "no" \/ ~j.remove
  <2>1. CASE AllowedToMoveOut(j.from, j.r)
    BY <1>0, <2>1, IngestGoes DEF LeaveOldPlaylist, LeaveFor, IngestGoesOn
  <2>2. CASE ~AllowedToMoveOut(j.from, j.r)
    BY <1>0, <2>2, IngestIsTrapped DEF LeaveOldPlaylist, LeaveFor, IngestGoesOn
  <2> QED BY <2>1, <2>2
<1> HIDE DEF k
<1>5. \A x \in Rundowns : LeavesHoused(x)
  BY <1>1, <1>2, <1>3 DEF LeavesHoused, Rehomed, OthersStay
<1>6. \A x \in Rundowns : rundown'[x] # None => Known(rundown'[x].home)
  BY <1>1, <1>3 DEF Known, Rehomed, OthersStay
<1>7. Known(k.from) /\ Known(k.into)
  BY <1>1, <1>4
<1>8. Orders' /\ AllHoused' /\ MadeForMove' /\ WantedIsFair' /\ OrderStep
  BY <1>2, <1>4, <1>5, <1>6, <1>7, IngestHouses DEF k
<1>9. Marks'
  BY <1>1, <1>2 DEF HInv, Marks
<1>10. MadeForUpdate' /\ UpdateSynced'
  BY <1>0, <1>2, <1>4 DEF MadeForUpdate, UpdateSynced, At, HInv, HomeInv, k
<1>11. RundownsSynced'
  BY <1>1, <1>2, <1>3 DEF HInv, HomeInv, RundownsSynced, Exists, Rehomed, OthersStay
<1> QED BY <1>8, <1>9, <1>10, <1>11 DEF HInv, HomeInv

(* What the playlist that a rundown has left becomes. *)
LEMMA RegenerationRewrites ==
  ASSUME IInv, HInv, NEW t \in Threads, RegenerateOldPlaylist(t), job[t].from \in Ids
  PROVE  /\ playlist' = playlist \/ Rewrites(job[t].from)
         /\ KeepsOrder(playlist[job[t].from], playlist'[job[t].from])
<1> DEFINE p == job[t].from
           S == RundownsOf(p)
<1>1. CASE playlist[p] = None
  <2>1. playlist' = playlist
    BY <1>1 DEF RegenerateOldPlaylist
  <2> QED BY <1>1, <2>1 DEF KeepsOrder
<1>2. CASE playlist[p] # None
  <2>1. PICK e \in EnsureNext(Regenerate(playlist[p], S), S) : playlist' = [playlist EXCEPT ![p] = e]
    BY <1>2 DEF RegenerateOldPlaylist
  <2>2. IsSound(playlist[p]) /\ S \in SUBSET Rundowns
    BY <1>2 DEF HInv, Orders, RundownsOf
  <2> HIDE DEF S
  <2>3. IF S = {} THEN e = None ELSE IsMadeOf(e, playlist[p], S)
    BY <2>1, <2>2, RegeneratedLists
  <2>4. Rewrites(p) /\ playlist'[p] = e
    <3>1. \/ e = None /\ RundownsOf(p) = {}
          \/ IsSound(e) /\ \A r \in RundownsOf(p) : r \in ToSet(e.order)
      BY <2>3 DEF IsMadeOf, S
    <3> HIDE DEF p
    <3>2. p \in Ids
      BY DEF p
    <3> QED BY <2>1, <3>1, <3>2, Replaces
  <2>5. KeepsOrder(playlist[p], e)
    BY <2>3 DEF IsMadeOf, KeepsOrder
  <2> QED BY <2>4, <2>5
<1> QED BY <1>1, <1>2

(* RegenerateOldPlaylist by an ingest job. *)
LEMMA RegenerateInIngestHouses ==
  ASSUME IInv, HInv, RegenerateOldPlaylist("ingest")
  PROVE  HInv' /\ OrderStep
<1> DEFINE j == job["ingest"]
           k == job'["ingest"]
<1>0. Jobs /\ At("ingest", "regenerate") /\ j \in IngestJob /\ j.from \in Ids /\ j # Idle
  BY AtIngest, FromIsPlaylist DEF IInv, Control, RegenerateOldPlaylist, At, Idle
<1>1. /\ j.r \in Rundowns
      /\ \A x \in Rundowns : rundownLock[x] = "ingest" <=> x = j.r
      /\ Known(j.from) /\ Known(j.into) /\ Known(Tmp)
  BY <1>0, IngestHasRundown
<1>2. rundown' = rundown /\ data' = data /\ rundownLock' = rundownLock /\ broken' = broken /\ placed' = placed
  BY DEF RegenerateOldPlaylist, ghosts
<1>3. /\ job'["studio"] = job["studio"] /\ k.r = j.r /\ k.from = j.from /\ k.into = j.into
      /\ k.pc = (IF j.remove THEN "remove" ELSE "adopt") /\ k.doc = j.doc /\ k.remove = j.remove
  BY <1>0, IngestGoes DEF RegenerateOldPlaylist, IngestGoesOn
<1>4. playlist' = playlist \/ Written(j.from)
  <2>1. ~HoldsPlaylist("studio", j.from)
    BY <1>0, OneHolder DEF HoldsPlaylist
  <2> QED BY <1>0, <2>1, RegenerationRewrites DEF Written, Threads
<1> HIDE DEF k
<1>5. \A x \in Rundowns : LeavesHoused(x)
  BY <1>1, <1>2 DEF LeavesHoused
<1>6. \A x \in Rundowns : rundown'[x] # None => Known(rundown'[x].home)
  BY <1>2 DEF Known
<1>7. Orders' /\ AllHoused' /\ MadeForMove' /\ WantedIsFair' /\ OrderStep
  BY <1>0, <1>1, <1>3, <1>4, <1>5, <1>6, IngestHouses DEF k
<1>8. Marks'
  BY <1>2 DEF HInv, Marks
<1>9. MadeForUpdate' /\ UpdateSynced'
  BY <1>0, <1>2, <1>3 DEF MadeForUpdate, UpdateSynced, At, HInv, HomeInv, k
<1>10. RundownsSynced'
  BY <1>2 DEF HInv, HomeInv, RundownsSynced, Exists
<1> QED BY <1>7, <1>8, <1>9, <1>10 DEF HInv, HomeInv

(* The rundown is removed from the database. *)
LEMMA RemoveFromDbHouses ==
  ASSUME IInv, HInv, RemoveFromDb
  PROVE  HInv' /\ OrderStep
<1> DEFINE j == job["ingest"]
<1>0. Jobs /\ At("ingest", "remove") /\ j \in IngestJob
  BY AtIngest DEF IInv, Control, RemoveFromDb
<1>1. j.r \in Rundowns /\ \A x \in Rundowns : rundownLock[x] = "ingest" <=> x = j.r
  BY <1>0, IngestHasRundown
<1>2. job'["ingest"] = Idle /\ job'["studio"] = job["studio"]
  BY <1>0, JobEnds DEF RemoveFromDb, Ends, Threads
<1>3. Removed(j.r)
  BY <1>1, Removes DEF RemoveFromDb
<1>4. /\ playlist' = playlist /\ data' = data \ {j.r} /\ broken' = broken \ {j.r} /\ placed' = placed
      /\ \A x \in Rundowns \ {j.r} : rundownLock'[x] = rundownLock[x]
  BY <1>1 DEF RemoveFromDb, Unlock, IInv, Control, RundownLocks
<1>5. \A x \in Rundowns : LeavesHoused(x)
  BY <1>1, <1>3, <1>4 DEF LeavesHoused, Removed, OthersStay
<1>6. \A x \in Rundowns : rundown'[x] # None => Known(rundown'[x].home)
  BY <1>3 DEF Known, Removed, OthersStay
<1>7. Orders' /\ AllHoused' /\ MadeForMove' /\ WantedIsFair' /\ OrderStep
  BY <1>2, <1>4, <1>5, <1>6, IngestHouses
<1>8. Marks'
  BY <1>4 DEF HInv, Marks
<1>9. RundownsSynced'
  BY <1>1, <1>3, <1>4 DEF HInv, HomeInv, RundownsSynced, Exists, Removed, OthersStay
<1> QED BY <1>2, <1>7, <1>8, <1>9, NoUpdateToSave DEF HInv, HomeInv

(* The new playlist is made, with the rundown. *)
LEMMA AdoptIntoPlaylistHouses ==
  ASSUME IInv, HInv, AdoptIntoPlaylist
  PROVE  HInv' /\ OrderStep
<1> DEFINE j == job["ingest"]
           k == job'["ingest"]
           p == j.into
           S == RundownsOf(p) \cup {j.r}
           e == Produce(playlist[p], S)
<1>0. Jobs /\ At("ingest", "adopt") /\ j \in IngestJob /\ p \in Ids /\ j # Idle
  BY AtIngest DEF IInv, Control, AdoptIntoPlaylist, IngestJob, At, Idle
<1>1. /\ j.r \in Rundowns
      /\ \A x \in Rundowns : rundownLock[x] = "ingest" <=> x = j.r
      /\ Known(j.from) /\ Known(j.into)
  BY <1>0, IngestHasRundown
<1>2. /\ rundown' = rundown /\ data' = data /\ rundownLock' = rundownLock /\ broken' = broken /\ placed' = placed
      /\ playlist' = [playlist EXCEPT ![p] = e] /\ playlistLock[p] = Free
  BY DEF AdoptIntoPlaylist, Lock, ghosts
<1>3. /\ job'["studio"] = job["studio"] /\ k.r = j.r /\ k.from = j.from /\ k.into = j.into
      /\ k.pc = "save" /\ k.doc = j.doc
  BY <1>0, IngestGoes DEF AdoptIntoPlaylist, IngestGoesOn
<1> HIDE DEF k
<1>4. IsMadeOf(e, playlist[p], S)
  <2>1. S \in SUBSET Rundowns
    BY <1>1 DEF RundownsOf
  <2>2. playlist[p] = None \/ IsSound(playlist[p])
    BY <1>0 DEF HInv, Orders
  <2> HIDE DEF S
  <2> QED BY <2>1, <2>2, ProducedLists
<1>5. Written(p) /\ ListsAfter(p, j.r)
  <2>1. IsSound(e) /\ \A r \in RundownsOf(p) : r \in ToSet(e.order)
    BY <1>4 DEF IsMadeOf
  <2>2. j.r \in ToSet(e.order) /\ e # None
    BY <1>4, <2>1, SoundOrder DEF IsMadeOf
  <2> HIDE DEF e, S
  <2>3. Rewrites(p) /\ playlist'[p] = e
    BY <1>0, <1>2, <2>1, Replaces
  <2>4. ~HoldsPlaylist("studio", p)
    BY <1>0, <1>2, OneHolder DEF Threads
  <2> QED BY <1>0, <1>4, <2>2, <2>3, <2>4 DEF Written, ListsAfter, IsMadeOf
<1> HIDE DEF e, S
<1>6. \A x \in Rundowns : LeavesHoused(x)
  BY <1>1, <1>2 DEF LeavesHoused
<1>7. \A x \in Rundowns : rundown'[x] # None => Known(rundown'[x].home)
  BY <1>2 DEF Known
<1>8. Orders' /\ AllHoused' /\ MadeForMove' /\ WantedIsFair' /\ OrderStep
  BY <1>0, <1>1, <1>3, <1>5, <1>6, <1>7, IngestHouses DEF k
<1>9. Marks'
  BY <1>2 DEF HInv, Marks
<1>10. MadeForUpdate' /\ UpdateSynced'
  BY <1>0, <1>2, <1>3, <1>5 DEF MadeForUpdate, UpdateSynced, At, HInv, HomeInv, k, Lists, ListsAfter
<1>11. RundownsSynced'
  BY <1>2 DEF HInv, HomeInv, RundownsSynced, Exists
<1> QED BY <1>8, <1>9, <1>10, <1>11 DEF HInv, HomeInv

(* The rundown is saved into it. *)
LEMMA SaveRundownHouses ==
  ASSUME IInv, HInv, SaveRundown
  PROVE  HInv' /\ OrderStep
<1> DEFINE j == job["ingest"]
           p == j.into
           S == RundownsOf(p) \cup {j.r}
<1>0. Jobs /\ At("ingest", "save") /\ j \in IngestJob /\ p \in Ids /\ j # Idle /\ j.doc \in RundownDoc
  BY AtIngest DEF IInv, Control, SaveRundown, IngestJob, At, Idle
<1>1. /\ j.r \in Rundowns
      /\ \A x \in Rundowns : rundownLock[x] = "ingest" <=> x = j.r
      /\ Known(j.into)
  BY <1>0, IngestHasRundown
<1>2. job'["ingest"] = Idle /\ job'["studio"] = job["studio"]
  BY <1>0, JobEnds DEF SaveRundown, Ends, Threads
<1>3. Rehomed(j.r, p) /\ rundown'[j.r].orphaned = j.doc.orphaned
  <2>1. rundown' = [rundown EXCEPT ![j.r] = [j.doc EXCEPT !.home = p]]
    BY DEF SaveRundown
  <2>2. [j.doc EXCEPT !.home = p].orphaned = j.doc.orphaned
    BY <1>0 DEF RundownDoc
  <2> QED BY <1>0, <1>1, <2>1, <2>2, Adopted DEF IInv, Documents
<1>4. /\ data' = data /\ broken' = broken \ {j.r} /\ placed' = placed
      /\ \A x \in Rundowns \ {j.r} : rundownLock'[x] = rundownLock[x]
  BY <1>1 DEF SaveRundown, Unlock, IInv, Control, RundownLocks
<1>5. Lists(p, j.r)
  BY <1>0 DEF HInv, HomeInv, MadeForUpdate
<1>6. Written(p) /\ ListsAfter(p, j.r)
  <2>1. PICK e \in EnsureNext(playlist[p], S) : playlist' = [playlist EXCEPT ![p] = e]
    BY DEF SaveRundown
  <2>2. IsSound(playlist[p]) /\ playlist[p] # None /\ S \in SUBSET Rundowns
    BY <1>0, <1>1, <1>5 DEF HInv, Orders, Lists, RundownsOf
  <2> HIDE DEF S
  <2>3. IsSound(e) /\ e.order = playlist[p].order
    BY <2>1, <2>2, NextKeepsOrder
  <2>4. Rewrites(p) /\ KeepsOrder(playlist[p], playlist'[p]) /\ (ListsAfter(p, j.r) <=> Lists(p, j.r))
    BY <1>0, <1>1, <2>1, <2>2, <2>3, ReplacesInPlace
  <2>5. ~HoldsPlaylist("studio", p)
    BY <1>0, OneHolder DEF HoldsPlaylist
  <2> QED BY <1>0, <1>5, <2>4, <2>5 DEF Written
<1>7. \A x \in Rundowns : LeavesHoused(x)
  BY <1>1, <1>3, <1>4, <1>6 DEF LeavesHoused, Rehomed, OthersStay
<1>8. \A x \in Rundowns : rundown'[x] # None => Known(rundown'[x].home)
  BY <1>1, <1>3 DEF Known, Rehomed, OthersStay
<1>9. Orders' /\ AllHoused' /\ MadeForMove' /\ WantedIsFair' /\ OrderStep
  BY <1>0, <1>2, <1>6, <1>7, <1>8, IngestHouses
<1>10. Marks'
  BY <1>4 DEF HInv, Marks
<1>11. RundownsSynced'
  <2>1. j.r \in data \/ j.doc.orphaned # "no"
    BY <1>0 DEF HInv, HomeInv, UpdateSynced
  <2> QED BY <1>1, <1>3, <1>4, <2>1 DEF HInv, HomeInv, RundownsSynced, Exists, Rehomed, OthersStay
<1> QED BY <1>2, <1>9, <1>10, <1>11, NoUpdateToSave DEF HInv, HomeInv

(***************************************************************************)
(* Steps of the studio thread.                                             *)
(***************************************************************************)

StudioAway(r) == job["studio"].pc \in {"regenerate", "enter", "order", "settle"} /\ job["studio"].r = r

(* A step of the studio thread leaves rundowns housed, or works on them,   *)
StaysHoused(r) ==
  \/ HousedAfter(r)
  \/ /\ rundown[r] # None /\ rundown'[r].home = rundown[r].home
     /\ ~StudioAway(r) /\ ~Doomed(r)
     /\ rundownLock[r] = "ingest" => rundownLock'[r] = "ingest"
     /\ r \in broken => r \in broken'
     /\ Lists(rundown[r].home, r) => ListsAfter(rundown[r].home, r)

(* and leaves them their data.                                             *)
StaysSynced(r) ==
  \/ rundown'[r] = None
  \/ /\ rundown[r] # None /\ rundown'[r].orphaned = rundown[r].orphaned
     /\ rundownLock[r] = "ingest" => rundownLock'[r] = "ingest"
     /\ r \in data => r \in data'
     /\ r \in broken => r \in broken' \/ r \in data'

(* What such a step does to the invariant, the job itself aside.           *)
LEMMA StudioHouses ==
  ASSUME IInv, HInv, job'["ingest"] = job["ingest"],
         playlist' = playlist \/ \E p \in Ids : Writes(p) /\ ~HoldsPlaylist("ingest", p),
         \A r \in Rundowns : StaysHoused(r) /\ StaysSynced(r),
         \A r \in data \ data' : rundownLock[r] # "ingest"
  PROVE  AllHoused' /\ MadeForUpdate' /\ RundownsSynced' /\ UpdateSynced'
<1> DEFINE j == job["ingest"]
<1>1. AllHoused'
  <2>1. ASSUME NEW r \in Rundowns PROVE HousedAfter(r)
    BY <2>1 DEF StaysHoused, HousedAfter, HInv, HomeInv, AllHoused, Exists, Away, AwayAfter, StudioAway
  <2> QED BY <2>1, HousedPrimed
<1>2. MadeForUpdate'
  <2> SUFFICES ASSUME At("ingest", "save") PROVE ListsAfter(j.into, j.r)
    BY DEF MadeForUpdate, At, Lists, ListsAfter
  <2>1. j.into \in Ids /\ HoldsPlaylist("ingest", j.into) /\ Lists(j.into, j.r)
    BY AtIngest DEF IInv, Control, IngestJob, HoldsPlaylist, HInv, HomeInv, MadeForUpdate
  <2>2. playlist'[j.into] = playlist[j.into]
    BY <2>1 DEF Writes
  <2> QED BY <2>1, <2>2 DEF Lists, ListsAfter
<1>3. RundownsSynced'
  BY DEF StaysSynced, HInv, HomeInv, RundownsSynced, Exists
<1>4. UpdateSynced'
  <2>1. ASSUME NEW pc \in {"leave", "regenerate", "adopt", "save"}, At("ingest", pc), j.r \in data
        PROVE  j.r \in data'
    <3>1. rundownLock[j.r] = "ingest"
      BY <2>1, AtIngest, IngestHasRundown DEF IInv, Control
    <3> QED BY <2>1, <3>1
  <2> QED BY <2>1 DEF HInv, HomeInv, UpdateSynced, At
<1> QED BY <1>1, <1>2, <1>3, <1>4

(* Nothing is said of moves that are not there.                            *)
LEMMA NoMove ==
  ASSUME IInv, HInv, job'["studio"].pc \notin Locked \cup {"lock"},
         playlist' = playlist \/ \E p \in Ids : Writes(p)
  PROVE  Orders' /\ MadeForMove' /\ WantedIsFair'
<1>1. Orders'
  BY OrdersStay DEF Locked
<1>2. MadeForMove' /\ WantedIsFair'
  BY DEF MadeForMove, WantedIsFair, At, Locked
<1> QED BY <1>1, <1>2

(* A move that goes on asks for what it has asked for.                     *)
LEMMA WantedStays ==
  ASSUME HInv, job["studio"].pc \in Locked \cup {"lock"},
         job'["studio"].wanted = job["studio"].wanted, job'["studio"].r = job["studio"].r
  PROVE  WantedIsFair'
<1>1. IsInjective(job["studio"].wanted) /\ job["studio"].r \in ToSet(job["studio"].wanted)
  BY DEF HInv, HomeInv, WantedIsFair, Locked
<1> QED BY <1>1 DEF WantedIsFair, IsInjective, ToSet

(* A move is queued. *)
LEMMA MoveRundownHouses ==
  ASSUME IInv, HInv, NEW r \in Rundowns, NEW into \in Ids \cup {None}, NEW wanted, IsOrder(wanted),
         r \in ToSet(wanted), MoveRundown(r, into, wanted)
  PROVE  HInv' /\ OrderStep
<1> DEFINE k == [pc |-> "lock", r |-> r, into |-> into, wanted |-> wanted, from |-> None]
<1>1. /\ job["studio"] = Idle /\ job' = [job EXCEPT !["studio"] = k]
      /\ rundown' = rundown /\ playlist' = playlist /\ data' = data /\ rundownLock' = rundownLock
      /\ broken' = broken /\ placed' = placed
  BY DEF MoveRundown, Starts, documents, locks, ghosts
<1>2. k.pc = "lock" /\ k.r = r /\ k.wanted = wanted
  OBVIOUS
<1> HIDE DEF k
<1>3. job'["studio"] = k /\ job'["ingest"] = job["ingest"]
  BY <1>1, JobUpdate DEF Threads, IInv, Control
<1>4. \A x \in Rundowns : StaysHoused(x) /\ StaysSynced(x)
  BY <1>1, <1>3 DEF StaysHoused, HousedAfter, StaysSynced, StudioAway, Doomed, At, Idle, Lists, ListsAfter
<1>5. AllHoused' /\ MadeForUpdate' /\ RundownsSynced' /\ UpdateSynced'
  BY <1>1, <1>3, <1>4, StudioHouses
<1>6. Orders'
  BY <1>1, <1>2, <1>3, OrdersStay
<1>7. MadeForMove' /\ WantedIsFair'
  <2>1. MadeForMove'
    BY <1>2, <1>3 DEF MadeForMove, At
  <2>2. WantedIsFair'
    BY <1>2, <1>3 DEF WantedIsFair, IsOrder, IsInjective, ToSet
  <2> QED BY <2>1, <2>2
<1>8. Marks' /\ OrderStep
  BY <1>1, OrderSteps DEF HInv, Marks
<1> QED BY <1>5, <1>6, <1>7, <1>8 DEF HInv, HomeInv

(* A move locks its rundown, or finds it gone. *)
LEMMA LockMovedRundownHouses ==
  ASSUME IInv, HInv, LockMovedRundown
  PROVE  HInv' /\ OrderStep
<1> DEFINE j == job["studio"]
           k == job'["studio"]
<1>0. Jobs /\ At("studio", "lock") /\ j \in MoveJob /\ j.r \in Rundowns /\ rundownLock[j.r] = Free
  BY AtStudio DEF IInv, Control, LockMovedRundown, MoveJob
<1>1. /\ rundown' = rundown /\ playlist' = playlist /\ data' = data /\ broken' = broken /\ placed' = placed
      /\ rundownLock' = rundownLock \/ rundownLock' = [rundownLock EXCEPT ![j.r] = "studio"]
  BY DEF LockMovedRundown, documents, ghosts, Lock
<1>2. \A x \in Rundowns : rundownLock[x] = "ingest" => rundownLock'[x] = "ingest"
  BY <1>0, <1>1 DEF IInv, Control, RundownLocks, Free
<1>3. /\ job'["ingest"] = job["ingest"]
      /\ \/ k.pc = "idle"
         \/ k.pc \in {"enter", "leave"} /\ k.r = j.r /\ k.wanted = j.wanted
  <2>1. CASE Exists(j.r)
    BY <2>1, MoveBegins DEF MoveGoesOn
  <2>2. CASE ~Exists(j.r)
    BY <1>0, <2>2, JobEnds DEF LockMovedRundown, Ends, Threads
  <2> QED BY <2>1, <2>2
<1> HIDE DEF k
<1>4. \A x \in Rundowns : StaysHoused(x) /\ StaysSynced(x)
  BY <1>0, <1>1, <1>2 DEF StaysHoused, HousedAfter, StaysSynced, StudioAway, Doomed, At, Lists, ListsAfter
<1>5. AllHoused' /\ MadeForUpdate' /\ RundownsSynced' /\ UpdateSynced'
  BY <1>1, <1>3, <1>4, StudioHouses
<1>6. Orders'
  BY <1>1, <1>3, OrdersStay DEF k
<1>7. MadeForMove' /\ WantedIsFair'
  <2>1. MadeForMove'
    BY <1>3 DEF MadeForMove, At, k
  <2>2. WantedIsFair'
    <3>1. CASE k.pc = "idle"
      BY <3>1 DEF WantedIsFair, k
    <3>2. CASE k.r = j.r /\ k.wanted = j.wanted
      BY <1>0, <3>2, WantedStays DEF At, k
    <3> QED BY <1>3, <3>1, <3>2
  <2> QED BY <2>1, <2>2
<1>8. Marks' /\ OrderStep
  BY <1>1, OrderSteps DEF HInv, Marks
<1> QED BY <1>5, <1>6, <1>7, <1>8 DEF HInv, HomeInv

(* What a move has locked is not the ingest thread's.                      *)
LEMMA MoveHasRundown ==
  ASSUME IInv, job["studio"] \in MoveJob, job["studio"].pc \in Locked
  PROVE  /\ job["studio"].r \in Rundowns /\ rundownLock[job["studio"].r] = "studio"
         /\ Exists(job["studio"].r) /\ rundown[job["studio"].r].home \in Ids
         /\ \A x \in Rundowns : ~Doomed(x)
BY DEF IInv, Control, RundownLocks, HoldsRundown, Threads, MoveJob, Locked, Homes, HomeInMove, Documents, Doomed, At

(* The lock of the rundown is released: others keep theirs.                *)
LEMMA OthersKeepLock ==
  ASSUME IInv, NEW r \in Rundowns, rundownLock[r] # "ingest",
         rundownLock' \in {rundownLock, [rundownLock EXCEPT ![r] = Free]}
  PROVE  \A x \in Rundowns : rundownLock[x] = "ingest" => rundownLock'[x] = "ingest"
BY DEF IInv, Control, RundownLocks

(* The rundown of a move is written: it is orphaned as before.             *)
LEMMA RehomedAsItWas ==
  ASSUME IInv, NEW r \in Rundowns, Exists(r), NEW h \in Ids, NEW m \in BOOLEAN,
         rundown' = [rundown EXCEPT ![r].home = h, ![r].manual = m]
  PROVE  Rehomed(r, h) /\ rundown'[r].orphaned = rundown[r].orphaned
<1>1. Rehomed(r, h)
  BY Rehomes
<1>2. rundown[r] \in RundownDoc
  BY DEF IInv, Documents, Exists
<1>3. rundown'[r] = [rundown[r] EXCEPT !.home = h, !.manual = m]
  BY DEF IInv, Documents
<1>4. ASSUME NEW d \in RundownDoc PROVE [d EXCEPT !.home = h, !.manual = m].orphaned = d.orphaned
  BY DEF RundownDoc
<1> QED BY <1>1, <1>2, <1>3, <1>4

(* The rundown leaves its playlist, or the move throws. *)
LEMMA MoveOutOfPlaylistHouses ==
  ASSUME IInv, HInv, MoveOutOfPlaylist
  PROVE  HInv' /\ OrderStep
<1> DEFINE j == job["studio"]
           k == job'["studio"]
<1>0. Jobs /\ At("studio", "leave") /\ j \in MoveJob /\ j.pc \in Locked
  BY AtStudio DEF IInv, Control, MoveOutOfPlaylist, Locked, At
<1>1. /\ j.r \in Rundowns /\ rundownLock[j.r] = "studio" /\ Exists(j.r) /\ rundown[j.r].home \in Ids
      /\ \A x \in Rundowns : ~Doomed(x)
  BY <1>0, MoveHasRundown
<1>2. /\ playlist' = playlist /\ data' = data /\ broken' = broken
      /\ placed' \in {placed, [placed EXCEPT ![j.r] = None]}
      /\ rundownLock' \in {rundownLock, [rundownLock EXCEPT ![j.r] = Free]}
  BY DEF MoveOutOfPlaylist, LeaveFor, MoveThrows, Unlock, documents, ghosts
<1>3. \A x \in Rundowns : rundownLock[x] = "ingest" => rundownLock'[x] = "ingest"
  BY <1>1, <1>2, OthersKeepLock
<1>4. /\ job'["ingest"] = job["ingest"]
      /\ \/ k.pc = "idle" /\ rundown' = rundown
         \/ /\ k.pc = "regenerate" /\ k.r = j.r /\ k.wanted = j.wanted
            /\ Rehomed(j.r, Tmp) /\ rundown'[j.r].orphaned = rundown[j.r].orphaned
  <2>1. CASE playlist[j.from] # None /\ AllowedToMoveOut(j.from, j.r)
    <3>1. /\ Goto("studio", "regenerate")
          /\ rundown' = [rundown EXCEPT ![j.r].home = Tmp, ![j.r].manual = TRUE]
      BY <1>1, <2>1 DEF MoveOutOfPlaylist, LeaveFor, IInv, Documents, RundownDoc, Exists
    <3>2. MoveGoesOn("regenerate", j.from, j.into)
      BY <1>0, <3>1, MoveGoes DEF Locked
    <3> QED BY <1>1, <3>1, <3>2, RehomedAsItWas DEF MoveGoesOn, Ids
  <2>2. CASE ~(playlist[j.from] # None /\ AllowedToMoveOut(j.from, j.r))
    <3>1. rundown' = rundown /\ Done("studio")
      BY <2>2 DEF MoveOutOfPlaylist, MoveThrows, documents
    <3> QED BY <1>0, <3>1, JobEnds DEF Ends, Threads
  <2> QED BY <2>1, <2>2
<1> HIDE DEF k
<1>5. \A x \in Rundowns : StaysHoused(x)
  <2>1. ASSUME NEW x \in Rundowns, x # j.r \/ k.pc = "idle" PROVE StaysHoused(x)
    BY <1>0, <1>1, <1>2, <1>3, <1>4, <2>1 DEF StaysHoused, HousedAfter, StudioAway, At, Lists, ListsAfter, Rehomed,
       OthersStay
  <2>2. ASSUME k.pc = "regenerate", k.r = j.r PROVE StaysHoused(j.r)
    BY <2>2 DEF StaysHoused, HousedAfter, AwayAfter, k
  <2> QED BY <1>4, <2>1, <2>2
<1>6. \A x \in Rundowns : StaysSynced(x)
  BY <1>1, <1>2, <1>3, <1>4 DEF StaysSynced, Rehomed, OthersStay, Exists
<1>7. AllHoused' /\ MadeForUpdate' /\ RundownsSynced' /\ UpdateSynced'
  BY <1>2, <1>4, <1>5, <1>6, StudioHouses
<1>8. Orders' /\ MadeForMove'
  BY <1>2, <1>4, OrdersStay DEF MadeForMove, At, k
<1>9. WantedIsFair'
  <2>1. CASE k.pc = "idle"
    BY <2>1 DEF WantedIsFair, k
  <2>2. CASE k.r = j.r /\ k.wanted = j.wanted
    BY <1>0, <2>2, WantedStays DEF k
  <2> QED BY <1>4, <2>1, <2>2
<1>10. Marks' /\ OrderStep
  BY <1>1, <1>2, OrderSteps DEF HInv, Marks
<1> QED BY <1>7, <1>8, <1>9, <1>10 DEF HInv, HomeInv

(* The playlist that it has left is made anew. *)
LEMMA RegenerateInMoveHouses ==
  ASSUME IInv, HInv, RegenerateOldPlaylist("studio")
  PROVE  HInv' /\ OrderStep
<1> DEFINE j == job["studio"]
           k == job'["studio"]
<1>0. Jobs /\ At("studio", "regenerate") /\ j \in MoveJob /\ j.pc \in Locked /\ j.from \in Ids
  BY AtStudio, FromIsPlaylist DEF IInv, Control, RegenerateOldPlaylist, Locked, At
<1>1. /\ rundown' = rundown /\ data' = data /\ broken' = broken /\ placed' = placed /\ rundownLock' = rundownLock
      /\ \A x \in Rundowns : ~Doomed(x)
  BY <1>0, MoveHasRundown DEF RegenerateOldPlaylist, ghosts
<1>2. job'["ingest"] = job["ingest"] /\ k.pc = "enter" /\ k.r = j.r /\ k.wanted = j.wanted
  BY <1>0, MoveGoes DEF RegenerateOldPlaylist, MoveGoesOn, Locked
<1>3. /\ playlist' = playlist \/ Rewrites(j.from)
      /\ KeepsOrder(playlist[j.from], playlist'[j.from])
      /\ ~HoldsPlaylist("ingest", j.from)
  BY <1>0, RegenerationRewrites, OneHolder DEF Threads, HoldsPlaylist
<1>4. ListsStay
  BY <1>0, <1>3, RewritingKeepsLists
<1> HIDE DEF k
<1>5. \A x \in Rundowns : StaysHoused(x)
  <2>1. ASSUME NEW x \in Rundowns, x # j.r PROVE StaysHoused(x)
    BY <1>1, <1>4, <2>1 DEF StaysHoused, HousedAfter, StudioAway, ListsStay, Exists
  <2>2. StaysHoused(j.r)
    BY <1>2 DEF StaysHoused, HousedAfter, AwayAfter, k
  <2> QED BY <2>1, <2>2
<1>6. \A x \in Rundowns : StaysSynced(x)
  BY <1>1 DEF StaysSynced
<1>7. AllHoused' /\ MadeForUpdate' /\ RundownsSynced' /\ UpdateSynced'
  BY <1>0, <1>1, <1>2, <1>3, <1>5, <1>6, StudioHouses DEF Rewrites
<1>8. Orders' /\ MadeForMove'
  BY <1>0, <1>2, <1>3, OrdersStay DEF MadeForMove, At, k, Rewrites
<1>9. WantedIsFair'
  BY <1>0, <1>2, WantedStays DEF k
<1>10. Marks' /\ OrderStep
  BY <1>0, <1>1, <1>3, OrderSteps DEF HInv, Marks, Rewrites
<1> QED BY <1>7, <1>8, <1>9, <1>10 DEF HInv, HomeInv

(* It enters another one, or the one it is in, unless that is gone. *)
LEMMA MoveIntoPlaylistHouses ==
  ASSUME IInv, HInv, MoveIntoPlaylist
  PROVE  HInv' /\ OrderStep
<1> DEFINE j == job["studio"]
           k == job'["studio"]
           p == j.into
<1>0. Jobs /\ At("studio", "enter") /\ j \in MoveJob /\ j.pc \in Locked /\ p \in Ids /\ playlistLock[p] = Free
  BY AtStudio DEF IInv, Control, MoveIntoPlaylist, Locked, At, MoveJob
<1>1. /\ j.r \in Rundowns /\ rundownLock[j.r] = "studio" /\ Exists(j.r) /\ rundown[j.r].home \in Ids
      /\ \A x \in Rundowns : ~Doomed(x)
  BY <1>0, MoveHasRundown
<1>2. CASE playlist[p] = None
  <2>1. /\ rundown' = rundown /\ playlist' = playlist /\ data' = data /\ placed' = placed
        /\ broken' = broken \cup {j.r} /\ rundownLock' = [rundownLock EXCEPT ![j.r] = Free]
    BY <1>2 DEF MoveIntoPlaylist, MoveThrows, Unlock, documents
  <2>2. \A x \in Rundowns : rundownLock[x] = "ingest" => rundownLock'[x] = "ingest"
    BY <1>1, <2>1, OthersKeepLock
  <2>3. job'["ingest"] = job["ingest"] /\ k.pc = "idle"
    BY <1>0, <1>2, JobEnds DEF MoveIntoPlaylist, MoveThrows, Ends, Threads
  <2> HIDE DEF k
  <2>4. \A x \in Rundowns : StaysHoused(x) /\ StaysSynced(x)
    BY <1>1, <2>1, <2>2 DEF StaysHoused, StaysSynced, HousedAfter, StudioAway, Lists, ListsAfter
  <2>5. AllHoused' /\ MadeForUpdate' /\ RundownsSynced' /\ UpdateSynced'
    BY <2>1, <2>3, <2>4, StudioHouses
  <2>6. Orders' /\ MadeForMove' /\ WantedIsFair'
    BY <2>1, <2>3, NoMove DEF Locked, k
  <2>7. Marks' /\ OrderStep
    BY <1>1, <2>1, OrderSteps DEF HInv, Marks
  <2> QED BY <2>5, <2>6, <2>7 DEF HInv, HomeInv
<1>3. CASE playlist[p] # None
  <2> DEFINE e == [playlist[p] EXCEPT !.manualOrder = TRUE]
  <2>1. /\ data' = data /\ broken' = broken /\ rundownLock' = rundownLock
        /\ placed' \in {placed, [placed EXCEPT ![j.r] = p]}
        /\ playlist' = [playlist EXCEPT ![p] = e]
    BY <1>3 DEF MoveIntoPlaylist, ghosts, IInv, Documents
  <2>2. rundown' = rundown \/ (Rehomed(j.r, p) /\ rundown'[j.r].orphaned = rundown[j.r].orphaned)
    BY <1>0, <1>1, <1>3, RehomedAsItWas DEF MoveIntoPlaylist
  <2>3. job'["ingest"] = job["ingest"] /\ k.pc = "order" /\ k.r = j.r /\ k.wanted = j.wanted /\ k.into = p
    BY <1>0, <1>3, MoveGoes DEF MoveIntoPlaylist, MoveGoesOn, Locked
  <2> HIDE DEF k
  <2>4. IsSound(playlist[p])
    BY <1>0, <1>3 DEF HInv, Orders
  <2>5. IsSound(e) /\ e.order = playlist[p].order
    BY <2>4, SoundWithManualOrder
  <2>6. Rewrites(p) /\ playlist'[p] # None /\ KeepsOrder(playlist[p], playlist'[p]) /\ ~HoldsPlaylist("ingest", p)
    <3> HIDE DEF e, p
    <3>1. p \in Ids /\ playlistLock[p] = Free
      BY <1>0 DEF p
    <3> QED BY <1>3, <2>1, <2>5, <3>1, ReplacesInPlace, OneHolder DEF Threads
  <2> HIDE DEF e
  <2>7. ListsStay
    BY <1>0, <2>6, RewritingKeepsLists
  <2>8. \A x \in Rundowns : StaysHoused(x)
    <3>1. ASSUME NEW x \in Rundowns, x # j.r PROVE StaysHoused(x)
      BY <1>1, <2>1, <2>2, <2>7, <3>1 DEF StaysHoused, HousedAfter, StudioAway, ListsStay, Exists, Rehomed, OthersStay
    <3>2. StaysHoused(j.r)
      BY <2>3 DEF StaysHoused, HousedAfter, AwayAfter, k
    <3> QED BY <3>1, <3>2
  <2>9. \A x \in Rundowns : StaysSynced(x)
    BY <1>1, <2>1, <2>2 DEF StaysSynced, Rehomed, OthersStay, Exists
  <2>10. AllHoused' /\ MadeForUpdate' /\ RundownsSynced' /\ UpdateSynced'
    BY <1>0, <2>1, <2>3, <2>6, <2>8, <2>9, StudioHouses DEF Rewrites
  <2>11. Orders' /\ MadeForMove'
    BY <1>0, <2>3, <2>6, OrdersStay DEF MadeForMove, At, k, Rewrites
  <2>12. WantedIsFair'
    BY <1>0, <2>3, WantedStays DEF k
  <2>13. Marks' /\ OrderStep
    BY <1>0, <1>1, <2>1, <2>6, OrderSteps DEF HInv, Marks, Rewrites
  <2> QED BY <2>10, <2>11, <2>12, <2>13 DEF HInv, HomeInv
<1> QED BY <1>2, <1>3

(* The playlist is put in order: as it was, but where the user asked.      *)
LEMMA OrderPlaylistHouses ==
  ASSUME IInv, HInv, OrderPlaylist
  PROVE  HInv' /\ OrderStep
<1> DEFINE j   == job["studio"]
           p   == j.into
           S   == RundownsOf(p)
           old == playlist[p]
           o   == PlaceInOrder(old.order, j.r, j.wanted)
           new == IF j.from = p THEN [old EXCEPT !.order = o] ELSE old
<1>0. Jobs /\ At("studio", "order") /\ j \in MoveJob /\ j.pc \in Locked /\ p \in Ids
  BY AtStudio DEF IInv, Control, OrderPlaylist, Locked, At, Homes, HomeInMove
<1>1. /\ j.r \in Rundowns /\ rundownLock[j.r] = "studio" /\ Exists(j.r) /\ rundown[j.r].home = p
      /\ \A x \in Rundowns : ~Doomed(x)
  BY <1>0, MoveHasRundown DEF IInv, Homes, HomeInMove
<1>2. /\ rundown' = rundown /\ data' = data /\ placed' = placed /\ broken' = broken \ ({j.r} \cap data)
      /\ rundownLock' = [rundownLock EXCEPT ![j.r] = Free]
  BY DEF OrderPlaylist, Unlock
<1>3. \A x \in Rundowns : rundownLock[x] = "ingest" => rundownLock'[x] = "ingest"
  BY <1>1, <1>2, OthersKeepLock
<1>4. job'["ingest"] = job["ingest"] /\ job'["studio"].pc = "idle"
  BY <1>0, JobEnds DEF OrderPlaylist, Ends, Threads
<1>5. PICK e \in EnsureNext(Regenerate(new, S), S) : playlist' = [playlist EXCEPT ![p] = e]
  BY DEF OrderPlaylist
<1>6. IsSound(old)
  BY <1>0 DEF HInv, Orders
<1>7. IsOrder(o)
  <2>1. IsOrder(j.wanted) /\ j.r \in ToSet(j.wanted)
    BY <1>0 DEF HInv, HomeInv, WantedIsFair, At, MoveJob, IsOrder
  <2>2. IsOrder(old.order)
    BY <1>6, SoundOrder
  <2> QED BY <1>1, <2>1, <2>2, PlaceIsOrder
<1> HIDE DEF o
<1>8. IsSound(new) /\ (j.from # p => new = old)
  BY <1>6, <1>7, SoundWithOrder
<1> HIDE DEF new
<1>9. S # {} /\ j.r \in S /\ S \in SUBSET Rundowns
  BY <1>1 DEF RundownsOf
<1> HIDE DEF S
<1>10. IsMadeOf(e, new, S)
  BY <1>5, <1>8, <1>9, RegeneratedLists
<1>11. Rewrites(p) /\ playlist'[p] = e /\ e # None /\ \A r \in RundownsOf(p) : ListsAfter(p, r)
  <2>1. IsSound(e) /\ \A r \in RundownsOf(p) : r \in ToSet(e.order)
    BY <1>10 DEF IsMadeOf, S
  <2> HIDE DEF p
  <2>2. p \in Ids
    BY <1>0 DEF p
  <2> QED BY <1>5, <2>1, <2>2, Replaces, SoundOrder
<1>12. ~HoldsPlaylist("ingest", p)
  BY <1>0, OneHolder DEF HoldsPlaylist
<1>13. ListsStay
  BY <1>0, <1>11, RewritingKeepsLists
<1>14. \A x \in Rundowns : StaysHoused(x)
  <2>1. ASSUME NEW x \in Rundowns, x # j.r PROVE StaysHoused(x)
    BY <1>1, <1>2, <1>3, <1>13, <2>1 DEF StaysHoused, HousedAfter, StudioAway, ListsStay, Exists
  <2>2. StaysHoused(j.r)
    BY <1>1, <1>2, <1>9, <1>11 DEF StaysHoused, HousedAfter, S
  <2> QED BY <2>1, <2>2
<1>15. \A x \in Rundowns : StaysSynced(x)
  BY <1>2, <1>3 DEF StaysSynced
<1>16. AllHoused' /\ MadeForUpdate' /\ RundownsSynced' /\ UpdateSynced'
  BY <1>0, <1>2, <1>4, <1>11, <1>12, <1>14, <1>15, StudioHouses DEF Rewrites
<1>17. Orders' /\ MadeForMove' /\ WantedIsFair'
  BY <1>0, <1>4, <1>11, NoMove DEF Locked, Rewrites
<1>18. Marks'
  BY <1>2 DEF HInv, Marks
<1>19. OrderStep
  <2>1. CASE j.from = p
    BY <1>0, <1>11, <2>1 DEF OrderStep, Rewrites, Writes
  <2>2. CASE j.from # p
    <3>1. KeepsOrder(playlist[p], playlist'[p])
      BY <1>8, <1>10, <1>11, <2>2 DEF IsMadeOf
    <3> QED BY <1>0, <1>11, <3>1, OrderSteps DEF Rewrites
  <2> QED BY <2>1, <2>2
<1> QED BY <1>16, <1>17, <1>18, <1>19 DEF HInv, HomeInv

(* A playlist is inserted for the rundown, *)
LEMMA InsertPlaylistHouses ==
  ASSUME IInv, HInv, NEW p \in Fresh, InsertPlaylist(p)
  PROVE  HInv' /\ OrderStep
<1> DEFINE j == job["studio"]
           k == job'["studio"]
           e == [NewPlaylist EXCEPT !.order = <<j.r>>]
<1>0. Jobs /\ At("studio", "enter") /\ j \in MoveJob /\ j.pc \in Locked /\ p \in Ids
  BY AtStudio DEF IInv, Control, InsertPlaylist, Locked, At, Ids
<1>1. /\ j.r \in Rundowns /\ Exists(j.r)
      /\ \A x \in Rundowns : ~Doomed(x)
  BY <1>0, MoveHasRundown
<1>2. /\ rundown' = rundown /\ data' = data /\ placed' = placed /\ broken' = broken /\ rundownLock' = rundownLock
      /\ playlist' = [playlist EXCEPT ![p] = e] /\ playlist[p] = None
      /\ \A r \in Rundowns : rundown[r] # None => rundown[r].home # p
      /\ job["ingest"] # Idle => p \notin {job["ingest"].from, job["ingest"].into}
  BY DEF InsertPlaylist, IsNew, locks, ghosts, Exists
<1>3. job'["ingest"] = job["ingest"] /\ k.pc = "settle" /\ k.r = j.r /\ k.wanted = j.wanted /\ k.into = p
  BY <1>0, MoveSettles DEF InsertPlaylist, MoveGoesOn
<1> HIDE DEF k
<1>4. IsSound(e) /\ ToSet(e.order) = {j.r}
  <2>1. IsOrder(<<j.r>>) /\ ToSet(<<j.r>>) = {j.r}
    BY <1>1 DEF IsOrder, IsInjective, ToSet
  <2> QED BY <2>1, NewIsSound, SoundWithOrder
<1>5. Rewrites(p) /\ playlist'[p] = e /\ e # None
  <2>1. RundownsOf(p) = {}
    BY <1>2 DEF RundownsOf, Exists
  <2> HIDE DEF e
  <2> QED BY <1>0, <1>2, <1>4, <2>1, Replaces, SoundOrder
<1> HIDE DEF e
<1>6. KeepsOrder(playlist[p], playlist'[p]) /\ ListsStay
  BY <1>0, <1>2, <1>5, RewritingKeepsLists DEF KeepsOrder
<1>7. ~HoldsPlaylist("ingest", p)
  BY <1>2 DEF HoldsPlaylist, At, Idle
<1>8. \A x \in Rundowns : StaysHoused(x)
  <2>1. ASSUME NEW x \in Rundowns, x # j.r PROVE StaysHoused(x)
    BY <1>1, <1>2, <1>6, <2>1 DEF StaysHoused, HousedAfter, StudioAway, ListsStay, Exists
  <2>2. StaysHoused(j.r)
    BY <1>3 DEF StaysHoused, HousedAfter, AwayAfter, k
  <2> QED BY <2>1, <2>2
<1>9. \A x \in Rundowns : StaysSynced(x)
  BY <1>2 DEF StaysSynced
<1>10. AllHoused' /\ MadeForUpdate' /\ RundownsSynced' /\ UpdateSynced'
  BY <1>0, <1>2, <1>3, <1>5, <1>7, <1>8, <1>9, StudioHouses DEF Rewrites
<1>11. Orders'
  BY <1>0, <1>3, <1>5, OrdersStay DEF k, Rewrites
<1>12. MadeForMove'
  BY <1>2, <1>3, <1>4, <1>5 DEF MadeForMove, At, k, Lists, Exists
<1>13. WantedIsFair'
  BY <1>0, <1>3, WantedStays DEF k
<1>14. Marks' /\ OrderStep
  BY <1>0, <1>2, <1>5, <1>6, OrderSteps DEF HInv, Marks, Rewrites
<1> QED BY <1>10, <1>11, <1>12, <1>13, <1>14 DEF HInv, HomeInv

(* and the rundown settles in it. *)
LEMMA SettleInPlaylistHouses ==
  ASSUME IInv, HInv, SettleInPlaylist
  PROVE  HInv' /\ OrderStep
<1> DEFINE j == job["studio"]
           p == j.into
<1>0. Jobs /\ At("studio", "settle") /\ j \in MoveJob /\ j.pc \in Locked /\ p \in Ids
  BY AtStudio DEF IInv, Control, SettleInPlaylist, Locked, At, Homes, HomeInMove
<1>1. /\ j.r \in Rundowns /\ rundownLock[j.r] = "studio" /\ Exists(j.r)
      /\ \A x \in Rundowns : ~Doomed(x)
  BY <1>0, MoveHasRundown
<1>2. /\ playlist' = playlist /\ data' = data /\ broken' = broken \ ({j.r} \cap data)
      /\ placed' = [placed EXCEPT ![j.r] = p] /\ rundownLock' = [rundownLock EXCEPT ![j.r] = Free]
  BY DEF SettleInPlaylist, Unlock
<1>3. \A x \in Rundowns : rundownLock[x] = "ingest" => rundownLock'[x] = "ingest"
  BY <1>1, <1>2, OthersKeepLock
<1>4. Rehomed(j.r, p) /\ rundown'[j.r].orphaned = rundown[j.r].orphaned
  BY <1>0, <1>1, RehomedAsItWas DEF SettleInPlaylist
<1>5. job'["ingest"] = job["ingest"] /\ job'["studio"].pc = "idle"
  BY <1>0, JobEnds DEF SettleInPlaylist, Ends, Threads
<1>6. Lists(p, j.r)
  BY <1>0 DEF HInv, HomeInv, MadeForMove
<1>7. \A x \in Rundowns : StaysHoused(x)
  <2>1. ASSUME NEW x \in Rundowns, x # j.r PROVE StaysHoused(x)
    BY <1>1, <1>2, <1>3, <1>4, <2>1 DEF StaysHoused, HousedAfter, StudioAway, Lists, ListsAfter, Rehomed, OthersStay
  <2>2. StaysHoused(j.r)
    BY <1>2, <1>4, <1>6 DEF StaysHoused, HousedAfter, Lists, ListsAfter, Rehomed
  <2> QED BY <2>1, <2>2
<1>8. \A x \in Rundowns : StaysSynced(x)
  BY <1>1, <1>2, <1>3, <1>4 DEF StaysSynced, Rehomed, OthersStay, Exists
<1>9. AllHoused' /\ MadeForUpdate' /\ RundownsSynced' /\ UpdateSynced'
  BY <1>2, <1>5, <1>7, <1>8, StudioHouses
<1>10. Orders' /\ MadeForMove' /\ WantedIsFair'
  BY <1>2, <1>5, NoMove DEF Locked
<1>11. Marks' /\ OrderStep
  BY <1>0, <1>1, <1>2, OrderSteps DEF HInv, Marks
<1> QED BY <1>9, <1>10, <1>11 DEF HInv, HomeInv

(* A playlist is removed: its rundowns are doomed. *)
LEMMA RemovePlaylistHouses ==
  ASSUME IInv, HInv, NEW p \in Ids, RemovePlaylist(p)
  PROVE  HInv' /\ OrderStep
<1> DEFINE k == job'["studio"]
<1>1. /\ rundown' = rundown /\ data' = data /\ broken' = broken /\ placed' = placed /\ rundownLock' = rundownLock
      /\ playlist' = [playlist EXCEPT ![p] = None] /\ job["studio"] = Idle /\ playlistLock[p] = Free
  BY DEF RemovePlaylist, Starts, locks, ghosts
<1>2. job'["ingest"] = job["ingest"] /\ k.pc = "list" /\ k.from = p
  BY RemovalBegins DEF StudioBegins
<1> HIDE DEF k
<1>3. Writes(p) /\ playlist'[p] = None /\ ~HoldsPlaylist("ingest", p)
  BY <1>1, OneHolder DEF Writes, IInv, Documents, Threads
<1>4. \A x \in Rundowns : StaysHoused(x)
  <2>1. ASSUME NEW x \in Rundowns, rundown[x] # None, rundown[x].home = p PROVE StaysHoused(x)
    BY <1>1, <1>2, <2>1 DEF StaysHoused, HousedAfter, DoomedAfter, k
  <2>2. ASSUME NEW x \in Rundowns, rundown[x] # None, rundown[x].home # p PROVE StaysHoused(x)
    <3>1. playlist'[rundown[x].home] = playlist[rundown[x].home]
      BY <1>3, <2>2 DEF Writes, IInv, Documents, Exists
    <3> QED BY <1>1, <2>2, <3>1 DEF StaysHoused, StudioAway, Doomed, At, Idle, Lists, ListsAfter
  <2>3. ASSUME NEW x \in Rundowns, rundown[x] = None PROVE StaysHoused(x)
    BY <1>1, <2>3 DEF StaysHoused, HousedAfter
  <2> QED BY <2>1, <2>2, <2>3
<1>5. \A x \in Rundowns : StaysSynced(x)
  BY <1>1 DEF StaysSynced
<1>6. AllHoused' /\ MadeForUpdate' /\ RundownsSynced' /\ UpdateSynced'
  BY <1>1, <1>2, <1>3, <1>4, <1>5, StudioHouses
<1>7. Orders' /\ MadeForMove' /\ WantedIsFair'
  BY <1>2, <1>3, NoMove DEF Locked, k
<1>8. Marks'
  BY <1>1 DEF HInv, Marks
<1>9. OrderStep
  BY <1>3, OrderSteps DEF KeepsOrder
<1> QED BY <1>6, <1>7, <1>8, <1>9 DEF HInv, HomeInv

(* Its rundowns are listed, *)
LEMMA ListRundownsHouses ==
  ASSUME IInv, HInv, ListRundowns
  PROVE  HInv' /\ OrderStep
<1> DEFINE p == job["studio"].from
           k == job'["studio"]
           S == RundownsOf(p)
           c == [pc |-> "cleanup", from |-> p, todo |-> S]
<1>0. At("studio", "list")
  BY DEF ListRundowns
<1>1. /\ rundown' = rundown /\ playlist' = playlist /\ data' = data /\ broken' = broken /\ placed' = placed
      /\ rundownLock' = rundownLock
  BY DEF ListRundowns, documents, locks, ghosts
<1>2. job'["ingest"] = job["ingest"]
  BY CleanupBegins DEF CleanupGoesOn
<1>3. IF S = {} THEN k = Idle ELSE k = c
  <2>1. job' = [job EXCEPT !["studio"] = IF S = {} THEN Idle ELSE c]
    BY DEF ListRundowns
  <2> HIDE DEF S, c
  <2> QED BY <2>1, JobUpdate DEF Threads, IInv, Control
<1>4. c.pc = "cleanup" /\ c.from = p /\ c.todo = S
  OBVIOUS
<1> HIDE DEF c, k
<1>5. \A x \in Rundowns : StaysHoused(x)
  <2>1. ASSUME NEW x \in Rundowns, x \in S PROVE StaysHoused(x)
    BY <1>1, <1>3, <1>4, <2>1 DEF StaysHoused, HousedAfter, DoomedAfter, k, RundownsOf
  <2>2. ASSUME NEW x \in Rundowns, x \notin S PROVE StaysHoused(x)
    BY <1>0, <1>1, <2>2 DEF StaysHoused, HousedAfter, StudioAway, Doomed, At, Lists, ListsAfter, RundownsOf, Exists
  <2> QED BY <2>1, <2>2
<1>6. \A x \in Rundowns : StaysSynced(x)
  BY <1>1 DEF StaysSynced
<1>7. AllHoused' /\ MadeForUpdate' /\ RundownsSynced' /\ UpdateSynced'
  BY <1>1, <1>2, <1>5, <1>6, StudioHouses
<1>8. Orders' /\ MadeForMove' /\ WantedIsFair'
  <2>1. k.pc \notin Locked \cup {"lock"}
    BY <1>3, <1>4 DEF Idle, Locked
  <2> QED BY <1>1, <2>1, NoMove DEF k
<1>9. Marks' /\ OrderStep
  BY <1>1, OrderSteps DEF HInv, Marks
<1> QED BY <1>7, <1>8, <1>9 DEF HInv, HomeInv

(* and removed one by one. *)
LEMMA CleanupRundownHouses ==
  ASSUME IInv, HInv, NEW r \in Rundowns, CleanupRundown(r)
  PROVE  HInv' /\ OrderStep
<1> DEFINE j == job["studio"]
           k == job'["studio"]
           rest == j.todo \ {r}
           c == [j EXCEPT !.todo = rest]
<1>0. Jobs /\ At("studio", "cleanup") /\ j \in CleanupJob /\ r \in j.todo
  BY AtCleanup DEF IInv, Control, CleanupRundown
<1>1. /\ playlist' = playlist /\ broken' = broken /\ rundownLock' = rundownLock /\ rundownLock[r] = Free
      /\ placed' \in {placed, [placed EXCEPT ![r] = None]}
      /\ \/ Removed(r) /\ data' = data \ {r}
         \/ ~(Exists(r) /\ rundown[r].home = j.from) /\ rundown' = rundown /\ data' = data
  BY Removes DEF CleanupRundown, locks
<1>2. job'["ingest"] = job["ingest"]
  BY CleanupProceeds DEF CleanupGoesOn
<1>3. IF j.todo = {r} THEN k = Idle ELSE k = c
  <2>1. job' = [job EXCEPT !["studio"] = IF j.todo = {r} THEN Idle ELSE c]
    BY DEF CleanupRundown
  <2> HIDE DEF c
  <2> QED BY <1>0, <2>1, JobUpdate DEF Threads
<1>4. c.pc = "cleanup" /\ c.from = j.from /\ c.todo = rest
  <2>1. j.pc = "cleanup" /\ j \in CleanupJob
    BY <1>0 DEF At
  <2> HIDE DEF j, rest
  <2> QED BY <2>1 DEF CleanupJob
<1> HIDE DEF c, k
<1>5. \A x \in Rundowns : StaysHoused(x)
  <2>1. StaysHoused(r)
    <3>1. CASE Removed(r)
      BY <3>1 DEF StaysHoused, HousedAfter, Removed
    <3>2. CASE ~(Exists(r) /\ rundown[r].home = j.from) /\ rundown' = rundown
      BY <1>0, <1>1, <3>2 DEF StaysHoused, HousedAfter, StudioAway, Doomed, At, Lists, ListsAfter, Exists
    <3> QED BY <1>1, <3>1, <3>2
  <2>2. ASSUME NEW x \in Rundowns, x # r PROVE StaysHoused(x)
    <3>1. rundown'[x] = rundown[x]
      BY <1>1, <2>2 DEF Removed, OthersStay
    <3>2. CASE x \in j.todo /\ j.from = rundown[x].home
      <4>1. k = c
        BY <1>3, <2>2, <3>2
      <4> QED BY <1>4, <2>2, <3>1, <3>2, <4>1 DEF StaysHoused, HousedAfter, DoomedAfter, k
    <3>3. CASE ~(x \in j.todo /\ j.from = rundown[x].home)
      BY <1>0, <1>1, <3>1, <3>3 DEF StaysHoused, HousedAfter, StudioAway, Doomed, At, Lists, ListsAfter
    <3> QED BY <3>2, <3>3
  <2> QED BY <2>1, <2>2
<1>6. \A x \in Rundowns : StaysSynced(x)
  BY <1>1 DEF StaysSynced, Removed, OthersStay
<1>7. AllHoused' /\ MadeForUpdate' /\ RundownsSynced' /\ UpdateSynced'
  BY <1>1, <1>2, <1>5, <1>6, StudioHouses DEF Free
<1>8. Orders' /\ MadeForMove' /\ WantedIsFair'
  <2>1. k.pc \notin Locked \cup {"lock"}
    BY <1>3, <1>4 DEF Idle, Locked
  <2> QED BY <1>1, <2>1, NoMove DEF k
<1>9. Marks' /\ OrderStep
  BY <1>1, OrderSteps DEF HInv, Marks
<1> QED BY <1>7, <1>8, <1>9 DEF HInv, HomeInv

(* Jobs that hold one playlist lock, and are over in one step.             *)
LEMMA UnderLockHouses ==
  ASSUME IInv, HInv, NEW p \in Ids, UnderPlaylistLock(p),
         rundown' = rundown, data' = data, locks' = locks, job' = job, ghosts' = ghosts,
         Rewrites(p), KeepsOrder(playlist[p], playlist'[p])
  PROVE  HInv' /\ OrderStep
<1>1. /\ broken' = broken /\ placed' = placed /\ rundownLock' = rundownLock
      /\ job["studio"] = Idle /\ ~HoldsPlaylist("ingest", p)
  BY OneHolder DEF locks, ghosts, UnderPlaylistLock, Threads
<1>2. ListsStay
  BY RewritingKeepsLists
<1>3. \A x \in Rundowns : StaysHoused(x) /\ StaysSynced(x)
  BY <1>1, <1>2 DEF StaysHoused, HousedAfter, StaysSynced, StudioAway, Doomed, At, Idle, ListsStay, Exists
<1>4. AllHoused' /\ MadeForUpdate' /\ RundownsSynced' /\ UpdateSynced'
  BY <1>1, <1>3, StudioHouses DEF Rewrites
<1>5. Orders' /\ MadeForMove' /\ WantedIsFair'
  BY <1>1, NoMove DEF Locked, Idle, Rewrites
<1>6. Marks' /\ OrderStep
  BY <1>1, OrderSteps DEF HInv, Marks, Rewrites
<1> QED BY <1>4, <1>5, <1>6 DEF HInv, HomeInv

(* The order by timing and name is restored: it is a user's no more.       *)
LEMMA RestoreOrderHouses ==
  ASSUME IInv, HInv, NEW p \in Ids, RestoreOrder(p)
  PROVE  HInv' /\ OrderStep
<1> DEFINE S == RundownsOf(p)
           d == [playlist[p] EXCEPT !.manualOrder = FALSE]
<1>1. PICK e \in EnsureNext(Regenerate(d, S), S) : playlist' = [playlist EXCEPT ![p] = e]
  BY DEF RestoreOrder
<1>2. UnderPlaylistLock(p) /\ playlist[p] # None
  BY DEF RestoreOrder, UnderPlaylistLock
<1>3. IsSound(d) /\ d.manualOrder = FALSE /\ d # None
  <2>1. IsSound(playlist[p])
    BY <1>2 DEF HInv, Orders
  <2>2. IsSound(d) /\ d.manualOrder = FALSE
    BY <2>1, SoundWithManualOrder
  <2> HIDE DEF d
  <2> QED BY <2>2, SoundOrder
<1> HIDE DEF d
<1>4. S \in SUBSET Rundowns
  BY DEF RundownsOf
<1> HIDE DEF S
<1>5. IF S = {} THEN e = None ELSE IsMadeOf(e, d, S)
  BY <1>1, <1>3, <1>4, RegeneratedLists
<1>6. Rewrites(p) /\ playlist'[p] = e
  <2>1. \/ e = None /\ RundownsOf(p) = {}
        \/ IsSound(e) /\ \A r \in RundownsOf(p) : r \in ToSet(e.order)
    BY <1>5 DEF IsMadeOf, S
  <2> QED BY <1>1, <2>1, Replaces
<1>7. KeepsOrder(playlist[p], playlist'[p])
  BY <1>3, <1>5, <1>6 DEF IsMadeOf, KeepsOrder
<1> QED BY <1>2, <1>6, <1>7, UnderLockHouses DEF RestoreOrder, locks, ghosts

(* An empty playlist is removed. *)
LEMMA RemoveEmptyPlaylistHouses ==
  ASSUME IInv, HInv, NEW p \in Ids, RemoveEmptyPlaylist(p)
  PROVE  HInv' /\ OrderStep
<1>1. UnderPlaylistLock(p) /\ RundownsOf(p) = {} /\ playlist' = [playlist EXCEPT ![p] = None]
  BY DEF RemoveEmptyPlaylist
<1>2. Rewrites(p) /\ playlist'[p] = None
  BY <1>1, Replaces
<1>3. KeepsOrder(playlist[p], playlist'[p])
  BY <1>2 DEF KeepsOrder
<1> QED BY <1>1, <1>2, <1>3, UnderLockHouses DEF RemoveEmptyPlaylist, locks, ghosts

(* What the playout selects does not touch the order. *)
LEMMA PlayoutJobHouses ==
  ASSUME IInv, HInv, NEW p \in Ids, PlayoutJob(p)
  PROVE  HInv' /\ OrderStep
<1> DEFINE old == playlist[p]
           N == RundownsOf(p) \cup {None}
<1>1. UnderPlaylistLock(p) /\ old # None /\ IsSound(old)
  BY DEF PlayoutJob, UnderPlaylistLock, HInv, Orders
<1>2. PICK doc \in Selects(p) : playlist' = [playlist EXCEPT ![p] = doc]
  BY DEF PlayoutJob
<1>3. N \in SUBSET (Rundowns \cup {None})
  BY DEF RundownsOf
<1>4. IsSound(doc) /\ doc.order = old.order
  <2>1. \/ \E n \in N : doc = [old EXCEPT !.active = TRUE, !.next = n]
        \/ doc = [old EXCEPT !.active = FALSE, !.current = None, !.next = None]
        \/ \E n \in N : doc = [old EXCEPT !.current = old.next, !.next = n]
        \/ \E n \in N : doc = [old EXCEPT !.next = n]
    BY DEF Selects
  <2> HIDE DEF old, N
  <2>2. old \in PlaylistDoc
    BY <1>1 DEF IsSound
  <2>3. doc \in PlaylistDoc /\ doc.order = old.order
    <3>1. CASE \E n \in N : doc = [old EXCEPT !.active = TRUE, !.next = n]
      BY <1>3, <2>2, <3>1 DEF PlaylistDoc
    <3>2. CASE doc = [old EXCEPT !.active = FALSE, !.current = None, !.next = None]
      BY <2>2, <3>2 DEF PlaylistDoc
    <3>3. CASE \E n \in N : doc = [old EXCEPT !.current = old.next, !.next = n]
      BY <1>3, <2>2, <3>3 DEF PlaylistDoc
    <3>4. CASE \E n \in N : doc = [old EXCEPT !.next = n]
      BY <1>3, <2>2, <3>4 DEF PlaylistDoc
    <3> QED BY <2>1, <3>1, <3>2, <3>3, <3>4
  <2> QED BY <1>1, <2>3 DEF IsSound
<1>5. Rewrites(p) /\ KeepsOrder(playlist[p], playlist'[p])
  BY <1>1, <1>2, <1>4, ReplacesInPlace
<1> QED BY <1>1, <1>5, UnderLockHouses DEF PlayoutJob, locks, ghosts

(* A job that fails leaves rundowns behind, and they are marked as such.   *)
LEMMA JobFailsHouses ==
  ASSUME IInv, HInv, NEW t \in Threads, JobFails(t)
  PROVE  HInv' /\ OrderStep
<1>0. Jobs /\ data \subseteq Rundowns
  BY DEF IInv, Control, HInv, Marks
<1>1. /\ rundown' = rundown /\ playlist' = playlist /\ data' = data /\ placed' = placed
      /\ broken' = broken \cup {r \in LeftBehind(t) : Exists(r)}
      /\ \A r \in Rundowns : rundownLock'[r] = IF rundownLock[r] = t THEN Free ELSE rundownLock[r]
      /\ job[t] # Idle
  BY DEF JobFails, documents
<1>2. job'[t] = Idle /\ job'[t].pc = "idle" /\ \A u \in Threads \ {t} : job'[u] = job[u]
  BY <1>0, JobEnds DEF JobFails, Ends
<1>3. CASE t = "ingest"
  <2>1. job["ingest"] \in IngestJob /\ LeftBehind(t) = {job["ingest"].r}
    <3>1. job["ingest"] \in IngestJob
      BY <1>0, <1>1, <1>3 DEF Jobs
    <3>2. ~(job["ingest"].pc \in {"list", "cleanup"}) /\ ~(t = "studio")
      BY <1>3, <3>1 DEF IngestJob
    <3> QED BY <1>3, <3>1, <3>2 DEF LeftBehind
  <2>2. job["ingest"].r \in Rundowns /\ \A x \in Rundowns : rundownLock[x] = "ingest" <=> x = job["ingest"].r
    BY <2>1, IngestHasRundown
  <2>3. job'["studio"] = job["studio"] /\ job'["ingest"] = Idle
    BY <1>2, <1>3 DEF Threads
  <2>4. \A x \in Rundowns : LeavesHoused(x)
    BY <1>1, <2>1, <2>2 DEF LeavesHoused, Exists
  <2>5. \A x \in Rundowns : rundown'[x] # None => Known(rundown'[x].home)
    BY <1>1 DEF Known
  <2>6. Orders' /\ AllHoused' /\ MadeForMove' /\ WantedIsFair' /\ OrderStep
    BY <1>1, <2>3, <2>4, <2>5, IngestHouses
  <2>7. Marks'
    BY <1>1, <2>1, <2>2 DEF HInv, Marks
  <2>8. RundownsSynced'
    BY <1>1, <2>1, <2>2 DEF HInv, HomeInv, RundownsSynced, Exists
  <2> QED BY <2>3, <2>6, <2>7, <2>8, NoUpdateToSave DEF HInv, HomeInv
<1>4. CASE t = "studio"
  <2> DEFINE j == job["studio"]
  <2>1. job'["ingest"] = job["ingest"] /\ job'["studio"].pc = "idle"
    BY <1>2, <1>4 DEF Threads
  <2>2. /\ LeftBehind(t) \subseteq Rundowns
        /\ \A x \in Rundowns : StudioAway(x) \/ (Doomed(x) /\ Exists(x)) => x \in LeftBehind(t)
    <3>1. CASE j.pc \in {"list", "cleanup"}
      <4>1. LeftBehind(t) = RundownsOf(j.from)
        BY <1>4, <3>1 DEF LeftBehind
      <4> QED BY <3>1, <4>1 DEF RundownsOf, StudioAway, Doomed, At
    <3>2. CASE j.pc \in {"lock", "leave"}
      <4>1. LeftBehind(t) = {}
        BY <1>4, <3>2 DEF LeftBehind
      <4> QED BY <3>2, <4>1 DEF StudioAway, Doomed, At
    <3>3. CASE j.pc \notin {"list", "cleanup", "lock", "leave"}
      <4>1. LeftBehind(t) = {j.r}
        BY <1>4, <3>3 DEF LeftBehind
      <4>2. j.r \in Rundowns
        BY <1>0, <1>1, <1>4, <3>3 DEF Jobs, MoveJob, ListJob, CleanupJob
      <4> QED BY <3>3, <4>1, <4>2 DEF StudioAway, Doomed, At
    <3> QED BY <3>1, <3>2, <3>3
  <2>3. \A x \in Rundowns : StaysHoused(x) /\ StaysSynced(x)
    BY <1>1, <1>4, <2>2 DEF StaysHoused, HousedAfter, StaysSynced, Lists, ListsAfter, Exists, Free
  <2>4. AllHoused' /\ MadeForUpdate' /\ RundownsSynced' /\ UpdateSynced'
    BY <1>1, <2>1, <2>3, StudioHouses
  <2>5. Orders' /\ MadeForMove' /\ WantedIsFair'
    BY <1>1, <2>1, NoMove DEF Locked
  <2>6. Marks' /\ OrderStep
    BY <1>1, <2>2, OrderSteps DEF HInv, Marks
  <2> QED BY <2>4, <2>5, <2>6 DEF HInv, HomeInv
<1> QED BY <1>3, <1>4 DEF Threads

(***************************************************************************)
(* The theorems.                                                           *)
(***************************************************************************)

(* The first state: the rundowns that the NRCS has sent, each in its       *)
(* playlist.                                                               *)
LEMMA InitHasHInv ==
  ASSUME Init
  PROVE  HInv
<1>1. PICK nrcs \in [Rundowns -> Playlists] :
        /\ rundown = [r \in Rundowns |-> [home |-> nrcs[r], manual |-> FALSE, nrcs |-> nrcs[r], orphaned |-> "no"]]
        /\ playlist = [p \in Ids |-> IF \E r \in Rundowns : nrcs[r] = p
                                     THEN [NewPlaylist EXCEPT !.order = Only(DefaultOrder, {r \in Rundowns : nrcs[r] = p})]
                                     ELSE None]
  BY DEF Init
<1>2. data = Rundowns /\ broken = {} /\ placed = [r \in Rundowns |-> None]
  BY DEF Init
<1>3. \A t \in Threads : job[t].pc = "idle"
  BY DEF Init, Idle
<1>4. ASSUME NEW p \in Ids, NEW r \in Rundowns, nrcs[r] = p
      PROVE  IsSound(playlist[p]) /\ Lists(p, r)
  <2> DEFINE S == {x \in Rundowns : nrcs[x] = p}
             o == Only(DefaultOrder, S)
  <2>1. playlist[p] = [NewPlaylist EXCEPT !.order = o]
    BY <1>1, <1>4
  <2>2. r \in S /\ S \subseteq Rundowns
    BY <1>4
  <2> HIDE DEF S
  <2>3. IsOrder(DefaultOrder) /\ ToSet(DefaultOrder) = Rundowns
    BY OrderAssumption DEF IsOrder
  <2>4. IsOrder(o) /\ ToSet(o) = Rundowns \cap S
    BY <2>3, OnlyIsOrder
  <2> HIDE DEF o
  <2>5. IsSound(playlist[p]) /\ playlist[p].order = o
    BY <2>1, <2>4, NewIsSound, SoundWithOrder
  <2> QED BY <2>2, <2>4, <2>5, SoundOrder DEF Lists
<1>5. Orders
  <2>1. \A p \in Ids : playlist[p] # None => \E r \in Rundowns : nrcs[r] = p
    BY <1>1
  <2> QED BY <1>3, <1>4, <2>1 DEF Orders, At, Threads
<1>6. Marks
  BY <1>2 DEF Marks
<1>7. AllHoused
  <2>1. ASSUME NEW r \in Rundowns PROVE Lists(rundown[r].home, r)
    <3>1. rundown[r].home = nrcs[r] /\ nrcs[r] \in Ids
      BY <1>1 DEF Ids
    <3> QED BY <1>4, <3>1
  <2> QED BY <2>1 DEF AllHoused
<1>8. MadeForUpdate /\ MadeForMove /\ RundownsSynced /\ UpdateSynced /\ WantedIsFair
  BY <1>2, <1>3 DEF MadeForUpdate, MadeForMove, RundownsSynced, UpdateSynced, WantedIsFair, At, Threads
<1> QED BY <1>5, <1>6, <1>7, <1>8 DEF HInv, HomeInv

(* The jobs that the studio thread starts. *)
LEMMA StudioStartsHouses ==
  ASSUME IInv, HInv, StudioStarts
  PROVE  HInv' /\ OrderStep
<1>1. ASSUME NEW r \in Rundowns, NEW into \in Ids \cup {None}, NEW w \in Wanted(r) \cup {<<r>>}, MoveRundown(r, into, w)
      PROVE  HInv' /\ OrderStep
  <2>1. w \in Seq(Rundowns)
    BY WantedIsSequence
  <2>2. IsInjective(w) /\ r \in ToSet(w)
    <3>1. CASE w \in Wanted(r)
      BY <3>1 DEF Wanted
    <3>2. CASE w = <<r>>
      BY <3>2 DEF IsInjective, ToSet
    <3> QED BY <3>1, <3>2
  <2> QED BY <1>1, <2>1, <2>2, MoveRundownHouses DEF IsOrder
<1> QED BY <1>1, RemovePlaylistHouses, RestoreOrderHouses, RemoveEmptyPlaylistHouses,
    PlayoutJobHouses DEF StudioStarts

(* Every step keeps the invariant, and the order that users have given.    *)
LEMMA NextHasHInv ==
  ASSUME IInv, HInv, Next
  PROVE  HInv' /\ OrderStep
<1>1. CASE IngestStarts
  BY <1>1, IngestStartsHouses
<1>2. CASE StudioStarts
  BY <1>2, StudioStartsHouses
<1>3. CASE IngestStep
  BY <1>3, LeaveOldPlaylistHouses, RegenerateInIngestHouses, RemoveFromDbHouses,
     AdoptIntoPlaylistHouses, SaveRundownHouses
     DEF IngestStep
<1>4. CASE StudioStep
  BY <1>4, LockMovedRundownHouses, MoveOutOfPlaylistHouses, RegenerateInMoveHouses, MoveIntoPlaylistHouses,
     OrderPlaylistHouses, InsertPlaylistHouses, SettleInPlaylistHouses, ListRundownsHouses, CleanupRundownHouses
     DEF StudioStep
<1>5. CASE \E t \in Threads : JobFails(t)
  BY <1>5, JobFailsHouses
<1> QED BY <1>1, <1>2, <1>3, <1>4, <1>5 DEF Next

(* A step that changes nothing. *)
LEMMA StutterHasHInv ==
  ASSUME HInv, UNCHANGED vars
  PROVE  HInv'
<1>1. /\ rundown' = rundown /\ playlist' = playlist /\ job' = job /\ data' = data
      /\ rundownLock' = rundownLock /\ broken' = broken /\ placed' = placed
  BY DEF vars, documents, locks, ghosts
<1>2. Orders' /\ Marks'
  BY <1>1 DEF HInv, Orders, Marks, IsSound, At
<1>3. AllHoused'
  BY <1>1 DEF HInv, HomeInv, AllHoused, Exists, Away, Doomed, Lists, At
<1>4. MadeForUpdate' /\ MadeForMove'
  BY <1>1 DEF HInv, HomeInv, MadeForUpdate, MadeForMove, Lists, Exists, At
<1>5. RundownsSynced' /\ UpdateSynced' /\ WantedIsFair'
  BY <1>1 DEF HInv, HomeInv, RundownsSynced, UpdateSynced, WantedIsFair, Exists, At
<1> QED BY <1>2, <1>3, <1>4, <1>5 DEF HInv, HomeInv

(* Both invariants hold, together. *)
LEMMA SpecHasHInv ==
  Spec => [](IInv /\ HInv)
<1>1. Init => IInv /\ HInv
  BY InitHasIInv, InitHasHInv
<1>2. IInv /\ HInv /\ [Next]_vars => IInv' /\ HInv'
  BY NextHasIInv, NextHasHInv, StutterHasHInv
<1> QED BY <1>1, <1>2, PTL DEF Spec

(* The documents of the database, its locks and the jobs are well-formed,  *)
(* and the order of a playlist names no rundown twice.                     *)
THEOREM TypeCorrect == Spec => []TypeOK
<1>1. IInv /\ HInv => TypeOK
  <2> SUFFICES ASSUME IInv, HInv PROVE TypeOK
    OBVIOUS
  <2>1. rundown \in [Rundowns -> RundownDoc \cup {None}] /\ DOMAIN playlist = Ids
    BY DEF IInv, Documents
  <2>2. \A r \in Rundowns : rundown[r] # None => rundown[r].home # None
    BY IdsAssumption DEF IInv, Documents, Exists, Ids
  <2>3. \A p \in Ids : playlist[p] # None => playlist[p] \in PlaylistDoc /\ IsInjective(playlist[p].order)
    BY DEF HInv, Orders, IsSound
  <2>4. /\ rundownLock \in [Rundowns -> Threads \cup {Free}] /\ playlistLock \in [Ids -> Threads \cup {Free}]
        /\ DOMAIN job = Threads
    BY DEF IInv, Control, RundownLocks, PlaylistLocks, Jobs
  <2>5. data \subseteq Rundowns /\ broken \subseteq Rundowns /\ placed \in [Rundowns -> Ids \cup {None}]
    BY DEF HInv, Marks
  <2> QED BY <2>1, <2>2, <2>3, <2>4, <2>5 DEF TypeOK
<1> QED BY <1>1, SpecHasHInv, PTL

(* A rundown that no job works on is listed by the playlist it belongs to, *)
(* however updates, moves and removals cross: none is lost between two     *)
(* playlists, unless a job on it has failed or its playlist is being       *)
(* removed.                                                                *)
THEOREM HousedHolds == Spec => []Housed
<1>1. IInv /\ HInv => Housed
  <2> SUFFICES ASSUME IInv, HInv, NEW r \in Rundowns, Unhoused(r)
               PROVE  r \in broken \/ BeingRemoved(rundown[r].home)
    BY DEF Housed
  <2>1. Exists(r) /\ rundownLock[r] = Free /\ ~Lists(rundown[r].home, r)
    BY DEF Unhoused, Lists
  <2>2. ~Away(r)
    BY <2>1, OneHolder DEF Away, HoldsRundown, Threads, Free
  <2>3. r \in broken \/ Doomed(r)
    BY <2>1, <2>2 DEF HInv, HomeInv, AllHoused
  <2> QED BY <2>3 DEF Doomed, BeingRemoved
<1> QED BY <1>1, SpecHasHInv, PTL

(* A rundown whose ingest data is gone is marked as orphaned, so that no   *)
(* later update makes it anew from nothing.                                *)
THEOREM SyncedHasDataHolds == Spec => []SyncedHasData
<1>1. HInv => SyncedHasData
  BY DEF HInv, HomeInv, RundownsSynced, SyncedHasData, Free
<1> QED BY <1>1, SpecHasHInv, PTL

(* The order that a user has given to a playlist survives every update,    *)
(* move and removal: the rundowns that stay are in the same order.         *)
THEOREM UserOrderStaysHolds == Spec => UserOrderStays
<1>1. IInv /\ HInv /\ [Next]_vars => [OrderStep]_vars
  BY NextHasHInv
<1> QED BY <1>1, SpecHasHInv, PTL DEF Spec, UserOrderStays, OrderStep
=============================================================================

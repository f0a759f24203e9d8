---------------------- MODULE JurisdictionVersionsProofs ----------------------
(***************************************************************************)
(* Proofs about the jurisdictions, for any number of them, of requests and *)
(* of versions, however they overlap: type correctness, that a reader is   *)
(* shown the latest version, that only a request which was overtaken       *)
(* rewrites history or brings a jurisdiction back, and that the version it *)
(* was created with is never lost.                                         *)
(***************************************************************************)
EXTENDS JurisdictionVersions, SequenceTheorems, WellFoundedInduction, TLAPS

(***************************************************************************)
(* Natural numbers: a set that is not empty has a least element.           *)
(***************************************************************************)
LEMMA LeastExists ==
  ASSUME NEW T, T \subseteq Nat, T # {}
  PROVE  \E x \in T : \A y \in T : x <= y
<1> DEFINE R == OpToRel(<, Nat)
<1>1. IsWellFoundedOn(R, Nat)
  BY NatLessThanWellFounded
<1>2. \A x, y \in Nat : <<x, y>> \in R <=> x < y
  BY DEF OpToRel
<1> HIDE DEF R
<1>3. PICK x \in T : \A y \in T : ~ (<<y, x>> \in R)
  BY <1>1, WFMin, Zenon
<1>4. \A y \in T : ~ (y < x)
  BY <1>2, <1>3
<1>5. \A y \in T : x <= y
  BY <1>4
<1> QED
  BY <1>5

LEMMA MinFacts ==
  ASSUME NEW T, T \subseteq Nat, T # {}
  PROVE  Min(T) \in T /\ \A y \in T : Min(T) <= y
  BY LeastExists DEF Min

(***************************************************************************)
(* Versions, the latest first.                                             *)
(***************************************************************************)
Ordered(versions) ==
  \A i, j \in DOMAIN versions : i < j => versions[j].at <= versions[i].at

LEMMA SeqFacts ==
  ASSUME NEW S, NEW s \in Seq(S)
  PROVE  /\ Len(s) \in Nat /\ DOMAIN s = 1 .. Len(s)
         /\ \A i \in 1 .. Len(s) : s[i] \in S
  OBVIOUS

LEMMA InsertAtFacts ==
  ASSUME NEW S, NEW s \in Seq(S), NEW e \in S, NEW i \in 1 .. Len(s) + 1
  PROVE  /\ InsertAt(s, i, e) \in Seq(S)
         /\ Len(InsertAt(s, i, e)) = Len(s) + 1
         /\ \A k \in 1 .. Len(s) + 1 :
              InsertAt(s, i, e)[k] = IF k < i THEN s[k] ELSE IF k = i THEN e ELSE s[k - 1]
<1> DEFINE before == SubSeq(s, 1, i - 1)
           after == SubSeq(s, i, Len(s))
<1>1. Len(s) \in Nat /\ i \in Nat
  OBVIOUS
<1>2. /\ before \in Seq(S) /\ Len(before) = i - 1
      /\ \A k \in 1 .. i - 1 : before[k] = s[k]
  OBVIOUS
<1>3. /\ after \in Seq(S) /\ Len(after) = Len(s) - i + 1
      /\ \A k \in 1 .. Len(s) - i + 1 : after[k] = s[i + k - 1]
  OBVIOUS
<1> HIDE DEF before, after
<1>4. /\ before \o <<e>> \in Seq(S) /\ Len(before \o <<e>>) = i
      /\ \A k \in 1 .. i - 1 : (before \o <<e>>)[k] = s[k]
      /\ (before \o <<e>>)[i] = e
  BY <1>1, <1>2
<1> DEFINE left == before \o <<e>>
<1> HIDE DEF left
<1>5. /\ left \in Seq(S) /\ Len(left) = i
      /\ \A k \in 1 .. i - 1 : left[k] = s[k]
      /\ left[i] = e
  BY <1>4 DEF left
<1>6. /\ left \o after \in Seq(S) /\ Len(left \o after) = Len(s) + 1
      /\ \A k \in 1 .. Len(s) + 1 :
           (left \o after)[k] = IF k <= i THEN left[k] ELSE after[k - i]
  <2>1. /\ left \o after \in Seq(S) /\ Len(left \o after) = Len(left) + Len(after)
        /\ \A k \in 1 .. Len(left) + Len(after) :
             (left \o after)[k] = IF k <= Len(left) THEN left[k] ELSE after[k - Len(left)]
    BY <1>3, <1>5, ConcatProperties
  <2>2. Len(left) + Len(after) = Len(s) + 1
    BY <1>1, <1>3, <1>5
  <2> QED
    BY <1>5, <2>1, <2>2
<1>7. InsertAt(s, i, e) = left \o after
  BY DEF InsertAt, left, before, after
<1>8. \A k \in 1 .. Len(s) + 1 :
        (left \o after)[k] = IF k < i THEN s[k] ELSE IF k = i THEN e ELSE s[k - 1]
  BY <1>1, <1>3, <1>5, <1>6
<1> QED
  BY <1>6, <1>7, <1>8

LEMMA VersionFacts ==
  ASSUME NEW v \in Version
  PROVE  /\ v.at \in Nat /\ v.at \in Times /\ v.name \in Names
         /\ v.geography \in Geographies \cup {None} /\ v # None /\ Times \subseteq Nat
  BY ConstantsOK DEF Version, Times

LEMMA PastFacts ==
  ASSUME NEW versions \in Seq(Version), NEW t
  PROVE  /\ Past(versions, t) \subseteq 1 .. Len(versions)
         /\ Past(versions, t) # {} =>
              /\ Min(Past(versions, t)) \in Past(versions, t)
              /\ \A k \in Past(versions, t) : Min(Past(versions, t)) <= k
<1>1. Past(versions, t) \subseteq 1 .. Len(versions)
  BY DEF Past
<1>2. Past(versions, t) \subseteq Nat
  BY <1>1
<1> QED
  BY <1>1, <1>2, MinFacts

(* Where the new version goes.                                             *)
LEMMA PlaceFacts ==
  ASSUME NEW v \in Version, NEW versions \in Seq(Version)
  PROVE  /\ Place(v, versions) \in 1 .. Len(versions) + 1
         /\ \A k \in 1 .. Len(versions) : k < Place(v, versions) => versions[k].at > v.at
         /\ Place(v, versions) <= Len(versions) => versions[Place(v, versions)].at <= v.at
<1> DEFINE T == Past(versions, v.at) \cup {Len(versions) + 1}
<1>1. DOMAIN versions = 1 .. Len(versions) /\ Len(versions) \in Nat /\ v.at \in Nat
      /\ \A k \in 1 .. Len(versions) : versions[k].at \in Nat
  BY SeqFacts, VersionFacts
<1>2. T \subseteq 1 .. Len(versions) + 1 /\ T \subseteq Nat /\ T # {}
  BY <1>1, PastFacts
<1>3. Min(T) \in T /\ \A k \in T : Min(T) <= k
  BY <1>2, MinFacts
<1>4. Place(v, versions) = Min(T)
  BY DEF Place
<1>5. ASSUME NEW k \in 1 .. Len(versions), k < Min(T) PROVE versions[k].at > v.at
  <2>1. k \notin T
    <3>1. \A x, y \in Nat : x < y => ~ (y <= x)
      OBVIOUS
    <3>2. k \in Nat /\ Min(T) \in Nat
      BY <1>2, <1>3
    <3> QED
      BY <1>3, <1>5, <3>1, <3>2, Zenon
  <2> QED
    BY <1>1, <2>1 DEF Past
<1>6. ASSUME Min(T) <= Len(versions) PROVE versions[Min(T)].at <= v.at
  <2>1. Min(T) \in Past(versions, v.at)
    BY <1>1, <1>3, <1>6
  <2> QED
    BY <2>1 DEF Past
<1> HIDE DEF T
<1> QED
  BY <1>2, <1>3, <1>4, <1>5, <1>6

(* The new version is put in its place.                                    *)
LEMMA SortedRows ==
  ASSUME NEW v \in Version, NEW versions \in Seq(Version)
  PROVE  /\ Sorted(v, versions) \in Seq(Version)
         /\ DOMAIN Sorted(v, versions) = 1 .. Len(versions) + 1
         /\ \A k \in 1 .. Len(versions) + 1 :
              Sorted(v, versions)[k] =
                IF k < Place(v, versions) THEN versions[k]
                ELSE IF k = Place(v, versions) THEN v ELSE versions[k - 1]
<1> DEFINE p == Place(v, versions)
<1>1. p \in 1 .. Len(versions) + 1
  BY PlaceFacts
<1> HIDE DEF p
<1>2. /\ InsertAt(versions, p, v) \in Seq(Version)
      /\ Len(InsertAt(versions, p, v)) = Len(versions) + 1
      /\ \A k \in 1 .. Len(versions) + 1 :
           InsertAt(versions, p, v)[k] =
             IF k < p THEN versions[k] ELSE IF k = p THEN v ELSE versions[k - 1]
  BY <1>1, InsertAtFacts
<1>3. DOMAIN InsertAt(versions, p, v) = 1 .. Len(versions) + 1
  BY <1>2, SeqFacts
<1> QED
  BY <1>2, <1>3 DEF Sorted, p

(* Sorting keeps the latest first.                                         *)
LEMMA SortedFacts ==
  ASSUME NEW v \in Version, NEW versions \in Seq(Version), Ordered(versions)
  PROVE  /\ Sorted(v, versions) \in Seq(Version)
         /\ Ordered(Sorted(v, versions))
<1> DEFINE n == Len(versions)
           p == Place(v, versions)
           s == Sorted(v, versions)
<1>1. /\ n \in Nat /\ p \in 1 .. n + 1 /\ p \in Nat /\ v.at \in Nat
      /\ \A k \in 1 .. n : versions[k].at \in Nat
  BY SeqFacts, VersionFacts, PlaceFacts
<1>2. /\ s \in Seq(Version) /\ DOMAIN s = 1 .. n + 1
      /\ \A k \in 1 .. n + 1 : s[k] = IF k < p THEN versions[k] ELSE IF k = p THEN v ELSE versions[k - 1]
  BY SortedRows
<1>3. /\ \A k \in 1 .. n : k < p => versions[k].at > v.at
      /\ p <= n => versions[p].at <= v.at
  BY PlaceFacts
<1>4. \A i, j \in 1 .. n : i <= j => versions[j].at <= versions[i].at
  BY <1>1, SeqFacts DEF Ordered
<1> HIDE DEF n, p, s
<1>5. ASSUME NEW i \in 1 .. n + 1, NEW j \in 1 .. n + 1, i < j
      PROVE  s[j].at <= s[i].at
  <2>1. CASE j < p
    BY <1>1, <1>2, <1>4, <1>5, <2>1
  <2>2. CASE j = p
    <3>1. i \in 1 .. n /\ i < p
      BY <1>1, <1>5, <2>2
    <3> QED
      BY <1>1, <1>2, <1>3, <2>2, <3>1
  <2>3. CASE j > p
    <3>1. j - 1 \in 1 .. n /\ j - 1 >= p /\ s[j] = versions[j - 1]
      BY <1>1, <1>2, <2>3
    <3>2. CASE i < p
      <4>1. i \in 1 .. n /\ i <= j - 1 /\ s[i] = versions[i]
        BY <1>1, <1>2, <1>5, <3>1, <3>2
      <4> QED
        BY <1>4, <3>1, <4>1
    <3>3. CASE i = p
      <4>1. p \in 1 .. n /\ versions[j - 1].at <= versions[p].at /\ versions[p].at <= v.at
        BY <1>1, <1>3, <1>4, <3>1
      <4> QED
        BY <1>1, <1>2, <3>1, <3>3, <4>1
    <3>4. CASE i > p
      <4>1. i - 1 \in 1 .. n /\ s[i] = versions[i - 1] /\ i - 1 <= j - 1
        BY <1>1, <1>2, <1>5, <3>4
      <4> QED
        BY <1>4, <3>1, <4>1
    <3> QED
      BY <1>1, <3>2, <3>3, <3>4
  <2> QED
    BY <1>1, <2>1, <2>2, <2>3
<1> QED
  BY <1>2, <1>5 DEF Ordered, s

(* What is shown of an array of versions.                                  *)
LEMMA FindFacts ==
  ASSUME NEW versions \in Seq(Version), NEW t, NEW i \in Past(versions, t),
         \A k \in Past(versions, t) : i <= k
  PROVE  Find(versions, t) = IF versions[i].geography = None THEN None ELSE versions[i]
<1>1. Min(Past(versions, t)) = i
  BY PastFacts
<1> QED
  BY <1>1 DEF Find

(* A new version changes nothing of what was in effect before it.          *)
LEMMA FindsEarlier ==
  ASSUME NEW v \in Version, NEW versions \in Seq(Version), NEW t \in Nat, t < v.at
  PROVE  Find(Sorted(v, versions), t) = Find(versions, t)
<1> DEFINE n == Len(versions)
           p == Place(v, versions)
           s == Sorted(v, versions)
<1>1. /\ n \in Nat /\ p \in 1 .. n + 1 /\ p \in Nat /\ v.at \in Nat /\ DOMAIN versions = 1 .. n
      /\ \A k \in 1 .. n : versions[k].at \in Nat
  BY SeqFacts, VersionFacts, PlaceFacts
<1>2. /\ s \in Seq(Version) /\ DOMAIN s = 1 .. n + 1
      /\ \A k \in 1 .. n + 1 : s[k] = IF k < p THEN versions[k] ELSE IF k = p THEN v ELSE versions[k - 1]
  BY SortedRows
<1>3. \A k \in 1 .. n : k < p => versions[k].at > v.at
  BY PlaceFacts
<1> HIDE DEF n, p, s
<1>4. ASSUME NEW k \in Past(versions, t) PROVE k \in p .. n /\ k + 1 \in Past(s, t) /\ s[k + 1] = versions[k]
  <2>1. k \in 1 .. n /\ versions[k].at <= t
    BY <1>1 DEF Past
  <2>2. ~ (k < p)
    BY <1>1, <1>3, <2>1
  <2>3. s[k + 1] = versions[k]
    BY <1>1, <1>2, <2>1, <2>2
  <2> QED
    BY <1>1, <1>2, <2>1, <2>2, <2>3 DEF Past
<1>5. ASSUME NEW k \in Past(s, t) PROVE k - 1 \in Past(versions, t) /\ k \in Nat
  <2>1. k \in 1 .. n + 1 /\ s[k].at <= t
    BY <1>2 DEF Past
  <2>2. ~ (k < p)
    <3>1. SUFFICES ASSUME k < p PROVE FALSE
      OBVIOUS
    <3>2. k \in 1 .. n /\ s[k] = versions[k] /\ versions[k].at > v.at
      BY <1>1, <1>2, <1>3, <2>1, <3>1
    <3> QED
      BY <1>1, <2>1, <3>2
  <2>3. k # p
    BY <1>1, <1>2, <2>1
  <2>4. k - 1 \in 1 .. n /\ s[k] = versions[k - 1]
    BY <1>1, <1>2, <2>1, <2>2, <2>3
  <2> QED
    BY <1>1, <2>1, <2>4 DEF Past
<1>6. CASE Past(versions, t) = {}
  <2>1. Past(s, t) = {}
    BY <1>5, <1>6
  <2> QED
    BY <1>6, <2>1 DEF Find, s
<1>7. CASE Past(versions, t) # {}
  <2>1. PICK i \in Past(versions, t) : \A k \in Past(versions, t) : i <= k
    BY <1>7, PastFacts
  <2>2. i + 1 \in Past(s, t) /\ s[i + 1] = versions[i] /\ i \in Nat
    BY <1>1, <1>4, <2>1
  <2>3. \A k \in Past(s, t) : i + 1 <= k
    BY <1>5, <2>1, <2>2
  <2>4. Find(versions, t) = IF versions[i].geography = None THEN None ELSE versions[i]
    BY <2>1, FindFacts
  <2>5. Find(s, t) = IF s[i + 1].geography = None THEN None ELSE s[i + 1]
    BY <1>2, <2>2, <2>3, FindFacts
  <2> QED
    BY <2>2, <2>4, <2>5 DEF s
<1> QED
  BY <1>6, <1>7

LEMMA FindIsVersion ==
  ASSUME NEW versions \in Seq(Version), NEW t, Find(versions, t) # None
  PROVE  /\ Find(versions, t) \in Version /\ Find(versions, t).at <= t
         /\ Find(versions, t).geography # None
         /\ \E i \in 1 .. Len(versions) : versions[i] = Find(versions, t)
<1>1. Past(versions, t) # {}
  BY DEF Find
<1>2. PICK i \in Past(versions, t) : \A k \in Past(versions, t) : i <= k
  BY <1>1, PastFacts
<1>3. Find(versions, t) = versions[i] /\ versions[i].geography # None
  BY <1>2, FindFacts
<1>4. i \in 1 .. Len(versions) /\ versions[i].at <= t
  BY SeqFacts DEF Past
<1> QED
  BY <1>3, <1>4, SeqFacts

(* A version that is not before some other never becomes the earliest.     *)
LEMMA SortedLast ==
  ASSUME NEW v \in Version, NEW versions \in Seq(Version),
         NEW i \in 1 .. Len(versions), versions[i].at <= v.at
  PROVE  Last(Sorted(v, versions)) = Last(versions)
<1> DEFINE n == Len(versions)
           p == Place(v, versions)
           s == Sorted(v, versions)
<1>1. /\ n \in Nat /\ p \in 1 .. n + 1 /\ p \in Nat /\ v.at \in Nat
      /\ \A k \in 1 .. n : versions[k].at \in Nat
  BY SeqFacts, VersionFacts, PlaceFacts
<1>2. /\ s \in Seq(Version) /\ DOMAIN s = 1 .. n + 1
      /\ \A k \in 1 .. n + 1 : s[k] = IF k < p THEN versions[k] ELSE IF k = p THEN v ELSE versions[k - 1]
  BY SortedRows
<1>3. \A k \in 1 .. n : k < p => versions[k].at > v.at
  BY PlaceFacts
<1> HIDE DEF p, s
<1>4. p <= i
  <2>1. ~ (versions[i].at > v.at)
    BY <1>1
  <2> QED
    BY <1>1, <1>3, <2>1
<1>5. Len(s) = n + 1
  BY <1>1, <1>2, SeqFacts
<1>6. n + 1 \in 1 .. n + 1 /\ ~ (n + 1 < p) /\ n + 1 # p /\ (n + 1) - 1 = n
  BY <1>1, <1>4
<1>7. s[n + 1] = versions[n]
  BY <1>2, <1>6
<1> QED
  BY <1>5, <1>7 DEF Last, s
-----------------------------------------------------------------------------
(***************************************************************************)
(* The invariant.  Versions make sense if the latest comes first and none  *)
(* of them is a deletion in the future: a deletion is as of the time of    *)
(* its reading.  So do the versions of every row that is stored, and of a  *)
(* request between its two statements those of the row it read and of the  *)
(* one it will write, which has at most one more.  Versions of the future  *)
(* may have come into effect since it read, but not a deletion: what it    *)
(* read shows something of every time since the version it found.  And     *)
(* whether that row was replaced or not, the one it will write has the     *)
(* earliest version of what is stored.                                     *)
(***************************************************************************)
Sound(versions, t) ==
  /\ versions # <<>> /\ Ordered(versions)
  /\ \A i \in DOMAIN versions : versions[i].geography = None => versions[i].at <= t

Extends(versions, old, from) ==
  \/ versions = old
  \/ \E v \in Version : from <= v.at /\ versions = Sorted(v, old)

RowsSound == \A j \in Known : Sound(rows[j].versions, now)

Preparation(r) ==
  LET w == writing[r] IN
  /\ w # None /\ w.id \in Known
  /\ Sound(w.row.versions, now) /\ Sound(w.read.versions, now)
  /\ \A t \in Times : w.current.at <= t => Find(w.read.versions, t) # None
  /\ Extends(w.row.versions, w.read.versions, w.current.at)
  /\ Last(w.row.versions) = Last(rows[w.id].versions)

IInv ==
  /\ TypeOK /\ RowsSound
  /\ \A r \in Requests : pc[r] = "write" => Preparation(r)

(* A later clock finds the versions sound as well.                         *)
LEMMA SoundLater ==
  ASSUME NEW versions \in Seq(Version), NEW t \in Nat, Sound(versions, t)
  PROVE  Sound(versions, t + 1)
<1>1. ASSUME NEW i \in DOMAIN versions, versions[i].at <= t PROVE versions[i].at <= t + 1
  <2>1. versions[i].at \in Nat
    BY SeqFacts, VersionFacts
  <2> QED
    BY <1>1, <2>1
<1> QED
  BY <1>1 DEF Sound

(* Since the version in effect something is shown: a deletion would be it. *)
LEMMA FindsSince ==
  ASSUME NEW versions \in Seq(Version), NEW now0 \in Nat, Sound(versions, now0),
         Find(versions, now0) # None,
         NEW t \in Nat, Find(versions, now0).at <= t
  PROVE  Find(versions, t) # None
<1>1. /\ DOMAIN versions = 1 .. Len(versions) /\ Len(versions) \in Nat
      /\ \A k \in 1 .. Len(versions) : versions[k].at \in Nat /\ versions[k] # None
  BY SeqFacts, VersionFacts
<1>2. PICK i \in Past(versions, now0) : \A k \in Past(versions, now0) : i <= k
  <2>1. Past(versions, now0) # {}
    BY DEF Find
  <2> QED
    BY <2>1, PastFacts
<1>3. versions[i].geography # None /\ i \in 1 .. Len(versions) /\ versions[i].at <= t
  BY <1>1, <1>2, FindFacts DEF Past
<1>4. i \in Past(versions, t)
  BY <1>1, <1>3 DEF Past
<1>5. PICK k \in Past(versions, t) : \A m \in Past(versions, t) : k <= m
  BY <1>4, PastFacts
<1>6. k \in 1 .. Len(versions)
  BY <1>1 DEF Past
<1>7. versions[k].geography # None
  <2>1. CASE k \in Past(versions, now0)
    <3>1. k = i
      BY <1>2, <1>3, <1>4, <1>5, <1>6, <2>1
    <3> QED
      BY <1>3, <3>1
  <2>2. CASE k \notin Past(versions, now0)
    BY <1>1, <1>6, <2>2 DEF Past, Sound
  <2> QED
    BY <2>1, <2>2
<1> QED
  BY <1>1, <1>5, <1>6, <1>7, FindFacts

(* Putting a version in its place keeps the versions sound.                *)
LEMMA SortedSound ==
  ASSUME NEW v \in Version, NEW versions \in Seq(Version), NEW t,
         Sound(versions, t), v.geography = None => v.at <= t
  PROVE  /\ Sorted(v, versions) \in Seq(Version)
         /\ Sound(Sorted(v, versions), t)
<1> DEFINE n == Len(versions)
           p == Place(v, versions)
           s == Sorted(v, versions)
<1>1. /\ n \in Nat /\ p \in 1 .. n + 1 /\ p \in Nat /\ DOMAIN versions = 1 .. n
  BY SeqFacts, PlaceFacts
<1>2. /\ s \in Seq(Version) /\ DOMAIN s = 1 .. n + 1
      /\ \A k \in 1 .. n + 1 : s[k] = IF k < p THEN versions[k] ELSE IF k = p THEN v ELSE versions[k - 1]
  BY SortedRows
<1>3. Ordered(s)
  BY SortedFacts DEF Sound
<1> HIDE DEF p, s
<1>4. s # <<>>
  BY <1>1, <1>2
<1>5. ASSUME NEW k \in 1 .. n + 1 PROVE s[k] = v \/ \E i \in 1 .. n : s[k] = versions[i]
  <2>1. CASE k < p
    BY <1>1, <1>2, <2>1
  <2>2. CASE k = p
    BY <1>2, <2>2
  <2>3. CASE k > p
    <3>1. k - 1 \in 1 .. n /\ s[k] = versions[k - 1]
      BY <1>1, <1>2, <2>3
    <3> QED
      BY <3>1
  <2> QED
    BY <1>1, <2>1, <2>2, <2>3
<1>6. \A k \in DOMAIN s : s[k].geography = None => s[k].at <= t
  BY <1>1, <1>2, <1>5 DEF Sound
<1> QED
  BY <1>2, <1>3, <1>4, <1>6 DEF Sound, s

LEMMA RowFacts ==
  ASSUME IInv, NEW j \in Known
  PROVE  /\ j \in Jurisdictions /\ rows[j] \in Row /\ rows[j].key \in Keys
         /\ rows[j].versions \in Seq(Version) /\ Sound(rows[j].versions, now)
         /\ now \in Nat
<1>1. j \in Jurisdictions /\ rows[j] \in Row /\ now \in Nat
  BY ConstantsOK DEF IInv, TypeOK, Known, Times
<1> QED
  BY <1>1 DEF IInv, RowsSound, Row

LEMMA CurrentFacts ==
  ASSUME IInv, NEW j, NEW t, Read(j, t) # None
  PROVE  /\ j \in Known /\ Read(j, t) = Find(rows[j].versions, t)
         /\ Read(j, t) \in Version /\ Read(j, t).at <= t
         /\ Read(j, t).geography # None
         /\ \E i \in 1 .. Len(rows[j].versions) : rows[j].versions[i] = Read(j, t)
<1>1. j \in Known /\ Read(j, t) = Find(rows[j].versions, t)
  BY DEF Read
<1> QED
  BY <1>1, RowFacts, FindIsVersion

(***************************************************************************)
(* What an update and a deletion do: they answer, or they prepare a row    *)
(* that has the versions of the stored one, and perhaps one more that is   *)
(* not before the version in effect.                                       *)
(***************************************************************************)
PreparesFrom(j, current, versions) ==
  /\ current = Read(j, now) /\ current # None
  /\ Sound(versions, now)
  /\ Extends(versions, rows[j].versions, current.at)
  /\ Last(versions) = Last(rows[j].versions)

Prepares(r) ==
  /\ UNCHANGED <<rows, now>>
  /\ \/ \E a \in {"conflict", "notFound", "invalid"} : Answers(r, a) /\ writing' = writing
     \/ \E j \in Known, current \in Version, key \in Keys, versions \in Seq(Version) :
          PreparesFrom(j, current, versions) /\ WillWrite(r, j, current, key, versions)

LEMMA NewVersion ==
  ASSUME IInv, NEW j, NEW v \in Version, Read(j, now) # None,
         Read(j, now).at <= v.at, v.geography = None => v.at <= now
  PROVE  /\ Sorted(v, rows[j].versions) \in Seq(Version)
         /\ PreparesFrom(j, Read(j, now), Sorted(v, rows[j].versions))
<1>1. j \in Known /\ rows[j].versions \in Seq(Version) /\ Sound(rows[j].versions, now)
  BY CurrentFacts, RowFacts
<1>2. PICK i \in 1 .. Len(rows[j].versions) : rows[j].versions[i] = Read(j, now)
  BY CurrentFacts
<1>3. Last(Sorted(v, rows[j].versions)) = Last(rows[j].versions)
  BY <1>1, <1>2, SortedLast
<1>4. /\ Sorted(v, rows[j].versions) \in Seq(Version)
      /\ Sound(Sorted(v, rows[j].versions), now)
  BY <1>1, SortedSound
<1> QED
  BY <1>3, <1>4 DEF PreparesFrom, Extends

LEMMA SameVersions ==
  ASSUME IInv, NEW j, Read(j, now) # None
  PROVE  /\ rows[j].versions \in Seq(Version)
         /\ PreparesFrom(j, Read(j, now), rows[j].versions)
  BY CurrentFacts, RowFacts DEF PreparesFrom, Extends

LEMMA UpdatePrepares ==
  ASSUME IInv, NEW r \in Requests, Update(r)
  PROVE  Prepares(r)
<1>1. PICK j \in Jurisdictions, p \in Patches :
        LET current == Read(j, now) IN
        IF p.id \notin {None, j} THEN Refuses(r, "conflict")
        ELSE IF current = None THEN Refuses(r, "notFound")
        ELSE IF Given(p.at, now) <= current.at THEN Refuses(r, "invalid")
        ELSE WillWrite(r, j, current, Given(p.key, rows[j].key),
               IF Changes(p, current) THEN Sorted(Updated(p, current), rows[j].versions)
               ELSE rows[j].versions)
  BY DEF Update
<1> DEFINE current == Read(j, now)
           v == Updated(p, current)
           versions == IF Changes(p, current) THEN Sorted(v, rows[j].versions) ELSE rows[j].versions
           refused == p.id \notin {None, j} \/ current = None \/ Given(p.at, now) <= current.at
<1>2. UNCHANGED <<rows, now>>
  BY DEF Update
<1>3. CASE refused
  BY <1>1, <1>2, <1>3 DEF Prepares, Refuses
<1>4. CASE ~ refused
  <2>1. /\ j \in Known /\ current \in Version /\ current.geography # None /\ current # None
        /\ WillWrite(r, j, current, Given(p.key, rows[j].key), versions)
    BY <1>1, <1>4, CurrentFacts
  <2>2. rows[j].key \in Keys
    BY <2>1, RowFacts
  <2>3. p \in Patch /\ now \in Times
    BY ConstantsOK DEF IInv, TypeOK
  <2>4. /\ p.key \in Keys \cup {None} /\ p.name \in Names \cup {None}
        /\ p.geography \in Geographies \cup {None} /\ p.at \in Times \cup {None}
    BY <2>3 DEF Patch
  <2>5. Given(p.key, rows[j].key) \in Keys /\ Given(p.at, now) \in Times
    BY <2>2, <2>3, <2>4 DEF Given
  <2>6. v \in Version /\ v.at = Given(p.at, now) /\ v.geography # None
    <3>1. current.name \in Names /\ current.geography \in Geographies \cup {None}
          /\ current.geography # None
      BY <2>1, VersionFacts
    <3> HIDE DEF current
    <3> QED
      BY <2>4, <2>5, <3>1 DEF Updated, Version, Given
  <2>7. current.at <= v.at
    <3>1. current.at \in Nat /\ v.at \in Nat
      BY <2>1, <2>6, VersionFacts
    <3> HIDE DEF current, v
    <3> QED
      BY <1>4, <2>6, <3>1
  <2> HIDE DEF v
  <2>8. versions \in Seq(Version) /\ PreparesFrom(j, current, versions)
    BY <2>1, <2>6, <2>7, NewVersion, SameVersions
  <2> HIDE DEF versions, current
  <2> QED
    BY <1>2, <2>1, <2>5, <2>8 DEF Prepares
<1> QED
  BY <1>3, <1>4

LEMMA DeletePrepares ==
  ASSUME IInv, NEW r \in Requests, Delete(r)
  PROVE  Prepares(r)
<1> DEFINE current(j) == Read(j, now)
           v(j) == [at |-> now, name |-> current(j).name, geography |-> None]
           versions(j) == Sorted(v(j), rows[j].versions)
<1>1. PICK j \in Jurisdictions :
        IF current(j) = None THEN Refuses(r, "notFound")
        ELSE WillWrite(r, j, current(j), rows[j].key, versions(j))
  BY DEF Delete
<1>2. UNCHANGED <<rows, now>>
  BY DEF Delete
<1>3. CASE current(j) = None
  BY <1>1, <1>2, <1>3 DEF Prepares, Refuses
<1>4. CASE current(j) # None
  <2>1. j \in Known /\ current(j) \in Version /\ current(j).at <= now
    BY <1>4, CurrentFacts
  <2>2. rows[j].key \in Keys
    BY <2>1, RowFacts
  <2>3. now \in Times /\ current(j).name \in Names /\ now \in Nat
    BY <2>1, VersionFacts DEF IInv, TypeOK
  <2>4. v(j) \in Version /\ v(j).at = now
    BY <2>3 DEF Version
  <2> HIDE DEF v
  <2>5. versions(j) \in Seq(Version) /\ PreparesFrom(j, current(j), versions(j))
    <3>1. Read(j, now) # None /\ Read(j, now).at <= v(j).at /\ v(j).at <= now
      BY <1>4, <2>1, <2>3, <2>4
    <3> QED
      BY <2>4, <3>1, NewVersion
  <2> HIDE DEF versions
  <2> QED
    BY <1>1, <1>2, <1>4, <2>1, <2>2, <2>5 DEF Prepares
<1> QED
  BY <1>3, <1>4
-----------------------------------------------------------------------------
LEMMA InitIInv == Init => IInv
  BY ConstantsOK DEF Init, IInv, TypeOK, RowsSound, Known, Times

LEMMA FirstFacts ==
  ASSUME IInv, NEW b \in Body
  PROVE  First(b) \in Row /\ Sound(First(b).versions, now)
<1> DEFINE v == [at |-> Given(b.at, now), name |-> b.name, geography |-> b.geography]
<1>1. v \in Version /\ b.key \in Keys /\ v.geography # None
  BY ConstantsOK DEF Body, Version, Given, IInv, TypeOK
<1> HIDE DEF v
<1>2. <<v>> \in Seq(Version) /\ DOMAIN <<v>> = {1} /\ <<v>> # <<>> /\ <<v>>[1] = v
  BY <1>1
<1>3. First(b) = [key |-> b.key, versions |-> <<v>>]
  BY DEF First, v
<1> QED
  BY <1>1, <1>2, <1>3 DEF Row, Ordered, Sound

(* A creation leaves alone what is there.                                  *)
LEMMA CreateFacts ==
  ASSUME IInv, NEW r \in Requests, Create(r)
  PROVE  /\ rows' \in [Jurisdictions -> Row \cup {None}]
         /\ \A j \in Known : j \in Known' /\ rows'[j] = rows[j]
         /\ \A j \in Known' : Sound(rows'[j].versions, now)
         /\ UNCHANGED <<now, writing>> /\ pc[r] = "idle"
         /\ Answers(r, "ok") \/ Answers(r, "conflict")
<1>1. PICK bodies \in Creations :
        IF ~Insertable(bodies) THEN Answers(r, "conflict") /\ rows' = rows
        ELSE /\ rows' = [j \in Jurisdictions |->
                  IF \E b \in bodies : b.id = j
                  THEN First(CHOOSE b \in bodies : b.id = j)
                  ELSE rows[j]]
             /\ Answers(r, "ok")
  BY DEF Create
<1>2. UNCHANGED <<now, writing>> /\ pc[r] = "idle"
  BY DEF Create, Starts
<1>3. CASE ~Insertable(bodies)
  BY <1>1, <1>2, <1>3 DEF IInv, TypeOK, RowsSound, Known
<1>4. CASE Insertable(bodies)
  <2>1. \A j \in Jurisdictions :
          \/ rows'[j] = rows[j]
          \/ j \notin Known /\ rows'[j] \in Row /\ Sound(rows'[j].versions, now)
    <3>1. TAKE j \in Jurisdictions
    <3>2. CASE \E b \in bodies : b.id = j
      <4>1. PICK c \in bodies : c.id = j /\ rows'[j] = First(c)
        <5>1. (CHOOSE b \in bodies : b.id = j) \in bodies /\ (CHOOSE b \in bodies : b.id = j).id = j
          BY <3>2
        <5> QED
          BY <1>1, <1>4, <3>2, <5>1
      <4>2. c \in Body
        BY ConstantsOK
      <4> QED
        BY <1>4, <4>1, <4>2, FirstFacts DEF Insertable
    <3>3. CASE ~ \E b \in bodies : b.id = j
      BY <1>1, <1>4, <3>3
    <3> QED
      BY <3>2, <3>3
  <2>2. rows' = [j \in Jurisdictions |-> rows'[j]]
    BY <1>1, <1>4
  <2> QED
    BY <1>1, <1>2, <1>4, <2>1, <2>2 DEF IInv, TypeOK, RowsSound, Known
<1> QED
  BY <1>3, <1>4

(* The UPDATE changes one row, to the one that was prepared.               *)
LEMMA WriteFacts ==
  ASSUME IInv, NEW r \in Requests, Write(r)
  PROVE  /\ pc[r] = "write" /\ pc'[r] = "done"
         /\ writing[r] \in Prepared /\ Preparation(r)
         /\ rows' \in {rows, [rows EXCEPT ![writing[r].id] = writing[r].row]}
         /\ now' = now /\ writing' = [writing EXCEPT ![r] = None]
         /\ Answers(r, "ok") \/ Answers(r, "conflict")
<1>1. pc[r] = "write" /\ Preparation(r)
  BY DEF Write, IInv
<1>2. writing[r] \in Prepared
  BY <1>1 DEF IInv, TypeOK, Preparation
<1>3. Answers(r, "ok") \/ Answers(r, "conflict")
  BY DEF Write
<1>4. pc'[r] = "done"
  BY <1>3 DEF Answers, IInv, TypeOK
<1> QED
  BY <1>1, <1>2, <1>3, <1>4 DEF Write

(* What a request has prepared stays so while it is left alone and the     *)
(* rows keep their earliest versions.                                      *)
LEMMA PreparationKept ==
  ASSUME NEW r \in Requests, Preparation(r), writing'[r] = writing[r], now' = now,
         \A j \in Known : j \in Known' /\ Last(rows'[j].versions) = Last(rows[j].versions)
  PROVE  Preparation(r)'
  BY DEF Preparation

LEMMA NextIInv == IInv /\ [Next]_vars => IInv'
<1> SUFFICES ASSUME IInv, [Next]_vars PROVE IInv'
  OBVIOUS
<1>1. TypeOK /\ RowsSound /\ \A r \in Requests : pc[r] = "write" => Preparation(r)
  BY DEF IInv
<1>2. CASE UNCHANGED vars
  BY <1>1, <1>2 DEF vars, IInv, TypeOK, RowsSound, Preparation, Known
<1>3. CASE Tick
  <2>1. /\ now' = now + 1 /\ now \in Nat /\ Known' = Known
        /\ UNCHANGED <<rows, pc, answer, writing>>
    BY <1>1, <1>3, ConstantsOK DEF Tick, TypeOK, Times, Known
  <2>2. TypeOK'
    BY <1>1, <1>3, <2>1, ConstantsOK DEF Tick, TypeOK, Times
  <2>3. RowsSound'
    BY <2>1, RowFacts, SoundLater DEF RowsSound
  <2>4. ASSUME NEW r \in Requests, pc'[r] = "write" PROVE Preparation(r)'
    <3>1. Preparation(r) /\ writing[r] \in Prepared /\ writing'[r] = writing[r]
      BY <1>1, <2>1, <2>4 DEF TypeOK, Preparation
    <3>2. writing[r].row.versions \in Seq(Version) /\ writing[r].read.versions \in Seq(Version)
      BY <3>1 DEF Prepared, Row
    <3>3. Sound(writing[r].row.versions, now') /\ Sound(writing[r].read.versions, now')
      BY <2>1, <3>1, <3>2, SoundLater DEF Preparation
    <3> QED
      BY <2>1, <3>1, <3>3 DEF Preparation
  <2> QED
    BY <2>2, <2>3, <2>4 DEF IInv
<1>4. ASSUME NEW r \in Requests, Create(r) PROVE IInv'
  <2>1. TypeOK'
    BY <1>1, <1>4, CreateFacts DEF Answers, TypeOK
  <2>2. RowsSound'
    BY <1>4, CreateFacts DEF RowsSound
  <2>3. ASSUME NEW q \in Requests, pc'[q] = "write" PROVE Preparation(q)'
    <3>1. pc[q] = "write"
      BY <1>1, <1>4, <2>3, CreateFacts DEF Answers, TypeOK
    <3> QED
      BY <1>1, <1>4, <3>1, CreateFacts, PreparationKept
  <2> QED
    BY <2>1, <2>2, <2>3 DEF IInv
<1>5. ASSUME NEW r \in Requests, Prepares(r) PROVE IInv'
  <2>1. UNCHANGED <<rows, now>> /\ Known' = Known
    BY <1>5 DEF Prepares, Known
  <2>2. RowsSound'
    BY <1>1, <2>1 DEF RowsSound
  <2>3. ASSUME NEW q \in Requests, pc[q] = "write", writing'[q] = writing[q]
        PROVE  Preparation(q)'
    BY <1>1, <2>1, <2>3, PreparationKept
  <2>4. CASE \E a \in {"conflict", "notFound", "invalid"} : Answers(r, a) /\ writing' = writing
    <3>1. TypeOK'
      BY <1>1, <2>1, <2>4 DEF Answers, TypeOK
    <3>2. \A q \in Requests : pc'[q] = "write" => pc[q] = "write"
      BY <1>1, <2>4 DEF Answers, TypeOK
    <3> QED
      BY <2>2, <2>3, <2>4, <3>1, <3>2 DEF IInv
  <2>5. CASE \E j \in Known, current \in Version, key \in Keys, versions \in Seq(Version) :
               PreparesFrom(j, current, versions) /\ WillWrite(r, j, current, key, versions)
    <3>1. PICK j \in Known, current \in Version, key \in Keys, versions \in Seq(Version) :
                 PreparesFrom(j, current, versions) /\ WillWrite(r, j, current, key, versions)
      BY <2>5
    <3> DEFINE w == [id |-> j, read |-> rows[j], current |-> current,
                     row |-> [key |-> key, versions |-> versions]]
    <3>2. rows[j] \in Row /\ j \in Jurisdictions /\ Sound(rows[j].versions, now)
      BY RowFacts
    <3>3. w \in Prepared /\ w.row.versions = versions /\ w.read = rows[j] /\ w.id = j
          /\ w.current = current
      BY <3>2 DEF Row, Prepared
    <3>4. /\ writing' = [writing EXCEPT ![r] = w] /\ pc' = [pc EXCEPT ![r] = "write"]
          /\ answer' = answer
      BY <3>1 DEF WillWrite
    <3>5. w # None
      BY <3>3, ConstantsOK
    <3> HIDE DEF w
    <3>6. TypeOK'
      BY <1>1, <2>1, <3>3, <3>4 DEF TypeOK
    <3>7. \A t \in Times : current.at <= t => Find(rows[j].versions, t) # None
      <4>1. Find(rows[j].versions, now) = current /\ current # None
        BY <3>1 DEF PreparesFrom, Read
      <4>2. rows[j].versions \in Seq(Version) /\ now \in Nat /\ Times \subseteq Nat
        BY RowFacts DEF Times
      <4> QED
        BY <3>2, <4>1, <4>2, FindsSince
    <3>8. writing'[r] = w
      BY <1>1, <3>4 DEF TypeOK
    <3>9. Preparation(r)'
      BY <2>1, <3>1, <3>2, <3>3, <3>5, <3>7, <3>8 DEF Preparation, PreparesFrom
    <3>10. ASSUME NEW q \in Requests, q # r, pc'[q] = "write" PROVE Preparation(q)'
      <4>1. pc[q] = "write" /\ writing'[q] = writing[q]
        BY <1>1, <3>4, <3>10 DEF TypeOK
      <4> QED
        BY <2>3, <4>1
    <3> QED
      BY <2>2, <3>6, <3>9, <3>10 DEF IInv
  <2> QED
    BY <1>5, <2>4, <2>5 DEF Prepares
<1>6. ASSUME NEW r \in Requests, Write(r) PROVE IInv'
  <2> DEFINE w == writing[r]
  <2>1. /\ w \in Prepared /\ Preparation(r) /\ now' = now
        /\ rows' \in {rows, [rows EXCEPT ![w.id] = w.row]}
        /\ writing' = [writing EXCEPT ![r] = None]
        /\ pc' = [pc EXCEPT ![r] = "done"]
    BY <1>6, WriteFacts DEF Answers
  <2>2. /\ w.id \in Known /\ w.id \in Jurisdictions /\ w.row \in Row /\ w.row # None
        /\ Sound(w.row.versions, now)
        /\ Last(w.row.versions) = Last(rows[w.id].versions)
    BY <2>1, ConstantsOK DEF Prepared, Preparation
  <2> HIDE DEF w
  <2>3. TypeOK'
    BY <1>1, <1>6, <2>1, <2>2, WriteFacts DEF TypeOK, Answers
  <2>4. \A j \in Known : j \in Known' /\ Last(rows'[j].versions) = Last(rows[j].versions)
    BY <1>1, <2>1, <2>2 DEF TypeOK, Known
  <2>5. RowsSound'
    BY <1>1, <2>1, <2>2 DEF TypeOK, RowsSound, Known
  <2>6. ASSUME NEW q \in Requests, pc'[q] = "write" PROVE Preparation(q)'
    <3>1. pc[q] = "write" /\ writing'[q] = writing[q]
      BY <1>1, <2>1, <2>6 DEF TypeOK
    <3> QED
      BY <1>1, <2>1, <2>4, <3>1, PreparationKept
  <2> QED
    BY <2>3, <2>5, <2>6 DEF IInv
<1> QED
  BY <1>2, <1>3, <1>4, <1>5, <1>6, UpdatePrepares, DeletePrepares DEF Next, Serve

(***************************************************************************)
(* Every row that is stored, and all that an update or a deletion has read *)
(* and prepared, is a key and versions that make sense.                    *)
(***************************************************************************)
LEMMA IInvAlways == Spec => []IInv
  BY InitIInv, NextIInv, PTL DEF Spec

THEOREM TypeCorrect == Spec => []TypeOK
<1>1. IInv => TypeOK
  BY DEF IInv
<1> QED
  BY <1>1, IInvAlways, PTL

(***************************************************************************)
(* A reader is shown the version with the highest timestamp that is not    *)
(* after the time it asks for, however updates and deletions overlap: the  *)
(* array that an update writes was sorted, even when what it overwrites is *)
(* no longer what it read.                                                 *)
(***************************************************************************)
LEMMA LatestIsFound == IInv => FindsLatest
<1> SUFFICES ASSUME IInv, NEW j \in Known, NEW t \in Times
             PROVE  LET versions == rows[j].versions
                        past == Past(versions, t)
                        latest == {versions[i] : i \in {i \in past : \A k \in past : versions[k].at <= versions[i].at}}
                    IN IF Read(j, t) # None THEN Read(j, t) \in latest
                       ELSE latest = {} \/ \E v \in latest : v.geography = None
  BY DEF FindsLatest
<1> DEFINE versions == rows[j].versions
           past == Past(versions, t)
           latest == {versions[i] : i \in {i \in past : \A k \in past : versions[k].at <= versions[i].at}}
<1>1. versions \in Seq(Version) /\ Ordered(versions) /\ Read(j, t) = Find(versions, t)
  BY RowFacts DEF Read, Sound
<1> SUFFICES IF Find(versions, t) # None THEN Find(versions, t) \in latest
             ELSE latest = {} \/ \E v \in latest : v.geography = None
  BY <1>1
<1> HIDE DEF versions
<1>2. CASE past = {}
  <2>1. latest = {} /\ Find(versions, t) = None
    BY <1>2 DEF Find
  <2> QED
    BY <2>1
<1>3. CASE past # {}
  <2>1. PICK i \in past : \A k \in past : i <= k
    BY <1>1, <1>3, PastFacts
  <2>2. past \subseteq DOMAIN versions /\ DOMAIN versions \subseteq Nat
    BY <1>1, SeqFacts DEF Past
  <2>3. \A k \in past : versions[k].at <= versions[i].at
    <3>1. TAKE k \in past
    <3>2. i < k \/ i = k
      BY <2>1, <2>2
    <3>3. versions[i].at \in Nat
      BY <1>1, <2>2, SeqFacts, VersionFacts
    <3> QED
      BY <1>1, <2>1, <2>2, <3>2, <3>3 DEF Ordered
  <2>4. versions[i] \in latest
    BY <2>1, <2>3
  <2>5. Find(versions, t) = IF versions[i].geography = None THEN None ELSE versions[i]
    BY <1>1, <2>1, FindFacts
  <2>6. versions[i] # None
    BY <1>1, <2>1, <2>2, SeqFacts, VersionFacts
  <2> HIDE DEF latest
  <2> QED
    BY <2>4, <2>5, <2>6
<1> QED
  BY <1>2, <1>3

THEOREM LatestIsShown == Spec => []FindsLatest
  BY LatestIsFound, IInvAlways, PTL
-----------------------------------------------------------------------------
(* What a step may do to the versions of a jurisdiction: nothing, or what  *)
(* a request that lands has prepared.                                      *)
LEMMA StepFacts ==
  ASSUME IInv, [Next]_vars, NEW j \in Known
  PROVE  /\ j \in Known'
         /\ \/ rows'[j].versions = rows[j].versions
            \/ \E r \in Requests :
                 /\ Lands(r, j) /\ Preparation(r) /\ writing[r] \in Prepared
                 /\ rows'[j] = writing[r].row
<1>1. TypeOK /\ j \in Jurisdictions /\ rows[j] # None
  BY DEF IInv, Known
<1>2. CASE rows' = rows
  BY <1>1, <1>2 DEF Known
<1>3. ASSUME NEW r \in Requests, Create(r)
      PROVE  j \in Known' /\ rows'[j].versions = rows[j].versions
  BY <1>3, CreateFacts
<1>4. ASSUME NEW r \in Requests, Write(r)
      PROVE  /\ j \in Known'
             /\ \/ rows'[j].versions = rows[j].versions
                \/ /\ Lands(r, j) /\ Preparation(r) /\ writing[r] \in Prepared
                   /\ rows'[j] = writing[r].row
  <2>1. /\ pc[r] = "write" /\ pc'[r] = "done" /\ Preparation(r) /\ writing[r] \in Prepared
        /\ rows' = rows \/ rows' = [rows EXCEPT ![writing[r].id] = writing[r].row]
    BY <1>4, WriteFacts
  <2>2. writing[r].row \in Row /\ writing[r].row # None
    BY <2>1, ConstantsOK DEF Prepared
  <2>3. CASE writing[r].id = j
    BY <1>1, <2>1, <2>2, <2>3 DEF TypeOK, Known, Lands
  <2>4. CASE writing[r].id # j
    BY <1>1, <2>1, <2>4 DEF TypeOK, Known
  <2> QED
    BY <2>3, <2>4
<1>5. ASSUME NEW r \in Requests, Update(r) \/ Delete(r) PROVE rows' = rows
  BY <1>5 DEF Update, Delete
<1> QED
  BY <1>2, <1>3, <1>4, <1>5 DEF Next, Serve, Tick, vars

(***************************************************************************)
(* History stays as it was, and what is not in effect stays so, unless a   *)
(* request writes that was overtaken: if it was not, the row is what it    *)
(* read, the version it adds is not before the one it found in effect, and *)
(* nothing since then is a deletion.                                       *)
(***************************************************************************)
LEMMA StepKeepsHistory ==
  ASSUME IInv, [Next]_vars, NEW j \in Known, NEW t \in Times, Read(j, t)' # Read(j, t)
  PROVE  \E r \in Requests :
           /\ Lands(r, j)
           /\ Overtaken(r) \/ (writing[r].current.at <= t /\ Read(j, t) # None)
<1>1. j \in Known' /\ rows[j].versions \in Seq(Version) /\ t \in Nat
  BY StepFacts, RowFacts DEF Times
<1>2. Read(j, t) = Find(rows[j].versions, t) /\ Read(j, t)' = Find(rows'[j].versions, t)
  BY <1>1 DEF Read
<1>3. PICK r \in Requests :
        /\ Lands(r, j) /\ Preparation(r) /\ writing[r] \in Prepared
        /\ rows'[j] = writing[r].row
  BY <1>2, StepFacts
<1>4. writing[r].current.at \in Nat
  BY <1>3, VersionFacts DEF Prepared
<1>5. ASSUME ~ Overtaken(r), t < writing[r].current.at PROVE FALSE
  <2>1. writing[r].read = rows[j]
    BY <1>3, <1>5 DEF Overtaken, Lands
  <2>2. PICK v \in Version :
          writing[r].current.at <= v.at /\ rows'[j].versions = Sorted(v, rows[j].versions)
    BY <1>2, <1>3, <2>1 DEF Preparation, Extends
  <2>3. t < v.at
    <3>1. v.at \in Nat
      BY VersionFacts
    <3> QED
      BY <1>1, <1>4, <1>5, <2>2, <3>1
  <2>4. Find(rows'[j].versions, t) = Find(rows[j].versions, t)
    BY <1>1, <2>2, <2>3, FindsEarlier
  <2> QED
    BY <1>2, <2>4
<1>6. ASSUME ~ Overtaken(r), writing[r].current.at <= t PROVE Read(j, t) # None
  <2>1. writing[r].read = rows[j]
    BY <1>3, <1>6 DEF Overtaken, Lands
  <2> QED
    BY <1>2, <1>3, <1>6, <2>1 DEF Preparation
<1>7. Overtaken(r) \/ (writing[r].current.at <= t /\ Read(j, t) # None)
  BY <1>1, <1>4, <1>5, <1>6
<1> QED
  BY <1>3, <1>7

THEOREM HistoryIsKept == Spec => HistoryKept
<1>1. IInv /\ [Next]_vars =>
        [\A j \in Known, t \in Times :
           Read(j, t)' # Read(j, t) =>
             \E r \in Requests :
               /\ Lands(r, j)
               /\ Overtaken(r) \/ (writing[r].current.at <= t /\ Read(j, t) # None)]_vars
  BY StepKeepsHistory
<1> QED
  BY <1>1, IInvAlways, PTL DEF Spec, HistoryKept

(***************************************************************************)
(* A jurisdiction keeps the version it was created with, as its earliest,  *)
(* however its writers overtake each other.                                *)
(***************************************************************************)
THEOREM OriginIsKept == Spec => OriginKept
<1>1. ASSUME IInv, [Next]_vars, NEW j \in Known
      PROVE  Last(rows'[j].versions) = Last(rows[j].versions)
  <2>1. CASE rows'[j].versions = rows[j].versions
    BY <2>1
  <2>2. CASE rows'[j].versions # rows[j].versions
    <3>1. PICK r \in Requests :
            Lands(r, j) /\ Preparation(r) /\ rows'[j] = writing[r].row
      BY <1>1, <2>2, StepFacts
    <3> QED
      BY <3>1 DEF Lands, Preparation
  <2> QED
    BY <2>1, <2>2
<1>2. IInv /\ [Next]_vars =>
        [\A j \in Known : Last(rows[j].versions)' = Last(rows[j].versions)]_vars
  BY <1>1
<1> QED
  BY <1>2, IInvAlways, PTL DEF Spec, OriginKept
=============================================================================

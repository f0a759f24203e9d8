--------------------------- MODULE ComplianceProofs ---------------------------
(***************************************************************************)
(* Proofs about the compliance engine's two halves: the paged listing that *)
(* getProviderInputs reads its events from, and the count of those events  *)
(* against a policy.  The first half is about every listing, for every     *)
(* table, and the second for any number of rules, vehicles and events.     *)
(***************************************************************************)
EXTENDS CursorPaging, ComplianceCount, FiniteSetTheorems, SequenceTheorems,
        WellFoundedInduction, TLAPS

(***************************************************************************)
(* The order of a listing.                                                 *)
(***************************************************************************)

(* What the type of the table says of the rows.                            *)
RowsTyped == rows \in Seq(Row) /\ Len(rows) <= MaxRows

LEMMA RowFacts ==
  ASSUME RowsTyped
  PROVE  /\ Len(rows) \in Nat /\ DOMAIN rows = 1 .. Len(rows) /\ DOMAIN rows \subseteq Ids
         /\ \A i \in DOMAIN rows :
              /\ rows[i] \in Row
              /\ rows[i].vehicle \in Devices /\ rows[i].ts \in Nat /\ rows[i].visible \in BOOLEAN
<1>1. DOMAIN rows = 1 .. Len(rows) /\ Len(rows) \in Nat /\ Len(rows) <= MaxRows
  BY DEF RowsTyped
<1>2. \A i \in DOMAIN rows : rows[i] \in Row
  BY DEF RowsTyped
<1>3. 0 .. MaxTime \subseteq Nat
  BY ConstantsOK
<1> QED
  BY <1>1, <1>2, <1>3, ConstantsOK DEF Row, Ids

LEMMA ListingFacts ==
  ASSUME NEW l \in Listings
  PROVE  /\ l.column \in {"timestamp", "id"} /\ l.limit \in Nat /\ l.limit > 0
         /\ l.tie \in BOOLEAN /\ l.desc \in BOOLEAN /\ l.latest \in BOOLEAN
         /\ l.keeps \in BOOLEAN /\ l.follow \in BOOLEAN /\ l.only \in SUBSET Devices
  BY ConstantsOK

(* Precedes orders the rows totally; Follows agrees with it, and rows that *)
(* neither follows are the ones that tie.                                  *)
LEMMA OrderFacts ==
  ASSUME RowsTyped, NEW l \in Listings,
         NEW i \in DOMAIN rows, NEW j \in DOMAIN rows, NEW k \in DOMAIN rows
  PROVE  /\ ~ Precedes(l, i, i)
         /\ Precedes(l, i, j) \/ Precedes(l, j, i) \/ i = j
         /\ Precedes(l, i, j) => ~ Precedes(l, j, i)
         /\ Precedes(l, i, j) /\ Precedes(l, j, k) => Precedes(l, i, k)
         /\ Follows(l, j, i) => Precedes(l, i, j)
         /\ Follows(l, j, i) /\ Precedes(l, j, k) => Follows(l, k, i)
<1>1. /\ i \in Nat /\ j \in Nat /\ k \in Nat
      /\ rows[i].ts \in Nat /\ rows[j].ts \in Nat /\ rows[k].ts \in Nat
  BY RowFacts
<1>2. l.column \in {"timestamp", "id"} /\ l.tie \in BOOLEAN /\ l.desc \in BOOLEAN
  BY ListingFacts
<1> QED
  BY <1>1, <1>2 DEF Precedes, Follows, Ascends

(* No two rows tie: a row has its place in the listing, whatever the       *)
(* others are.                                                             *)
Total(l) == l.column = "id" \/ l.tie

LEMMA TotalFacts ==
  ASSUME RowsTyped, NEW l \in Listings, Total(l),
         NEW i \in DOMAIN rows, NEW j \in DOMAIN rows
  PROVE  Precedes(l, i, j) <=> Follows(l, j, i)
<1>1. /\ i \in Nat /\ j \in Nat
      /\ rows[i].ts \in Nat /\ rows[j].ts \in Nat
  BY RowFacts
<1>2. l.column \in {"timestamp", "id"} /\ l.tie \in BOOLEAN /\ l.desc \in BOOLEAN
  BY ListingFacts
<1> QED
  BY <1>1, <1>2 DEF Precedes, Follows, Ascends, Total

LEMMA FiniteRows ==
  ASSUME RowsTyped, NEW S \in SUBSET DOMAIN rows
  PROVE  IsFiniteSet(S) /\ Cardinality(S) \in Nat
<1>1. IsFiniteSet(1 .. Len(rows))
  BY RowFacts, FS_Interval
<1>2. IsFiniteSet(S)
  BY <1>1, RowFacts, FS_Subset
<1> QED
  BY <1>2, FS_CardinalityType

LEMMA RankFacts ==
  ASSUME RowsTyped, NEW l \in Listings, NEW S \in SUBSET DOMAIN rows,
         NEW i \in S
  PROVE  /\ Rank(l, S, i) \in 0 .. Cardinality(S) - 1
         /\ \A j \in S : Precedes(l, i, j) <=> Rank(l, S, i) < Rank(l, S, j)
         /\ \A j \in S : Rank(l, S, i) = Rank(l, S, j) => i = j
<1> DEFINE B(k) == {j \in S : Precedes(l, j, k)}
<1>1. \A k \in S : Rank(l, S, k) = Cardinality(B(k))
  BY DEF Rank
<1>2. \A k \in S : IsFiniteSet(B(k)) /\ Cardinality(B(k)) \in Nat
  BY FiniteRows
<1>3. \A k \in S : k \notin B(k) /\ IsFiniteSet(S) /\ Cardinality(S) \in Nat
  BY OrderFacts, FiniteRows
<1>4. Cardinality(B(i)) < Cardinality(S)
  BY <1>2, <1>3, FS_Subset
<1>5. \A j, k \in S : Precedes(l, j, k) => Cardinality(B(j)) < Cardinality(B(k))
  <2> SUFFICES ASSUME NEW j \in S, NEW k \in S, Precedes(l, j, k)
               PROVE  Cardinality(B(j)) < Cardinality(B(k))
    OBVIOUS
  <2>1. B(j) \in SUBSET B(k) /\ j \in B(k) /\ j \notin B(j)
    BY OrderFacts
  <2> HIDE DEF B
  <2>2. B(j) # B(k) /\ IsFiniteSet(B(k))
    BY <1>2, <2>1
  <2>3. Cardinality(B(j)) <= Cardinality(B(k)) /\ Cardinality(B(j)) # Cardinality(B(k))
    BY <2>1, <2>2, FS_Subset
  <2> QED
    BY <1>2, <2>3
<1>6. \A j \in S : Precedes(l, i, j) \/ Precedes(l, j, i) \/ i = j
  BY OrderFacts
<1> HIDE DEF B
<1>7. \A j \in S : Rank(l, S, j) \in Nat
  BY <1>1, <1>2
<1>8. \A j \in S : Precedes(l, i, j) => Rank(l, S, i) < Rank(l, S, j)
  BY <1>1, <1>5
<1>9. \A j \in S : Precedes(l, j, i) => Rank(l, S, j) < Rank(l, S, i)
  BY <1>1, <1>5
<1>10. Rank(l, S, i) < Cardinality(S) /\ Cardinality(S) \in Nat
  BY <1>1, <1>3, <1>4
<1> QED
  BY <1>6, <1>7, <1>8, <1>9, <1>10

(* The sort: the ranks of n rows are 0 to n - 1, so each place has a row.  *)
LEMMA SortedFacts ==
  ASSUME RowsTyped, NEW l \in Listings, NEW S \in SUBSET DOMAIN rows
  PROVE  /\ Sorted(l, S) \in Seq(S) /\ Len(Sorted(l, S)) = Cardinality(S)
         /\ Cardinality(S) \in Nat
         /\ \A n \in 1 .. Cardinality(S) :
              Sorted(l, S)[n] \in S /\ Rank(l, S, Sorted(l, S)[n]) = n - 1
         /\ \A i \in S : Sorted(l, S)[Rank(l, S, i) + 1] = i
<1> DEFINE N == 1 .. Cardinality(S)
           f == [i \in S |-> Rank(l, S, i) + 1]
<1>1. IsFiniteSet(S) /\ Cardinality(S) \in Nat
  BY FiniteRows
<1>2. IsFiniteSet(N) /\ Cardinality(N) = Cardinality(S)
  BY <1>1, FS_Interval
<1>3. \A i \in S : Rank(l, S, i) \in 0 .. Cardinality(S) - 1
  BY RankFacts
<1>4. f \in [S -> N]
  BY <1>1, <1>3
<1>5. \A i, j \in S : f[i] = f[j] => i = j
  BY <1>3, RankFacts
<1>6. f \in Injection(S, N)
  BY <1>4, <1>5 DEF Injection, IsInjective
<1>7. f \in Surjection(S, N)
  BY <1>1, <1>2, <1>6, FS_Injection
<1>8. \A n \in N : \E i \in S : Rank(l, S, i) = n - 1
  <2>1. \A n \in N : \E i \in S : f[i] = n
    BY <1>7 DEF Surjection
  <2> QED
    BY <1>1, <1>3, <2>1
<1>9. \A n \in N : Sorted(l, S)[n] \in S /\ Rank(l, S, Sorted(l, S)[n]) = n - 1
  BY <1>8 DEF Sorted
<1>10. DOMAIN Sorted(l, S) = N
  BY DEF Sorted
<1>11. Sorted(l, S) \in [N -> S]
  BY <1>9, <1>10 DEF Sorted
<1>12. Sorted(l, S) \in Seq(S) /\ Len(Sorted(l, S)) = Cardinality(S)
  BY <1>1, <1>11
<1>13. \A i \in S : Sorted(l, S)[Rank(l, S, i) + 1] = i
  <2> SUFFICES ASSUME NEW i \in S PROVE Sorted(l, S)[Rank(l, S, i) + 1] = i
    OBVIOUS
  <2> DEFINE k == Sorted(l, S)[Rank(l, S, i) + 1]
  <2>1. Rank(l, S, i) + 1 \in N
    BY <1>1, <1>3
  <2>2. k \in S /\ Rank(l, S, k) = Rank(l, S, i)
    BY <1>1, <1>3, <1>9, <2>1
  <2> QED
    BY <2>2, RankFacts
<1> QED
  BY <1>1, <1>9, <1>12, <1>13

(***************************************************************************)
(* The pages.                                                              *)
(***************************************************************************)
LEMMA TakeFacts ==
  ASSUME NEW T, NEW s \in Seq(T), NEW n \in Nat
  PROVE  /\ Take(s, n) \in Seq(T)
         /\ Len(Take(s, n)) = IF Len(s) < n THEN Len(s) ELSE n
         /\ \A m \in 1 .. Len(Take(s, n)) : Take(s, n)[m] = s[m]
  BY DEF Take

LEMMA ReverseFacts ==
  ASSUME NEW T, NEW s \in Seq(T)
  PROVE  /\ Reverse(s) \in Seq(T) /\ Len(Reverse(s)) = Len(s)
         /\ \A m \in 1 .. Len(s) : Reverse(s)[m] = s[Len(s) - m + 1]
<1>1. Len(s) \in Nat /\ DOMAIN s = 1 .. Len(s)
  OBVIOUS
<1>2. \A m \in 1 .. Len(s) : s[(Len(s) - m) + 1] \in T
  <2>1. \A m \in 1 .. Len(s) : (Len(s) - m) + 1 \in 1 .. Len(s)
    BY <1>1
  <2> QED
    BY <1>1, <2>1
<1>3. Reverse(s) \in [1 .. Len(s) -> T]
  BY <1>2 DEF Reverse
<1>4. DOMAIN Reverse(s) = 1 .. Len(s)
  BY DEF Reverse
<1>5. Reverse(s) \in Seq(T) /\ Len(Reverse(s)) = Len(s)
  BY <1>1, <1>3, <1>4
<1> QED
  BY <1>1, <1>5 DEF Reverse

(* What a query without and with a cursor may return, and what a query of  *)
(* the page before may.                                                    *)
After(l, filter, c) == {i \in Matching(l, filter) : c # 0 => Follows(l, i, c)}
Before(l, filter, c) == {i \in Matching(l, filter) : Follows(l, c, i)}

LEMMA QueriedRows ==
  ASSUME NEW l, NEW filter, NEW c
  PROVE  /\ Visible \in SUBSET DOMAIN rows
         /\ Matching(l, filter) \in SUBSET DOMAIN rows
         /\ After(l, filter, c) \in SUBSET DOMAIN rows
         /\ Before(l, filter, c) \in SUBSET DOMAIN rows
         /\ After(l, filter, c) \subseteq Visible /\ Before(l, filter, c) \subseteq Visible
  BY DEF After, Before, Matching, Visible

(* The first rows of what follows the cursor, in order; the row too many   *)
(* tells whether there are more.                                           *)
LEMMA AfterFacts ==
  ASSUME RowsTyped, NEW l \in Listings, NEW filter, NEW c, NEW dir, dir # "before"
  PROVE  LET Q == After(l, filter, c)
             read == PageAfter(l, filter, c)
             page == Page(l, read, dir)
         IN  /\ page \in Seq(Q)
             /\ Cardinality(Q) \in Nat
             /\ Len(page) = IF Cardinality(Q) < l.limit THEN Cardinality(Q) ELSE l.limit
             /\ \A m \in 1 .. Len(page) : page[m] \in Q /\ Rank(l, Q, page[m]) = m - 1
             /\ HasMore(l, read) <=> Cardinality(Q) > l.limit
             /\ \A i \in Q : Rank(l, Q, i) < Len(page) => page[Rank(l, Q, i) + 1] = i
<1> DEFINE Q == After(l, filter, c)
           s == Sorted(l, Q)
           read == PageAfter(l, filter, c)
           page == Page(l, read, dir)
<1>1. l.limit \in Nat /\ l.limit > 0 /\ l.limit + 1 \in Nat
  BY ListingFacts
<1>2. read = Take(s, l.limit + 1)
  BY DEF PageAfter, After
<1>3. page = Take(read, l.limit)
  BY DEF Page
<1>4. Q \in SUBSET DOMAIN rows
  BY QueriedRows
<1>5. /\ s \in Seq(Q) /\ Len(s) = Cardinality(Q) /\ Cardinality(Q) \in Nat
      /\ \A m \in 1 .. Cardinality(Q) : s[m] \in Q /\ Rank(l, Q, s[m]) = m - 1
      /\ \A i \in Q : s[Rank(l, Q, i) + 1] = i
  BY <1>4, SortedFacts
<1>6. \A i \in Q : Rank(l, Q, i) \in Nat
  BY <1>4, RankFacts
<1> HIDE DEF Q, s, read, page
<1>7. /\ read \in Seq(Q)
      /\ Len(read) = IF Cardinality(Q) < l.limit + 1 THEN Cardinality(Q) ELSE l.limit + 1
      /\ \A m \in 1 .. Len(read) : read[m] = s[m]
  BY <1>1, <1>2, <1>5, TakeFacts
<1>8. /\ page \in Seq(Q)
      /\ Len(page) = IF Len(read) < l.limit THEN Len(read) ELSE l.limit
      /\ \A m \in 1 .. Len(page) : page[m] = read[m]
  BY <1>1, <1>3, <1>7, TakeFacts
<1>9. Len(page) = IF Cardinality(Q) < l.limit THEN Cardinality(Q) ELSE l.limit
  BY <1>1, <1>5, <1>7, <1>8
<1>10. \A m \in 1 .. Len(page) : page[m] = s[m] /\ m \in 1 .. Cardinality(Q)
  BY <1>1, <1>5, <1>7, <1>8, <1>9
<1>11. HasMore(l, read) <=> Cardinality(Q) > l.limit
  BY <1>1, <1>5, <1>7 DEF HasMore
<1>12. \A m \in 1 .. Len(page) : page[m] \in Q /\ Rank(l, Q, page[m]) = m - 1
  BY <1>5, <1>10
<1>13. ASSUME NEW i \in Q, Rank(l, Q, i) < Len(page)
       PROVE  page[Rank(l, Q, i) + 1] = i
  <2>1. Len(page) \in Nat
    BY <1>1, <1>5, <1>9
  <2>2. Rank(l, Q, i) + 1 \in 1 .. Len(page)
    BY <1>6, <1>13, <2>1
  <2> QED
    BY <1>5, <1>10, <2>2
<1> QED
  BY <1>5, <1>8, <1>9, <1>11, <1>12, <1>13 DEF Q, read, page

(* The last rows of what is before the cursor: they are read from the end  *)
(* and reversed.                                                           *)
LEMMA BeforeFacts ==
  ASSUME RowsTyped, NEW l \in Listings, NEW filter, NEW c
  PROVE  LET Q == Before(l, filter, c)
             page == Page(l, PageBefore(l, filter, c), "before")
         IN  /\ page \in Seq(Q)
             /\ Cardinality(Q) \in Nat
             /\ Len(page) = IF Cardinality(Q) < l.limit THEN Cardinality(Q) ELSE l.limit
             /\ \A m \in 1 .. Len(page) :
                  page[m] \in Q /\ Rank(l, Q, page[m]) = Cardinality(Q) - Len(page) + m - 1
<1> DEFINE Q == Before(l, filter, c)
           s == Sorted(l, Q)
           back == Reverse(s)
           read == PageBefore(l, filter, c)
           first == Take(read, l.limit)
           page == Page(l, read, "before")
<1>1. l.limit \in Nat /\ l.limit > 0 /\ l.limit + 1 \in Nat
  BY ListingFacts
<1>2. read = Take(back, l.limit + 1) /\ page = Reverse(first)
  BY DEF PageBefore, Before, Page
<1>3. Q \in SUBSET DOMAIN rows
  BY QueriedRows
<1>4. /\ s \in Seq(Q) /\ Len(s) = Cardinality(Q) /\ Cardinality(Q) \in Nat
      /\ \A m \in 1 .. Cardinality(Q) : s[m] \in Q /\ Rank(l, Q, s[m]) = m - 1
  BY <1>3, SortedFacts
<1> HIDE DEF Q, s
<1>5. /\ back \in Seq(Q) /\ Len(back) = Cardinality(Q)
      /\ \A m \in 1 .. Cardinality(Q) : back[m] = s[Cardinality(Q) - m + 1]
  BY <1>4, ReverseFacts
<1> HIDE DEF back, read
<1>6. /\ read \in Seq(Q)
      /\ Len(read) = IF Cardinality(Q) < l.limit + 1 THEN Cardinality(Q) ELSE l.limit + 1
      /\ \A m \in 1 .. Len(read) : read[m] = back[m]
  BY <1>1, <1>2, <1>5, TakeFacts
<1>7. /\ first \in Seq(Q)
      /\ Len(first) = IF Len(read) < l.limit THEN Len(read) ELSE l.limit
      /\ \A m \in 1 .. Len(first) : first[m] = read[m]
  BY <1>1, <1>6, TakeFacts
<1> HIDE DEF first, page
<1>8. /\ page \in Seq(Q) /\ Len(page) = Len(first)
      /\ \A m \in 1 .. Len(first) : page[m] = first[Len(first) - m + 1]
  BY <1>2, <1>7, ReverseFacts
<1>9. Len(page) = IF Cardinality(Q) < l.limit THEN Cardinality(Q) ELSE l.limit
  BY <1>1, <1>4, <1>6, <1>7, <1>8
<1>10. /\ Len(page) \in Nat /\ Len(first) = Len(page)
       /\ Len(page) <= Cardinality(Q) /\ Len(page) <= Len(read) /\ Len(read) \in Nat
  BY <1>1, <1>4, <1>6, <1>7, <1>8, <1>9
<1>11. ASSUME NEW m \in 1 .. Len(page)
       PROVE  page[m] \in Q /\ Rank(l, Q, page[m]) = Cardinality(Q) - Len(page) + m - 1
  <2> DEFINE k == Len(page) - m + 1
             n == Cardinality(Q) - k + 1
  <2>1. k \in 1 .. Len(first) /\ k \in 1 .. Len(read) /\ k \in 1 .. Cardinality(Q)
    BY <1>4, <1>10
  <2>2. n \in 1 .. Cardinality(Q) /\ n = Cardinality(Q) - Len(page) + m
    BY <1>4, <1>10, <2>1
  <2>3. page[m] = first[k]
    BY <1>8, <2>1
  <2>4. first[k] = back[k]
    BY <1>6, <1>7, <2>1
  <2>5. back[k] = s[n]
    BY <1>5, <2>1
  <2>6. page[m] = s[n]
    BY <2>3, <2>4, <2>5
  <2> HIDE DEF n, k
  <2>7. page[m] \in Q /\ Rank(l, Q, page[m]) = n - 1
    BY <1>4, <2>2, <2>6
  <2> QED
    BY <1>4, <1>10, <2>2, <2>7
<1> QED
  BY <1>4, <1>8, <1>9, <1>11 DEF Q, read, page

(***************************************************************************)
(* What is true of every listing: the cursors are the ends of the page the *)
(* client holds last, and what it holds is visible.                        *)
(***************************************************************************)
KeysUnique ==
  \A i, j \in DOMAIN rows : rows[i].vehicle = rows[j].vehicle /\ rows[i].ts = rows[j].ts => i = j

StartedVisible ==
  IF Started THEN started \subseteq Visible /\ pages # <<>>
  ELSE pages = <<>> /\ cursor = [next |-> 0, prev |-> 0]

PagesVisible == \A n \in DOMAIN pages : pages[n] \in Seq(Visible)

CursorsAtEnds ==
  /\ cursor.next # 0 =>
       pages # <<>> /\ pages[Len(pages)] # <<>> /\ cursor.next = Last(pages[Len(pages)])
  /\ cursor.prev # 0 =>
       pages # <<>> /\ pages[Len(pages)] # <<>> /\ cursor.prev = Head(pages[Len(pages)])

CursorInv == TypeOK /\ KeysUnique /\ StartedVisible /\ PagesVisible /\ CursorsAtEnds

LEMMA TypedRows == TypeOK => RowsTyped /\ listing \in Listings
  BY DEF TypeOK, RowsTyped

LEMMA VisibleIds ==
  ASSUME RowsTyped
  PROVE  Visible \subseteq DOMAIN rows /\ Visible \subseteq Ids /\ 0 \notin Visible
  BY RowFacts DEF Visible, Ids

LEMMA InitCursorInv == Init => CursorInv
<1> SUFFICES ASSUME Init PROVE CursorInv
  OBVIOUS
<1>1. TypeOK
  BY ConstantsOK DEF Init, TypeOK, NotStarted
<1>2. KeysUnique /\ StartedVisible /\ PagesVisible /\ CursorsAtEnds
  BY DEF Init, KeysUnique, StartedVisible, PagesVisible, CursorsAtEnds, Started
<1> QED
  BY <1>1, <1>2 DEF CursorInv

(* What a writer leaves: the rows there were, and their order.             *)
LEMMA WriterFacts ==
  ASSUME RowsTyped, KeysUnique, Writer
  PROVE  /\ RowsTyped' /\ KeysUnique' /\ UNCHANGED reader
         /\ Visible \subseteq Visible'
         /\ DOMAIN rows \subseteq DOMAIN rows'
         /\ \A i \in DOMAIN rows :
              rows'[i].vehicle = rows[i].vehicle /\ rows'[i].ts = rows[i].ts
<1>1. ASSUME NEW v \in Devices, NEW t \in 0 .. MaxTime, Insert(v, t)
      PROVE  /\ RowsTyped' /\ KeysUnique' /\ UNCHANGED reader
             /\ Visible \subseteq Visible'
             /\ DOMAIN rows \subseteq DOMAIN rows'
             /\ \A i \in DOMAIN rows :
                  rows'[i].vehicle = rows[i].vehicle /\ rows'[i].ts = rows[i].ts
  <2> DEFINE new == [vehicle |-> v, ts |-> t, visible |-> FALSE]
  <2>1. new \in Row
    BY DEF Row
  <2>2. rows \in Seq(Row) /\ Len(rows) \in Nat /\ Len(rows) < MaxRows /\ rows' = Append(rows, new)
    BY <1>1, RowFacts DEF Insert, RowsTyped
  <2>3. \A i \in DOMAIN rows : ~ (rows[i].vehicle = v /\ rows[i].ts = t)
    BY <1>1 DEF Insert
  <2>4. new.vehicle = v /\ new.ts = t
    OBVIOUS
  <2> HIDE DEF new
  <2>5. /\ rows' \in Seq(Row) /\ Len(rows') = Len(rows) + 1
        /\ \A i \in DOMAIN rows : rows'[i] = rows[i]
        /\ rows'[Len(rows) + 1] = new
        /\ DOMAIN rows = 1 .. Len(rows) /\ DOMAIN rows' = 1 .. Len(rows) + 1
    BY <2>1, <2>2
  <2>6. RowsTyped'
    BY <2>2, <2>5, ConstantsOK DEF RowsTyped
  <2>7. \A i \in DOMAIN rows' : i \in DOMAIN rows \/ (i = Len(rows) + 1 /\ rows'[i] = new)
    BY <2>2, <2>5
  <2>8. KeysUnique'
    BY <2>3, <2>4, <2>5, <2>7 DEF KeysUnique
  <2>9. DOMAIN rows \subseteq DOMAIN rows'
    BY <2>2, <2>5
  <2>10. UNCHANGED reader
    BY <1>1 DEF Insert
  <2> QED
    BY <2>5, <2>6, <2>8, <2>9, <2>10 DEF Visible
<1>2. ASSUME NEW i \in DOMAIN rows, Commit(i)
      PROVE  /\ RowsTyped' /\ KeysUnique' /\ UNCHANGED reader
             /\ Visible \subseteq Visible'
             /\ DOMAIN rows \subseteq DOMAIN rows'
             /\ \A k \in DOMAIN rows :
                  rows'[k].vehicle = rows[k].vehicle /\ rows'[k].ts = rows[k].ts
  <2>1. rows' = [rows EXCEPT ![i].visible = TRUE] /\ UNCHANGED reader
    BY <1>2 DEF Commit
  <2>2. rows \in Seq(Row) /\ DOMAIN rows' = DOMAIN rows
    BY <2>1 DEF RowsTyped
  <2>3. \A k \in DOMAIN rows :
          /\ rows'[k] \in Row
          /\ rows'[k].vehicle = rows[k].vehicle /\ rows'[k].ts = rows[k].ts
          /\ rows[k].visible => rows'[k].visible
    BY <2>1, RowFacts DEF Row
  <2>4. rows' \in Seq(Row) /\ Len(rows') = Len(rows)
    <3>1. rows' \in [1 .. Len(rows) -> Row] /\ Len(rows) \in Nat
      BY <2>1, <2>2, <2>3, RowFacts
    <3> QED
      BY <2>2, <3>1
  <2>5. RowsTyped'
    BY <2>4 DEF RowsTyped
  <2>6. KeysUnique'
    BY <2>2, <2>3 DEF KeysUnique
  <2> QED
    BY <2>1, <2>2, <2>3, <2>5, <2>6 DEF Visible
<1> QED
  BY <1>1, <1>2 DEF Writer

(* A page that is put after the first k pages.                             *)
LEMMA NewPage ==
  ASSUME CursorInv, UNCHANGED <<rows, listing>>,
         NEW read, NEW dir, NEW k \in 0 .. Len(pages),
         Page(listing, read, dir) \in Seq(Visible),
         Len(Page(listing, read, dir)) <= listing.limit,
         pages' = Append(SubSeq(pages, 1, k), Page(listing, read, dir)),
         Reads(listing, read, dir),
         started' = Visible \/ (Started /\ UNCHANGED started),
         forward' \in BOOLEAN
  PROVE  /\ CursorInv'
         /\ Len(pages') = k + 1 /\ pages'[k + 1] = Page(listing, read, dir)
         /\ \A n \in 1 .. k : pages'[n] = pages[n]
         /\ DOMAIN pages = 1 .. Len(pages) /\ DOMAIN pages' = 1 .. k + 1
<1> DEFINE page == Page(listing, read, dir)
<1>1. RowsTyped /\ listing \in Listings /\ pages \in Seq(Seq(Ids)) /\ Len(pages) \in Nat
  BY TypedRows DEF CursorInv, TypeOK
<1>2. Visible \subseteq Ids /\ 0 \notin Visible /\ Visible' = Visible
  BY <1>1, VisibleIds DEF Visible
<1>3. page \in Seq(Ids) /\ Len(page) \in Nat
  BY <1>2
<1> HIDE DEF page
<1>4. SubSeq(pages, 1, k) \in Seq(Seq(Ids)) /\ Len(SubSeq(pages, 1, k)) = k
      /\ \A n \in 1 .. k : SubSeq(pages, 1, k)[n] = pages[n]
  BY <1>1
<1>5. /\ pages' \in Seq(Seq(Ids)) /\ Len(pages') = k + 1 /\ pages'[k + 1] = page
      /\ \A n \in 1 .. k : pages'[n] = pages[n]
      /\ DOMAIN pages = 1 .. Len(pages) /\ DOMAIN pages' = 1 .. k + 1
  BY <1>1, <1>3, <1>4 DEF page
<1>6. pages' # <<>>
  BY <1>5
<1>7. \A n \in DOMAIN pages' : (n \in DOMAIN pages /\ pages'[n] = pages[n]) \/ pages'[n] = page
  BY <1>1, <1>5
<1>8. PagesVisible'
  BY <1>2, <1>7 DEF CursorInv, PagesVisible, page
<1>9. /\ cursor' = [next |-> NextCursor(listing, read, dir), prev |-> PrevCursor(listing, read, dir)]
      /\ cursor'.next # 0 => page # <<>> /\ cursor'.next = Last(page)
      /\ cursor'.prev # 0 => page # <<>> /\ cursor'.prev = Head(page)
  BY DEF Reads, NextCursor, PrevCursor, page
<1>10. page # <<>> => Last(page) \in Ids /\ Head(page) \in Ids
  BY <1>3 DEF Last
<1>11. cursor' \in [next : {0} \cup Ids, prev : {0} \cup Ids]
  BY <1>9, <1>10
<1>12. CursorsAtEnds'
  BY <1>5, <1>9, <1>6 DEF CursorsAtEnds
<1>13. started' \subseteq Visible /\ started' \in SUBSET Ids /\ Started'
  <2>1. started' \subseteq Visible
    BY DEF CursorInv, StartedVisible
  <2> QED
    BY <1>2, <2>1 DEF Started, NotStarted
<1>14. StartedVisible'
  BY <1>2, <1>13, <1>6 DEF StartedVisible
<1>15. \A n \in DOMAIN pages' : Len(pages'[n]) <= listing'.limit
  BY <1>7 DEF CursorInv, TypeOK, page
<1>16. TypeOK'
  BY <1>5, <1>11, <1>13, <1>15 DEF CursorInv, TypeOK
<1>17. KeysUnique'
  BY DEF CursorInv, KeysUnique
<1> QED
  BY <1>5, <1>8, <1>12, <1>14, <1>16, <1>17 DEF CursorInv, page

LEMMA FirstPageFacts ==
  ASSUME CursorInv, FirstPage(listing)
  PROVE  /\ CursorInv' /\ UNCHANGED <<rows, listing, forward>> /\ started' = Visible
         /\ DOMAIN pages' = 1 .. 1
         /\ pages'[1] = Page(listing, PageAfter(listing, listing.only, 0), "first")
         /\ Reads(listing, PageAfter(listing, listing.only, 0), "first")
<1> DEFINE read == PageAfter(listing, listing.only, 0)
           page == Page(listing, read, "first")
<1>1. RowsTyped /\ listing \in Listings
  BY TypedRows DEF CursorInv
<1>2. /\ page \in Seq(After(listing, listing.only, 0))
      /\ Len(page) <= listing.limit
  BY <1>1, AfterFacts, ListingFacts
<1>3. page \in Seq(Visible)
  BY <1>2, QueriedRows
<1>4. pages' = <<page>> /\ started' = Visible /\ Reads(listing, read, "first")
      /\ UNCHANGED <<rows, listing, forward>>
  BY DEF FirstPage
<1>5. pages = <<>> /\ forward \in BOOLEAN
  BY DEF FirstPage, CursorInv, StartedVisible, TypeOK
<1> HIDE DEF read, page
<1>6. 0 \in 0 .. Len(pages) /\ pages' = Append(SubSeq(pages, 1, 0), page)
  BY <1>4, <1>5
<1>7. /\ CursorInv' /\ pages'[0 + 1] = page /\ DOMAIN pages' = 1 .. 0 + 1
  BY <1>2, <1>3, <1>4, <1>5, <1>6, NewPage DEF page
<1> QED
  BY <1>4, <1>7 DEF page, read

LEMMA NextPageFacts ==
  ASSUME CursorInv, NextPage
  PROVE  LET read == PageAfter(listing, Filter, cursor.next)
             k == Len(pages)
         IN  /\ CursorInv' /\ UNCHANGED <<rows, listing, started, forward>>
             /\ Started /\ cursor.next # 0 /\ k \in Nat /\ k > 0
             /\ DOMAIN pages = 1 .. k /\ DOMAIN pages' = 1 .. k + 1
             /\ \A n \in 1 .. k : pages'[n] = pages[n]
             /\ pages'[k + 1] = Page(listing, read, "after")
             /\ Reads(listing, read, "after")
<1> DEFINE read == PageAfter(listing, Filter, cursor.next)
           page == Page(listing, read, "after")
           k == Len(pages)
<1>1. RowsTyped /\ listing \in Listings /\ pages \in Seq(Seq(Ids)) /\ k \in Nat
  BY TypedRows DEF CursorInv, TypeOK
<1>2. /\ page \in Seq(After(listing, Filter, cursor.next))
      /\ Len(page) <= listing.limit
  BY <1>1, AfterFacts, ListingFacts
<1>3. page \in Seq(Visible)
  BY <1>2, QueriedRows
<1>4. pages' = Append(pages, page) /\ Reads(listing, read, "after")
      /\ UNCHANGED <<rows, listing, started, forward>> /\ Started /\ cursor.next # 0
  BY DEF NextPage
<1>5. forward \in BOOLEAN /\ pages # <<>>
  BY <1>4 DEF CursorInv, StartedVisible, TypeOK
<1> HIDE DEF read, page
<1>6. k \in 0 .. k /\ k > 0 /\ SubSeq(pages, 1, k) = pages
  BY <1>1, <1>5
<1>7. pages' = Append(SubSeq(pages, 1, k), page)
  BY <1>4, <1>6
<1>8. /\ CursorInv' /\ pages'[k + 1] = page
      /\ \A n \in 1 .. k : pages'[n] = pages[n]
      /\ DOMAIN pages = 1 .. Len(pages) /\ DOMAIN pages' = 1 .. k + 1
  BY <1>2, <1>3, <1>4, <1>5, <1>6, <1>7, NewPage DEF page
<1> QED
  BY <1>1, <1>4, <1>6, <1>8 DEF page, read

LEMMA PreviousPageFacts ==
  ASSUME CursorInv, PreviousPage
  PROVE  LET read == PageBefore(listing, Filter, cursor.prev)
             k == Len(pages)
         IN  /\ CursorInv' /\ UNCHANGED <<rows, listing, started>> /\ ~ forward'
             /\ Started /\ cursor.prev # 0 /\ k \in Nat /\ k > 1
             /\ DOMAIN pages = 1 .. k /\ DOMAIN pages' = 1 .. k - 1
             /\ \A n \in 1 .. k - 2 : pages'[n] = pages[n]
             /\ pages'[k - 1] = Page(listing, read, "before")
             /\ Reads(listing, read, "before")
<1> DEFINE read == PageBefore(listing, Filter, cursor.prev)
           page == Page(listing, read, "before")
           k == Len(pages)
<1>1. RowsTyped /\ listing \in Listings /\ pages \in Seq(Seq(Ids)) /\ k \in Nat
  BY TypedRows DEF CursorInv, TypeOK
<1>2. /\ page \in Seq(Before(listing, Filter, cursor.prev))
      /\ Len(page) <= listing.limit
  BY <1>1, BeforeFacts, ListingFacts
<1>3. page \in Seq(Visible)
  BY <1>2, QueriedRows
<1>4. pages' = Append(SubSeq(pages, 1, k - 2), page) /\ Reads(listing, read, "before")
      /\ UNCHANGED <<rows, listing, started>> /\ Started /\ cursor.prev # 0 /\ k > 1
      /\ forward' = FALSE
  BY DEF PreviousPage
<1> HIDE DEF read, page
<1>5. k - 2 \in 0 .. k
  BY <1>1, <1>4
<1>6. /\ CursorInv' /\ pages'[k - 2 + 1] = page
      /\ \A n \in 1 .. k - 2 : pages'[n] = pages[n]
      /\ DOMAIN pages = 1 .. Len(pages) /\ DOMAIN pages' = 1 .. k - 2 + 1
  BY <1>2, <1>3, <1>4, <1>5, NewPage DEF page
<1>7. k - 2 + 1 = k - 1
  BY <1>1
<1> QED
  BY <1>1, <1>4, <1>6, <1>7 DEF page, read

LEMMA WriterCursorInv ==
  ASSUME CursorInv, Writer PROVE CursorInv'
<1>1. RowsTyped /\ KeysUnique
  BY TypedRows DEF CursorInv
<1>2. /\ RowsTyped' /\ KeysUnique' /\ Visible \subseteq Visible'
      /\ UNCHANGED <<listing, started, pages, cursor, forward>>
  BY <1>1, WriterFacts DEF reader
<1>3. TypeOK'
  BY <1>2 DEF CursorInv, TypeOK, RowsTyped
<1>4. PagesVisible'
  <2> SUFFICES ASSUME NEW n \in DOMAIN pages PROVE pages[n] \in Seq(Visible')
    BY <1>2 DEF PagesVisible
  <2>1. pages[n] \in Seq(Visible)
    BY DEF CursorInv, PagesVisible
  <2> QED
    BY <1>2, <2>1
<1>5. StartedVisible' /\ CursorsAtEnds'
  BY <1>2 DEF CursorInv, StartedVisible, CursorsAtEnds, Started
<1> QED
  BY <1>2, <1>3, <1>4, <1>5 DEF CursorInv

LEMMA NextCursorInv == CursorInv /\ [Next]_vars => CursorInv'
<1> SUFFICES ASSUME CursorInv, [Next]_vars PROVE CursorInv'
  OBVIOUS
<1>1. CASE Writer
  BY <1>1, WriterCursorInv
<1>2. CASE FirstPage(listing)
  BY <1>2, FirstPageFacts
<1>3. CASE NextPage
  BY <1>3, NextPageFacts
<1>4. CASE PreviousPage
  BY <1>4, PreviousPageFacts
<1>5. CASE UNCHANGED vars
  BY <1>5 DEF vars, reader, CursorInv, TypeOK, KeysUnique, StartedVisible, PagesVisible,
              CursorsAtEnds, Started, Visible
<1> QED
  BY <1>1, <1>2, <1>3, <1>4, <1>5 DEF Next

LEMMA CursorInvAlways == Spec => []CursorInv
  BY InitCursorInv, NextCursorInv, PTL DEF Spec

(***************************************************************************)
(* Type correctness: in particular a page is never longer than the limit,  *)
(* though the queries read a row more.                                     *)
(***************************************************************************)
THEOREM ListingTypeCorrect == Spec => []TypeOK
<1>1. CursorInv => TypeOK
  BY DEF CursorInv
<1> QED
  BY <1>1, CursorInvAlways, PTL

(***************************************************************************)
(* A client that goes on.                                                  *)
(***************************************************************************)
LEMMA PageInOrder ==
  ASSUME RowsTyped, NEW l \in Listings, NEW filter, NEW c, NEW dir, dir # "before"
  PROVE  LET page == Page(l, PageAfter(l, filter, c), dir)
         IN  /\ \A m1, m2 \in DOMAIN page : m1 < m2 => Precedes(l, page[m1], page[m2])
             /\ \A m \in DOMAIN page :
                  page[m] \in Visible /\ (c # 0 => Follows(l, page[m], c))
<1> DEFINE Q == After(l, filter, c)
           page == Page(l, PageAfter(l, filter, c), dir)
<1>1. Q \in SUBSET DOMAIN rows /\ Q \subseteq Visible
  BY QueriedRows
<1>2. /\ page \in Seq(Q)
      /\ \A m \in 1 .. Len(page) : page[m] \in Q /\ Rank(l, Q, page[m]) = m - 1
  BY AfterFacts
<1>3. \A i \in Q : c # 0 => Follows(l, i, c)
  BY DEF After
<1> HIDE DEF Q, page
<1>4. DOMAIN page = 1 .. Len(page) /\ Len(page) \in Nat
  BY <1>2
<1>5. ASSUME NEW m1 \in DOMAIN page, NEW m2 \in DOMAIN page, m1 < m2
      PROVE  Precedes(l, page[m1], page[m2])
  <2>1. /\ page[m1] \in Q /\ page[m2] \in Q
        /\ Rank(l, Q, page[m1]) = m1 - 1 /\ Rank(l, Q, page[m2]) = m2 - 1
    BY <1>2, <1>4
  <2>2. m1 - 1 < m2 - 1
    BY <1>4, <1>5
  <2> QED
    BY <1>1, <2>1, <2>2, RankFacts
<1> QED
  BY <1>1, <1>2, <1>3, <1>4, <1>5 DEF page

(* A row the query may return is on the page or after its cursor.          *)
LEMMA PageCovers ==
  ASSUME RowsTyped, NEW l \in Listings, Total(l), NEW filter, NEW c, NEW dir, dir # "before",
         NEW i \in After(l, filter, c)
  PROVE  LET read == PageAfter(l, filter, c)
             page == Page(l, read, dir)
         IN  \/ \E m \in DOMAIN page : page[m] = i
             \/ NextCursor(l, read, dir) # 0 /\ Follows(l, i, NextCursor(l, read, dir))
<1> DEFINE Q == After(l, filter, c)
           read == PageAfter(l, filter, c)
           page == Page(l, read, dir)
<1>1. Q \in SUBSET DOMAIN rows
  BY QueriedRows
<1>2. /\ page \in Seq(Q) /\ Cardinality(Q) \in Nat
      /\ Len(page) = IF Cardinality(Q) < l.limit THEN Cardinality(Q) ELSE l.limit
      /\ \A m \in 1 .. Len(page) : page[m] \in Q /\ Rank(l, Q, page[m]) = m - 1
      /\ HasMore(l, read) <=> Cardinality(Q) > l.limit
      /\ Rank(l, Q, i) < Len(page) => page[Rank(l, Q, i) + 1] = i
  BY AfterFacts
<1>3. Rank(l, Q, i) \in 0 .. Cardinality(Q) - 1
  BY <1>1, RankFacts
<1>4. l.limit \in Nat /\ l.limit > 0
  BY ListingFacts
<1> HIDE DEF Q, read, page
<1>5. DOMAIN page = 1 .. Len(page) /\ Len(page) \in Nat
  BY <1>2
<1>6. CASE Rank(l, Q, i) < Len(page)
  <2>1. Rank(l, Q, i) + 1 \in DOMAIN page
    BY <1>3, <1>5, <1>6
  <2> QED
    BY <1>2, <1>6, <2>1 DEF read, page
<1>7. CASE ~ (Rank(l, Q, i) < Len(page))
  <2> DEFINE last == page[Len(page)]
  <2>1. HasMore(l, read) /\ Len(page) = l.limit
    BY <1>2, <1>3, <1>4, <1>7
  <2>2. last \in Q /\ Rank(l, Q, last) = Len(page) - 1 /\ page # <<>>
    BY <1>2, <1>4, <1>5, <2>1
  <2>3. NextCursor(l, read, dir) = last
    BY <2>1, <2>2 DEF NextCursor, Last, page
  <2> HIDE DEF last
  <2>4. Rank(l, Q, last) < Rank(l, Q, i)
    BY <1>3, <1>5, <1>7, <2>2
  <2>5. i \in Q
    BY DEF Q
  <2>6. Precedes(l, last, i)
    BY <1>1, <2>2, <2>4, <2>5, RankFacts
  <2>7. Follows(l, i, last)
    BY <1>1, <2>2, <2>5, <2>6, TotalFacts
  <2>8. last # 0
    BY <1>1, <2>2, RowFacts DEF Ids
  <2> QED
    BY <2>3, <2>7, <2>8 DEF read, page
<1> QED
  BY <1>6, <1>7

(* The rows a client has read follow each other in the order of the        *)
(* listing, over all its pages.                                            *)
ReadInOrder ==
  \A n1, n2 \in DOMAIN pages : \A m1 \in DOMAIN pages[n1], m2 \in DOMAIN pages[n2] :
    n1 < n2 \/ (n1 = n2 /\ m1 < m2) => Precedes(listing, pages[n1][m1], pages[n2][m2])

OrderInv == CursorInv /\ (forward => ReadInOrder)

(* Writers leave the order of the rows as it was.                          *)
LEMMA SameOrder ==
  ASSUME NEW i \in DOMAIN rows, NEW j \in DOMAIN rows, UNCHANGED listing,
         rows'[i].ts = rows[i].ts, rows'[j].ts = rows[j].ts
  PROVE  /\ Follows(listing, i, j)' <=> Follows(listing, i, j)
         /\ Precedes(listing, i, j)' <=> Precedes(listing, i, j)
  BY DEF Follows, Precedes, Ascends

LEMMA PageRows ==
  ASSUME CursorInv, NEW n \in DOMAIN pages, NEW m \in DOMAIN pages[n]
  PROVE  pages[n][m] \in Visible /\ pages[n][m] \in DOMAIN rows
<1>1. pages[n] \in Seq(Visible)
  BY DEF CursorInv, PagesVisible
<1>2. pages[n][m] \in Visible
  BY <1>1
<1> QED
  BY <1>2 DEF Visible

(* The cursors are ids of visible rows, the ends of the last page.         *)
LEMMA CursorRows ==
  ASSUME CursorInv
  PROVE  /\ cursor.next # 0 =>
              /\ cursor.next \in Visible /\ cursor.next \in DOMAIN rows
              /\ Len(pages) \in DOMAIN pages
              /\ Len(pages[Len(pages)]) \in DOMAIN pages[Len(pages)]
              /\ cursor.next = pages[Len(pages)][Len(pages[Len(pages)])]
         /\ cursor.prev # 0 =>
              /\ cursor.prev \in Visible /\ cursor.prev \in DOMAIN rows
              /\ Len(pages) \in DOMAIN pages
              /\ 1 \in DOMAIN pages[Len(pages)]
              /\ cursor.prev = pages[Len(pages)][1]
<1> DEFINE k == Len(pages)
           page == pages[k]
<1>1. pages \in Seq(Seq(Ids))
  BY DEF CursorInv, TypeOK
<1>2. pages # <<>> => k \in DOMAIN pages
  BY <1>1
<1>3. pages # <<>> => page \in Seq(Visible)
  BY <1>2 DEF CursorInv, PagesVisible
<1>4. cursor.next # 0 => pages # <<>> /\ page # <<>> /\ cursor.next = Last(page)
  BY DEF CursorInv, CursorsAtEnds
<1>5. cursor.prev # 0 => pages # <<>> /\ page # <<>> /\ cursor.prev = Head(page)
  BY DEF CursorInv, CursorsAtEnds
<1> HIDE DEF page
<1>6. pages # <<>> /\ page # <<>> =>
        /\ Len(page) \in DOMAIN page /\ 1 \in DOMAIN page
        /\ Last(page) = page[Len(page)] /\ Head(page) = page[1]
        /\ page[Len(page)] \in Visible /\ page[1] \in Visible
  BY <1>3 DEF Last
<1>7. Visible \subseteq DOMAIN rows
  BY DEF Visible
<1> QED
  BY <1>2, <1>4, <1>5, <1>6, <1>7 DEF page

(* The next cursor is the last row that was read, and the others precede.  *)
LEMMA NextCursorIsLast ==
  ASSUME CursorInv, ReadInOrder, cursor.next # 0,
         NEW n \in DOMAIN pages, NEW m \in DOMAIN pages[n]
  PROVE  pages[n][m] = cursor.next \/ Precedes(listing, pages[n][m], cursor.next)
<1> DEFINE k == Len(pages)
           last == Len(pages[k])
<1>1. pages \in Seq(Seq(Ids)) /\ pages[k] \in Seq(Ids)
  BY CursorRows DEF CursorInv, TypeOK
<1>2. DOMAIN pages = 1 .. k /\ k \in Nat
  BY <1>1
<1>3. k \in DOMAIN pages /\ last \in DOMAIN pages[k] /\ cursor.next = pages[k][last]
  BY CursorRows
<1>4. DOMAIN pages[k] = 1 .. last /\ last \in Nat
  BY <1>1
<1> HIDE DEF k, last
<1>5. CASE n = k /\ m = last
  BY <1>3, <1>5
<1>6. CASE n < k \/ (n = k /\ m < last)
  BY <1>2, <1>3, <1>4, <1>6 DEF ReadInOrder
<1>7. n \in 1 .. k /\ (n = k => m \in 1 .. last)
  BY <1>2, <1>4
<1> QED
  BY <1>2, <1>4, <1>5, <1>6, <1>7

LEMMA NextOrderInv == OrderInv /\ [Next]_vars => OrderInv'
<1> SUFFICES ASSUME OrderInv, [Next]_vars, forward' PROVE ReadInOrder'
  BY NextCursorInv DEF OrderInv
<1>1. CursorInv /\ RowsTyped /\ listing \in Listings /\ KeysUnique
  BY TypedRows DEF OrderInv, CursorInv
<1>2. CASE Writer
  <2>1. /\ UNCHANGED <<listing, pages, forward>>
        /\ \A i \in DOMAIN rows : rows'[i].ts = rows[i].ts
    BY <1>1, <1>2, WriterFacts DEF reader
  <2>2. ReadInOrder
    BY <2>1 DEF OrderInv
  <2> SUFFICES ASSUME NEW n1 \in DOMAIN pages, NEW n2 \in DOMAIN pages,
                      NEW m1 \in DOMAIN pages[n1], NEW m2 \in DOMAIN pages[n2],
                      n1 < n2 \/ (n1 = n2 /\ m1 < m2)
               PROVE  Precedes(listing, pages[n1][m1], pages[n2][m2])'
    BY <2>1 DEF ReadInOrder
  <2> DEFINE i == pages[n1][m1]
             j == pages[n2][m2]
  <2>3. i \in DOMAIN rows /\ j \in DOMAIN rows /\ i' = i /\ j' = j
    BY <1>1, <2>1, PageRows
  <2>4. Precedes(listing, i, j)
    BY <2>2 DEF ReadInOrder
  <2> QED
    BY <2>1, <2>3, <2>4 DEF Precedes, Follows, Ascends
<1>3. CASE FirstPage(listing)
  <2> DEFINE page == Page(listing, PageAfter(listing, listing.only, 0), "first")
  <2>1. /\ UNCHANGED <<rows, listing>> /\ DOMAIN pages' = 1 .. 1 /\ pages'[1] = page
    BY <1>1, <1>3, FirstPageFacts
  <2>2. \A m1, m2 \in DOMAIN page : m1 < m2 => Precedes(listing, page[m1], page[m2])
    BY <1>1, PageInOrder
  <2> HIDE DEF page
  <2>3. \A i, j : Precedes(listing, i, j)' <=> Precedes(listing, i, j)
    BY <2>1 DEF Precedes, Follows, Ascends
  <2>4. \A n \in DOMAIN pages' : n = 1
    BY <2>1
  <2> QED
    BY <2>1, <2>2, <2>3, <2>4 DEF ReadInOrder
<1>4. CASE NextPage
  <2> DEFINE k == Len(pages)
             page == Page(listing, PageAfter(listing, Filter, cursor.next), "after")
  <2>1. /\ UNCHANGED <<rows, listing, forward>> /\ cursor.next # 0 /\ k \in Nat
        /\ DOMAIN pages = 1 .. k /\ DOMAIN pages' = 1 .. k + 1
        /\ \A n \in 1 .. k : pages'[n] = pages[n]
        /\ pages'[k + 1] = page
    BY <1>1, <1>4, NextPageFacts
  <2>2. ReadInOrder
    BY <2>1 DEF OrderInv
  <2>3. /\ \A m1, m2 \in DOMAIN page : m1 < m2 => Precedes(listing, page[m1], page[m2])
        /\ \A m \in DOMAIN page : page[m] \in Visible /\ Follows(listing, page[m], cursor.next)
    BY <1>1, <2>1, PageInOrder
  <2>4. cursor.next \in DOMAIN rows
    BY <1>1, <2>1, CursorRows
  <2> HIDE DEF k, page
  <2>5. ASSUME NEW n \in 1 .. k, NEW m1 \in DOMAIN pages[n], NEW m2 \in DOMAIN page
        PROVE  Precedes(listing, pages[n][m1], page[m2])
    <3>1. pages[n][m1] \in DOMAIN rows /\ page[m2] \in DOMAIN rows
      BY <1>1, <2>1, <2>3, PageRows DEF Visible
    <3>2. Precedes(listing, cursor.next, page[m2])
      BY <1>1, <2>3, <2>4, <3>1, OrderFacts
    <3>3. pages[n][m1] = cursor.next \/ Precedes(listing, pages[n][m1], cursor.next)
      BY <1>1, <2>1, <2>2, NextCursorIsLast
    <3> QED
      BY <1>1, <2>4, <3>1, <3>2, <3>3, OrderFacts
  <2>6. \A i, j : Precedes(listing, i, j)' <=> Precedes(listing, i, j)
    BY <2>1 DEF Precedes, Follows, Ascends
  <2> SUFFICES ASSUME NEW n1 \in DOMAIN pages', NEW n2 \in DOMAIN pages',
                      NEW m1 \in DOMAIN pages'[n1], NEW m2 \in DOMAIN pages'[n2],
                      n1 < n2 \/ (n1 = n2 /\ m1 < m2)
               PROVE  Precedes(listing, pages'[n1][m1], pages'[n2][m2])
    BY <2>6 DEF ReadInOrder
  <2>7. CASE n1 \in 1 .. k /\ n2 \in 1 .. k
    BY <2>1, <2>2, <2>7 DEF ReadInOrder
  <2>8. CASE n1 \in 1 .. k /\ n2 = k + 1
    BY <2>1, <2>5, <2>8
  <2>9. CASE n1 = k + 1 /\ n2 = k + 1
    BY <2>1, <2>3, <2>9
  <2> QED
    BY <2>1, <2>7, <2>8, <2>9
<1>5. CASE PreviousPage
  BY <1>1, <1>5, PreviousPageFacts
<1>6. CASE UNCHANGED vars
  BY <1>6 DEF OrderInv, ReadInOrder, vars, reader, Precedes, Follows, Ascends
<1> QED
  BY <1>2, <1>3, <1>4, <1>5, <1>6 DEF Next

LEMMA OrderInvAlways == Spec => []OrderInv
<1>1. Init => OrderInv
  BY InitCursorInv DEF OrderInv, Init, ReadInOrder
<1> QED
  BY <1>1, NextOrderInv, PTL DEF Spec

LEMMA OrderedIsOnce == OrderInv /\ forward => ReadOnce
<1> SUFFICES ASSUME OrderInv, forward, NEW p \in Places, NEW q \in Places,
                    pages[p[1]][p[2]] = pages[q[1]][q[2]]
             PROVE  p = q
  BY DEF ReadOnce
<1>1. CursorInv /\ RowsTyped /\ listing \in Listings /\ ReadInOrder
  BY TypedRows DEF OrderInv, CursorInv
<1>2. pages \in Seq(Seq(Ids))
  BY <1>1 DEF CursorInv, TypeOK
<1>3. PICK n1 \in DOMAIN pages : \E m \in DOMAIN pages[n1] : p = <<n1, m>>
  BY DEF Places
<1>4. PICK m1 \in DOMAIN pages[n1] : p = <<n1, m1>>
  BY <1>3
<1>5. PICK n2 \in DOMAIN pages : \E m \in DOMAIN pages[n2] : q = <<n2, m>>
  BY DEF Places
<1>6. PICK m2 \in DOMAIN pages[n2] : q = <<n2, m2>>
  BY <1>5
<1>7. n1 \in Nat /\ n2 \in Nat /\ m1 \in Nat /\ m2 \in Nat
  BY <1>2
<1>8. pages[n1][m1] = pages[n2][m2] /\ pages[n1][m1] \in DOMAIN rows
  BY <1>1, <1>4, <1>6, PageRows
<1>9. ~ Precedes(listing, pages[n1][m1], pages[n2][m2])
      /\ ~ Precedes(listing, pages[n2][m2], pages[n1][m1])
  BY <1>1, <1>8, OrderFacts
<1>10. ~ (n1 < n2 \/ (n1 = n2 /\ m1 < m2)) /\ ~ (n2 < n1 \/ (n2 = n1 /\ m2 < m1))
  BY <1>1, <1>9 DEF ReadInOrder
<1> QED
  BY <1>7, <1>10, <1>4, <1>6

(***************************************************************************)
(* No row is read twice by a client that goes on, whatever the listing: a  *)
(* page begins strictly after the cursor, and the sort is by the same keys.*)
(***************************************************************************)
THEOREM NoRowTwice == Spec => [](forward => ReadOnce)
<1>1. OrderInv => (forward => ReadOnce)
  BY OrderedIsOnce
<1> QED
  BY <1>1, OrderInvAlways, PTL

(***************************************************************************)
(* A client that goes on, through a listing whose keys tell all rows       *)
(* apart, has read a row that was there at its first page or will: it is   *)
(* after the cursor.  The cursor may drop the filter, which only adds rows.*)
(***************************************************************************)
SkipInv == CursorInv /\ (forward => NoneSkipped)

LEMMA FilterFacts ==
  ASSUME RowsTyped, listing \in Listings, NEW i \in Visible, rows[i].vehicle \in listing.only
  PROVE  rows[i].vehicle \in Filter
<1>1. rows[i].vehicle \in Devices
  BY RowFacts DEF Visible
<1> QED
  BY <1>1 DEF Filter

LEMMA NextSkipInv ==
  ASSUME \A l \in Listings : Total(l)
  PROVE  SkipInv /\ [Next]_vars => SkipInv'
<1> SUFFICES ASSUME SkipInv, [Next]_vars, forward', Started', ~ listing'.latest,
                    NEW i \in started', rows'[i].vehicle \in listing'.only
             PROVE  \/ i \in Read'
                    \/ cursor'.next # 0 /\ Follows(listing, i, cursor.next)'
  BY NextCursorInv DEF SkipInv, NoneSkipped
<1>1. CursorInv /\ RowsTyped /\ listing \in Listings /\ KeysUnique /\ Total(listing)
  BY TypedRows DEF SkipInv, CursorInv
<1>2. CASE Writer
  <2>1. /\ UNCHANGED <<listing, started, pages, cursor, forward>>
        /\ \A j \in DOMAIN rows : rows'[j].ts = rows[j].ts /\ rows'[j].vehicle = rows[j].vehicle
    BY <1>1, <1>2, WriterFacts DEF reader
  <2>2. Started /\ forward /\ i \in Visible /\ i \in DOMAIN rows
    BY <1>1, <2>1 DEF Started, CursorInv, StartedVisible, Visible
  <2>3. i \in Read \/ (cursor.next # 0 /\ Follows(listing, i, cursor.next))
    BY <2>1, <2>2 DEF SkipInv, NoneSkipped
  <2>4. Read' = Read
    BY <2>1 DEF Read
  <2>5. cursor.next # 0 => (Follows(listing, i, cursor.next)' <=> Follows(listing, i, cursor.next))
    <3> SUFFICES ASSUME cursor.next # 0
                 PROVE  Follows(listing, i, cursor.next)' <=> Follows(listing, i, cursor.next)
      OBVIOUS
    <3>1. cursor.next \in DOMAIN rows
      BY <1>1, CursorRows
    <3> QED
      BY <2>1, <2>2, <3>1 DEF Follows, Ascends
  <2> QED
    BY <2>1, <2>3, <2>4, <2>5
<1>3. CASE FirstPage(listing)
  <2> DEFINE read == PageAfter(listing, listing.only, 0)
             page == Page(listing, read, "first")
  <2>1. /\ UNCHANGED <<rows, listing>> /\ started' = Visible
        /\ DOMAIN pages' = 1 .. 1 /\ pages'[1] = page
        /\ cursor' = [next |-> NextCursor(listing, read, "first"),
                      prev |-> PrevCursor(listing, read, "first")]
    BY <1>1, <1>3, FirstPageFacts DEF Reads
  <2>2. i \in After(listing, listing.only, 0)
    BY <2>1 DEF After, Matching
  <2>3. \/ \E m \in DOMAIN page : page[m] = i
        \/ cursor'.next # 0 /\ Follows(listing, i, cursor'.next)
    BY <1>1, <2>1, <2>2, PageCovers
  <2>4. (\E m \in DOMAIN page : page[m] = i) => i \in Read'
    BY <2>1 DEF Read, ToSet
  <2>5. Follows(listing, i, cursor'.next) => Follows(listing, i, cursor.next)'
    BY <2>1 DEF Follows, Ascends
  <2> QED
    BY <2>3, <2>4, <2>5
<1>4. CASE NextPage
  <2> DEFINE k == Len(pages)
             read == PageAfter(listing, Filter, cursor.next)
             page == Page(listing, read, "after")
  <2>1. /\ UNCHANGED <<rows, listing, started, forward>> /\ cursor.next # 0 /\ k \in Nat
        /\ DOMAIN pages = 1 .. k /\ DOMAIN pages' = 1 .. k + 1
        /\ \A n \in 1 .. k : pages'[n] = pages[n]
        /\ pages'[k + 1] = page
        /\ cursor' = [next |-> NextCursor(listing, read, "after"),
                      prev |-> PrevCursor(listing, read, "after")]
    BY <1>1, <1>4, NextPageFacts DEF Reads
  <2>2. i \in Visible /\ Started
    BY <1>1, <2>1 DEF Started, CursorInv, StartedVisible
  <2>3. i \in Read \/ Follows(listing, i, cursor.next)
    BY <2>1, <2>2 DEF SkipInv, NoneSkipped
  <2>4. i \in Read => i \in Read'
    <3> SUFFICES ASSUME NEW n \in DOMAIN pages, i \in ToSet(pages[n]) PROVE i \in Read'
      BY DEF Read
    <3>1. n \in DOMAIN pages' /\ pages'[n] = pages[n]
      BY <2>1
    <3> QED
      BY <3>1 DEF Read
  <2>5. CASE Follows(listing, i, cursor.next)
    <3>1. i \in After(listing, Filter, cursor.next)
      BY <1>1, <2>1, <2>2, <2>5, FilterFacts DEF After, Matching
    <3>2. \/ \E m \in DOMAIN page : page[m] = i
          \/ cursor'.next # 0 /\ Follows(listing, i, cursor'.next)
      BY <1>1, <2>1, <3>1, PageCovers
    <3>3. (\E m \in DOMAIN page : page[m] = i) => i \in Read'
      <4>1. k + 1 \in DOMAIN pages' /\ pages'[k + 1] = page
        BY <2>1
      <4> QED
        BY <4>1 DEF Read, ToSet
    <3>4. Follows(listing, i, cursor'.next) => Follows(listing, i, cursor.next)'
      BY <2>1 DEF Follows, Ascends
    <3> QED
      BY <3>2, <3>3, <3>4
  <2> QED
    BY <2>3, <2>4, <2>5
<1>5. CASE PreviousPage
  BY <1>1, <1>5, PreviousPageFacts
<1>6. CASE UNCHANGED vars
  BY <1>6 DEF SkipInv, NoneSkipped, Started, Read, vars, reader, Follows, Ascends
<1> QED
  BY <1>2, <1>3, <1>4, <1>5, <1>6 DEF Next

(***************************************************************************)
(* Whatever is written between two pages, and in whatever order the rows   *)
(* commit, a client that goes on through a listing by id, or by a time and *)
(* the id, reads no row twice and skips none that was there.               *)
(***************************************************************************)
THEOREM RowsAreReadOnce ==
  ASSUME \A l \in Listings : Total(l)
  PROVE  Spec => []RowsReadOnce
<1>1. Init => SkipInv
  BY InitCursorInv DEF SkipInv, NoneSkipped, Init, Started
<1>2. SkipInv /\ [Next]_vars => SkipInv'
  BY NextSkipInv
<1>3. SkipInv /\ (forward => ReadOnce) => RowsReadOnce
  BY DEF SkipInv, RowsReadOnce
<1> QED
  BY <1>1, <1>2, <1>3, NoRowTwice, PTL DEF Spec

(***************************************************************************)
(* The latest events, oldest first.  A vehicle whose row was displaced has *)
(* a later one, which is after the cursor if the older was.                *)
(***************************************************************************)
OldestFirst(l) == l.column = "timestamp" /\ l.tie /\ ~ l.desc

LEMMA OldestFirstFacts ==
  ASSUME RowsTyped, NEW l \in Listings, OldestFirst(l)
  PROVE  /\ Total(l)
         /\ \A i, j \in DOMAIN rows :
              /\ Precedes(l, i, j) => rows[i].ts <= rows[j].ts
              /\ rows[i].ts < rows[j].ts => Follows(l, j, i)
         /\ \A i, j, c \in DOMAIN rows :
              rows[i].ts < rows[j].ts /\ Follows(l, i, c) => Follows(l, j, c)
<1>1. \A i \in DOMAIN rows : rows[i].ts \in Nat /\ i \in Nat
  BY RowFacts
<1> QED
  BY <1>1 DEF OldestFirst, Total, Precedes, Follows, Ascends

(* A vehicle with a visible row has a latest one: the last of its rows in  *)
(* the order of the listing.                                               *)
LEMMA LatestExists ==
  ASSUME RowsTyped, NEW l \in Listings, OldestFirst(l), NEW i \in Visible
  PROVE  \E j \in Visible : rows[j].vehicle = rows[i].vehicle /\ IsLatest(j)
<1> DEFINE S == {j \in Visible : rows[j].vehicle = rows[i].vehicle}
           n == Cardinality(S)
           last == Sorted(l, S)[n]
<1>1. S \in SUBSET DOMAIN rows /\ i \in S
  BY DEF Visible
<1>2. /\ n \in Nat
      /\ \A m \in 1 .. n : Sorted(l, S)[m] \in S /\ Rank(l, S, Sorted(l, S)[m]) = m - 1
  BY <1>1, SortedFacts
<1>3. \A j \in S : Rank(l, S, j) \in 0 .. n - 1
  BY <1>1, RankFacts
<1>4. n \in 1 .. n
  <2>1. Rank(l, S, i) \in 0 .. n - 1
    BY <1>1, <1>3
  <2> HIDE DEF n, S
  <2> QED
    BY <1>2, <2>1
<1>5. last \in S /\ Rank(l, S, last) = n - 1
  BY <1>2, <1>4
<1> HIDE DEF last, n
<1>6. ASSUME NEW j \in S PROVE rows[j].ts <= rows[last].ts
  <2>1. Rank(l, S, j) \in Nat /\ Rank(l, S, j) <= Rank(l, S, last)
    BY <1>2, <1>3, <1>5
  <2>2. Rank(l, S, j) = Rank(l, S, last) => j = last
    <3>1. \A a, b \in S : Rank(l, S, a) = Rank(l, S, b) => a = b
      BY <1>1, RankFacts
    <3> QED
      BY <1>5, <3>1
  <2>3. Rank(l, S, j) < Rank(l, S, last) => Precedes(l, j, last)
    BY <1>1, <1>5, RankFacts
  <2>4. j \in DOMAIN rows /\ last \in DOMAIN rows
    BY <1>1, <1>5
  <2>5. CASE j = last
    BY <2>4, <2>5, RowFacts
  <2>6. CASE Precedes(l, j, last)
    BY <2>4, <2>6, OldestFirstFacts
  <2>7. Rank(l, S, last) \in Nat
    BY <1>3, <1>5
  <2> QED
    BY <2>1, <2>2, <2>3, <2>5, <2>6, <2>7
<1>7. last \in Visible /\ rows[last].vehicle = rows[i].vehicle
  BY <1>5
<1>8. IsLatest(last)
  BY <1>6, <1>7 DEF IsLatest
<1> QED
  BY <1>7, <1>8

(* The vehicle has been read, or its latest row is after the cursor.       *)
VehicleRead(v) == \E j \in Read : rows[j].vehicle = v

VehicleAhead(v) ==
  \E j \in Visible :
    /\ rows[j].vehicle = v /\ IsLatest(j)
    /\ cursor.next # 0 /\ Follows(listing, j, cursor.next)

VehiclesCovered ==
  Started /\ listing.latest =>
    \A i \in started :
      rows[i].vehicle \in listing.only =>
        VehicleRead(rows[i].vehicle) \/ VehicleAhead(rows[i].vehicle)

VehicleInv == CursorInv /\ (forward => VehiclesCovered)

(* A writer makes at most one row visible.                                 *)
LEMMA OneCommits ==
  ASSUME RowsTyped, Writer
  PROVE  \E x : Visible' \subseteq Visible \cup {x}
<1>1. ASSUME NEW v \in Devices, NEW t \in 0 .. MaxTime, Insert(v, t)
      PROVE  Visible' \subseteq Visible \cup {0}
  <2> DEFINE new == [vehicle |-> v, ts |-> t, visible |-> FALSE]
  <2>1. new \in Row /\ new.visible = FALSE
    BY DEF Row
  <2> HIDE DEF new
  <2>2. rows \in Seq(Row) /\ rows' = Append(rows, new)
    BY <1>1 DEF Insert, RowsTyped, new
  <2>3. \A i \in DOMAIN rows' :
          (i \in DOMAIN rows /\ rows'[i] = rows[i]) \/ rows'[i] = new
    BY <2>1, <2>2
  <2> QED
    BY <2>1, <2>3 DEF Visible
<1>2. ASSUME NEW i \in DOMAIN rows, Commit(i)
      PROVE  Visible' \subseteq Visible \cup {i}
  <2>1. rows' = [rows EXCEPT ![i].visible = TRUE]
    BY <1>2 DEF Commit
  <2>2. DOMAIN rows' = DOMAIN rows /\ \A k \in DOMAIN rows : k # i => rows'[k] = rows[k]
    BY <2>1
  <2> QED
    BY <2>2 DEF Visible
<1> QED
  BY <1>1, <1>2 DEF Writer

(* A vehicle that is ahead of the cursor stays ahead of it when rows are   *)
(* written: its new row is later than the one it displaces.                *)
LEMMA StaysAhead ==
  ASSUME CursorInv, OldestFirst(listing), Writer, NEW v, VehicleAhead(v)
  PROVE  VehicleAhead(v)'
<1>1. RowsTyped /\ listing \in Listings /\ KeysUnique
  BY TypedRows DEF CursorInv
<1>2. /\ RowsTyped' /\ KeysUnique' /\ UNCHANGED <<listing, cursor>>
      /\ Visible \subseteq Visible' /\ DOMAIN rows \subseteq DOMAIN rows'
      /\ \A j \in DOMAIN rows : rows'[j].ts = rows[j].ts /\ rows'[j].vehicle = rows[j].vehicle
  BY <1>1, WriterFacts DEF reader
<1>3. PICK x : Visible' \subseteq Visible \cup {x}
  BY <1>1, OneCommits
<1>4. PICK j \in Visible :
        /\ rows[j].vehicle = v /\ IsLatest(j)
        /\ cursor.next # 0 /\ Follows(listing, j, cursor.next)
  BY DEF VehicleAhead
<1> DEFINE c == cursor.next
<1>5. /\ j \in DOMAIN rows /\ c \in DOMAIN rows /\ j \in Visible'
      /\ rows[j].ts \in Nat /\ rows[c].ts \in Nat
      /\ rows'[j].ts = rows[j].ts /\ rows'[c].ts = rows[c].ts /\ rows'[j].vehicle = v
  BY <1>1, <1>2, <1>4, CursorRows, RowFacts DEF Visible
<1>6. \A k \in Visible : rows'[k].vehicle = v => rows'[k].ts <= rows'[j].ts
  BY <1>2, <1>4, <1>5 DEF IsLatest, Visible
<1>7. \A k \in Visible' : rows'[k].ts \in Nat
  <2>1. \A k \in DOMAIN rows' : rows'[k] \in Row
    BY <1>2 DEF RowsTyped
  <2>2. \A k \in DOMAIN rows' : rows'[k].ts \in 0 .. MaxTime
    BY <2>1 DEF Row
  <2> QED
    BY <2>2, ConstantsOK DEF Visible
<1>8. CASE x \in Visible' /\ rows'[x].vehicle = v /\ rows'[j].ts < rows'[x].ts
  <2>1. IsLatest(x)'
    BY <1>3, <1>5, <1>6, <1>7, <1>8 DEF IsLatest
  <2>2. Follows(listing, x, c)'
    BY <1>2, <1>4, <1>5, <1>7, <1>8 DEF OldestFirst, Follows, Ascends
  <2> QED
    BY <1>2, <1>4, <1>8, <2>1, <2>2 DEF VehicleAhead
<1>9. CASE ~ (x \in Visible' /\ rows'[x].vehicle = v /\ rows'[j].ts < rows'[x].ts)
  <2>1. IsLatest(j)'
    BY <1>3, <1>5, <1>6, <1>7, <1>9 DEF IsLatest
  <2>2. Follows(listing, j, c)'
    BY <1>2, <1>4, <1>5 DEF OldestFirst, Follows, Ascends
  <2> QED
    BY <1>2, <1>4, <1>5, <2>1, <2>2 DEF VehicleAhead
<1> QED
  BY <1>8, <1>9

LEMMA NextVehicleInv ==
  ASSUME \A l \in Listings : l.latest => OldestFirst(l)
  PROVE  VehicleInv /\ [Next]_vars => VehicleInv'
<1> SUFFICES ASSUME VehicleInv, [Next]_vars, forward', Started', listing'.latest,
                    NEW i \in started', rows'[i].vehicle \in listing'.only
             PROVE  VehicleRead(rows[i].vehicle)' \/ VehicleAhead(rows[i].vehicle)'
  BY NextCursorInv DEF VehicleInv, VehiclesCovered
<1>1. CursorInv /\ RowsTyped /\ listing \in Listings /\ KeysUnique
  BY TypedRows DEF VehicleInv, CursorInv
<1>2. OldestFirst(listing) /\ listing' = listing
  <2>1. listing' = listing
    BY <1>1, WriterFacts DEF Next, FirstPage, NextPage, PreviousPage, vars, reader
  <2> QED
    BY <1>1, <2>1
<1>3. CASE Writer
  <2>1. /\ UNCHANGED <<listing, started, pages, cursor, forward>>
        /\ \A j \in DOMAIN rows : rows'[j].vehicle = rows[j].vehicle
    BY <1>1, <1>3, WriterFacts DEF reader
  <2>2. Started /\ forward /\ i \in Visible /\ i \in DOMAIN rows
    BY <1>1, <2>1 DEF Started, CursorInv, StartedVisible, Visible
  <2>3. PICK v : v = rows[i].vehicle /\ v = rows'[i].vehicle
    BY <2>1, <2>2
  <2>4. VehicleRead(v) \/ VehicleAhead(v)
    BY <2>1, <2>2, <2>3 DEF VehicleInv, VehiclesCovered
  <2>5. VehicleRead(v) => VehicleRead(v)'
    <3>1. \A j \in Read : j \in Read' /\ rows'[j].vehicle = rows[j].vehicle
      <4> SUFFICES ASSUME NEW n \in DOMAIN pages, NEW m \in DOMAIN pages[n]
                   PROVE  rows'[pages[n][m]].vehicle = rows[pages[n][m]].vehicle
        BY <2>1 DEF Read, ToSet
      <4> QED
        BY <1>1, <2>1, PageRows
    <3> QED
      BY <2>3, <3>1 DEF VehicleRead
  <2>6. VehicleAhead(v) => VehicleAhead(v)'
    BY <1>1, <1>2, <1>3, StaysAhead
  <2> QED
    BY <2>3, <2>4, <2>5, <2>6 DEF VehicleRead, VehicleAhead
<1>4. CASE UNCHANGED vars
  BY <1>4 DEF VehicleInv, VehiclesCovered, VehicleRead, VehicleAhead, Started, Read, vars, reader,
              Visible, IsLatest, Follows, Ascends
<1>5. ASSUME NEW filter, NEW c, NEW dir, dir # "before", UNCHANGED <<rows, listing>>,
             NEW j \in After(listing, filter, c), rows[j].vehicle = rows[i].vehicle,
             IsLatest(j),
             ToSet(Page(listing, PageAfter(listing, filter, c), dir)) \subseteq Read',
             Reads(listing, PageAfter(listing, filter, c), dir)
      PROVE  VehicleRead(rows[i].vehicle)' \/ VehicleAhead(rows[i].vehicle)'
  <2> DEFINE read == PageAfter(listing, filter, c)
             page == Page(listing, read, dir)
  <2>1. \/ \E m \in DOMAIN page : page[m] = j
        \/ NextCursor(listing, read, dir) # 0
           /\ Follows(listing, j, NextCursor(listing, read, dir))
    BY <1>1, <1>2, <1>5, PageCovers, OldestFirstFacts
  <2>2. cursor'.next = NextCursor(listing, read, dir)
    BY <1>5 DEF Reads
  <2>3. (\E m \in DOMAIN page : page[m] = j) => j \in Read'
    BY <1>5 DEF ToSet
  <2>4. j \in Visible' /\ IsLatest(j)'
    BY <1>5, QueriedRows DEF Visible, IsLatest
  <2>5. Follows(listing, j, cursor'.next) => Follows(listing, j, cursor.next)'
    BY <1>5 DEF Follows, Ascends
  <2> HIDE DEF read, page
  <2> QED
    BY <1>5, <2>1, <2>2, <2>3, <2>4, <2>5 DEF VehicleRead, VehicleAhead
<1>6. CASE FirstPage(listing)
  <2> DEFINE read == PageAfter(listing, listing.only, 0)
             page == Page(listing, read, "first")
  <2>1. /\ UNCHANGED <<rows, listing>> /\ started' = Visible
        /\ DOMAIN pages' = 1 .. 1 /\ pages'[1] = page /\ Reads(listing, read, "first")
    BY <1>1, <1>6, FirstPageFacts
  <2>2. PICK j \in Visible : rows[j].vehicle = rows[i].vehicle /\ IsLatest(j)
    BY <1>1, <1>2, <2>1, LatestExists
  <2>3. j \in After(listing, listing.only, 0)
    BY <1>1, <2>1, <2>2 DEF After, Matching
  <2>4. ToSet(page) \subseteq Read'
    BY <2>1 DEF Read
  <2> QED
    BY <1>5, <2>1, <2>2, <2>3, <2>4
<1>7. CASE NextPage
  <2> DEFINE k == Len(pages)
             read == PageAfter(listing, Filter, cursor.next)
             page == Page(listing, read, "after")
             v == rows[i].vehicle
  <2>1. /\ UNCHANGED <<rows, listing, started, forward>> /\ cursor.next # 0 /\ k \in Nat
        /\ DOMAIN pages = 1 .. k /\ DOMAIN pages' = 1 .. k + 1
        /\ \A n \in 1 .. k : pages'[n] = pages[n]
        /\ pages'[k + 1] = page /\ Reads(listing, read, "after")
    BY <1>1, <1>7, NextPageFacts
  <2>2. i \in Visible /\ Started
    BY <1>1, <2>1 DEF Started, CursorInv, StartedVisible
  <2>3. VehicleRead(v) \/ VehicleAhead(v)
    BY <2>1, <2>2 DEF VehicleInv, VehiclesCovered
  <2>4. VehicleRead(v) => VehicleRead(v)'
    <3>1. Read \subseteq Read'
      <4> SUFFICES ASSUME NEW n \in DOMAIN pages, NEW j \in ToSet(pages[n]) PROVE j \in Read'
        BY DEF Read
      <4>1. n \in DOMAIN pages' /\ pages'[n] = pages[n]
        BY <2>1
      <4> QED
        BY <4>1 DEF Read
    <3> QED
      BY <2>1, <3>1 DEF VehicleRead
  <2>5. CASE VehicleAhead(v)
    <3>1. PICK j \in Visible :
            rows[j].vehicle = v /\ IsLatest(j) /\ Follows(listing, j, cursor.next)
      BY <2>5 DEF VehicleAhead
    <3>2. j \in After(listing, Filter, cursor.next)
      BY <1>1, <2>1, <3>1, FilterFacts DEF After, Matching
    <3>3. ToSet(page) \subseteq Read'
      <4>1. k + 1 \in DOMAIN pages' /\ pages'[k + 1] = page
        BY <2>1
      <4> QED
        BY <4>1 DEF Read
    <3> QED
      BY <1>5, <2>1, <3>1, <3>2, <3>3
  <2> QED
    BY <2>1, <2>3, <2>4, <2>5 DEF VehicleRead, VehicleAhead
<1>8. CASE PreviousPage
  BY <1>1, <1>8, PreviousPageFacts
<1> QED
  BY <1>3, <1>4, <1>6, <1>7, <1>8 DEF Next

(***************************************************************************)
(* The compliance engine's listing leaves no vehicle out: each vehicle it  *)
(* asked for that had an event at the first page is on one of its pages,   *)
(* though events that arrive in between displace older ones.               *)
(***************************************************************************)
THEOREM NoVehicleLeftOut ==
  ASSUME \A l \in Listings : l.latest => OldestFirst(l)
  PROVE  Spec => []VehiclesRead
<1>1. Init => VehicleInv
  BY InitCursorInv DEF VehicleInv, VehiclesCovered, Init, Started
<1>2. VehicleInv /\ [Next]_vars => VehicleInv'
  BY NextVehicleInv
<1>3. VehicleInv => VehiclesRead
  BY DEF VehicleInv, VehiclesCovered, VehicleRead, VehicleAhead, VehiclesRead
<1> QED
  BY <1>1, <1>2, <1>3, PTL DEF Spec
(***************************************************************************)
(* While nothing is written: each page has the ranks, among the rows of    *)
(* the listing, that its number says.                                      *)
(***************************************************************************)

(* The cursor splits a set of rows: the ones before it keep their ranks,   *)
(* and the ones after it are ranked behind it.                             *)
LEMMA SplitFacts ==
  ASSUME RowsTyped, NEW l \in Listings, Total(l),
         NEW M \in SUBSET DOMAIN rows, NEW c \in M
  PROVE  LET Q == {i \in M : Follows(l, i, c)}
             B == {i \in M : Follows(l, c, i)}
         IN  /\ Cardinality(M) = Rank(l, M, c) + 1 + Cardinality(Q)
             /\ \A i \in Q : Rank(l, M, i) = Rank(l, M, c) + 1 + Rank(l, Q, i)
             /\ Cardinality(B) = Rank(l, M, c)
             /\ \A i \in B : Rank(l, M, i) = Rank(l, B, i)
<1> DEFINE Q == {i \in M : Follows(l, i, c)}
           B == {i \in M : Follows(l, c, i)}
           First(S, i) == {j \in S : Precedes(l, j, i)}
<1>1. \A i \in M : /\ Follows(l, i, c) <=> Precedes(l, c, i)
                   /\ Follows(l, c, i) <=> Precedes(l, i, c)
  BY TotalFacts
<1>2. \A i \in M : /\ ~ (Precedes(l, i, c) /\ Precedes(l, c, i))
                   /\ ~ Precedes(l, c, c)
                   /\ Precedes(l, i, c) \/ Precedes(l, c, i) \/ i = c
  BY OrderFacts
<1>3. \A i, j \in M : Precedes(l, j, i) /\ Precedes(l, i, c) => Precedes(l, j, c)
  BY OrderFacts
<1>4. \A i, j \in M : Precedes(l, j, c) /\ Precedes(l, c, i) => Precedes(l, j, i)
  BY OrderFacts
<1>5. /\ Q = {i \in M : Precedes(l, c, i)} /\ B = First(M, c)
      /\ Q \in SUBSET M /\ B \in SUBSET M /\ M \in SUBSET DOMAIN rows
  BY <1>1
<1>6. \A S : \A i : Rank(l, S, i) = Cardinality(First(S, i))
  BY DEF Rank
<1>7. ASSUME NEW X \in SUBSET Q
      PROVE  Cardinality((B \cup {c}) \cup X) = Rank(l, M, c) + 1 + Cardinality(X)
  <2>1. c \notin B /\ (B \cup {c}) \cap X = {}
    BY <1>2, <1>5
  <2>2. IsFiniteSet(B) /\ IsFiniteSet(X) /\ Cardinality(B) \in Nat /\ Cardinality(X) \in Nat
    BY <1>5, FiniteRows
  <2>3. Cardinality(B) = Rank(l, M, c)
    BY <1>5, <1>6
  <2> HIDE DEF B, Q
  <2>4. IsFiniteSet(B \cup {c}) /\ Cardinality(B \cup {c}) = Cardinality(B) + 1
    BY <2>1, <2>2, FS_AddElement
  <2>5. Cardinality((B \cup {c}) \cup X) = Cardinality(B \cup {c}) + Cardinality(X) - Cardinality({})
    BY <2>1, <2>2, <2>4, FS_Union
  <2>6. Cardinality({}) = 0
    BY FS_EmptySet
  <2> QED
    BY <2>2, <2>3, <2>4, <2>5, <2>6
<1>8. Cardinality(M) = Rank(l, M, c) + 1 + Cardinality(Q)
  <2>1. M = (B \cup {c}) \cup Q
    BY <1>2, <1>5
  <2> QED
    BY <1>7, <2>1
<1>9. ASSUME NEW i \in Q PROVE Rank(l, M, i) = Rank(l, M, c) + 1 + Rank(l, Q, i)
  <2>1. First(M, i) = (B \cup {c}) \cup First(Q, i)
    BY <1>2, <1>4, <1>5
  <2>2. First(Q, i) \in SUBSET Q
    OBVIOUS
  <2> HIDE DEF First, Q, B
  <2> QED
    BY <1>6, <1>7, <2>1, <2>2
<1>10. Cardinality(B) = Rank(l, M, c)
  BY <1>5, <1>6
<1>11. ASSUME NEW i \in B PROVE Rank(l, M, i) = Rank(l, B, i)
  <2>1. First(M, i) = First(B, i)
    BY <1>3, <1>5
  <2> QED
    BY <1>6, <2>1
<1> QED
  BY <1>8, <1>9, <1>10, <1>11

(* The rows of the listing, and how many of them are before the nth page.  *)
Whole == Matching(listing, listing.only)
Offset(n) == (n - 1) * listing.limit

PageIsExact(n) ==
  /\ Len(pages[n]) = IF Cardinality(Whole) <= Offset(n) THEN 0
                     ELSE IF Cardinality(Whole) - Offset(n) < listing.limit
                          THEN Cardinality(Whole) - Offset(n) ELSE listing.limit
  /\ \A m \in DOMAIN pages[n] :
       pages[n][m] \in Whole /\ Rank(listing, Whole, pages[n][m]) = Offset(n) + m - 1

PagesExact == Started /\ Visible = started => \A n \in DOMAIN pages : PageIsExact(n)

QuietInv == CursorInv /\ PagesExact

(* The cursor asks for what the listing asked for.                         *)
KeepsFilter(l) == l.keeps \/ l.only = Devices

LEMMA OffsetFacts ==
  ASSUME CursorInv, NEW n \in Nat, n > 0
  PROVE  /\ Offset(n) \in Nat /\ Offset(n + 1) = Offset(n) + listing.limit /\ Offset(1) = 0
         /\ n * listing.limit = Offset(n + 1) /\ (n > 1 => Offset(n) = Offset(n - 1) + listing.limit)
         /\ listing.limit \in Nat /\ listing.limit > 0
<1>1. listing.limit \in Nat /\ listing.limit > 0
  BY TypedRows, ListingFacts DEF CursorInv
<1> DEFINE L == listing.limit
<1> HIDE DEF L
<1>2. L \in Nat
  BY <1>1 DEF L
<1>3. (n - 1) * L \in Nat /\ n * L \in Nat
  BY <1>2
<1>4. n * L = (n - 1) * L + L
  BY <1>2
<1>5. (n - 1) * L = (n - 2) * L + L /\ (1 - 1) * L = 0
  BY <1>2
<1>6. n + 1 - 1 = n /\ n - 1 - 1 = n - 2
  OBVIOUS
<1> QED
  BY <1>1, <1>3, <1>4, <1>5, <1>6 DEF L, Offset

LEMMA WholeFacts ==
  ASSUME CursorInv
  PROVE  /\ RowsTyped /\ listing \in Listings
         /\ Whole \in SUBSET DOMAIN rows /\ Whole \subseteq Visible
         /\ IsFiniteSet(Whole) /\ Cardinality(Whole) \in Nat
         /\ KeepsFilter(listing) => Matching(listing, Filter) = Whole
<1>1. RowsTyped /\ listing \in Listings
  BY TypedRows DEF CursorInv
<1>2. Whole \in SUBSET DOMAIN rows /\ Whole \subseteq Visible
  BY DEF Whole, Matching, Visible
<1>3. IsFiniteSet(Whole) /\ Cardinality(Whole) \in Nat
  BY <1>1, <1>2, FiniteRows
<1>4. KeepsFilter(listing) => Filter = listing.only
  BY DEF KeepsFilter, Filter
<1> QED
  BY <1>1, <1>2, <1>3, <1>4 DEF Whole

(* A writer that makes no row visible leaves the listing as it is.         *)
LEMMA QuietWriter ==
  ASSUME CursorInv, Writer, Visible' = Visible
  PROVE  /\ UNCHANGED reader /\ Whole' = Whole
         /\ \A i \in Whole : Rank(listing, Whole, i)' = Rank(listing, Whole, i)
<1>1. RowsTyped /\ KeysUnique /\ Whole \subseteq Visible
  BY WholeFacts DEF CursorInv
<1>2. /\ UNCHANGED reader /\ UNCHANGED listing
      /\ \A i \in DOMAIN rows : rows'[i].vehicle = rows[i].vehicle /\ rows'[i].ts = rows[i].ts
  BY <1>1, WriterFacts DEF reader
<1>3. \A i \in Visible : i \in DOMAIN rows
  BY DEF Visible
<1>4. \A i \in Visible : IsLatest(i)' <=> IsLatest(i)
  BY <1>2, <1>3 DEF IsLatest
<1>5. Whole' = Whole
  BY <1>2, <1>3, <1>4 DEF Whole, Matching
<1>6. \A i, j \in Whole : Precedes(listing, j, i)' <=> Precedes(listing, j, i)
  BY <1>1, <1>2, <1>3, SameOrder
<1>7. \A i \in Whole : {j \in Whole : Precedes(listing, j, i)'} = {j \in Whole : Precedes(listing, j, i)}
  BY <1>6
<1>8. \A i \in Whole : Rank(listing, Whole, i)' = Rank(listing, Whole, i)
  BY <1>5, <1>7 DEF Rank
<1> QED
  BY <1>2, <1>5, <1>8

(* The page after the last one: behind a full page the next ranks, behind  *)
(* a shorter one nothing.                                                  *)
LEMMA NextPageExact ==
  ASSUME CursorInv, PagesExact, KeepsFilter(listing), Total(listing), NextPage,
         Visible' = started'
  PROVE  PagesExact'
<1> DEFINE k == Len(pages)
           c == cursor.next
           read == PageAfter(listing, Filter, c)
           page == Page(listing, read, "after")
           Q == After(listing, Filter, c)
           N == Cardinality(Whole)
           R(i) == Rank(listing, Whole, i)
           S(i) == Rank(listing, Q, i)
           L == listing.limit
<1>1. /\ UNCHANGED <<rows, listing, started>> /\ Started /\ c # 0 /\ k \in Nat /\ k > 0
      /\ DOMAIN pages = 1 .. k /\ DOMAIN pages' = 1 .. k + 1
      /\ \A n \in 1 .. k : pages'[n] = pages[n]
      /\ pages'[k + 1] = page
  BY NextPageFacts
<1>2. /\ RowsTyped /\ listing \in Listings /\ Whole \in SUBSET DOMAIN rows
      /\ N \in Nat /\ Matching(listing, Filter) = Whole
  BY WholeFacts
<1>3. /\ Visible' = Visible /\ Whole' = Whole
      /\ \A i \in Whole : Rank(listing, Whole, i)' = R(i)
      /\ \A n : Offset(n)' = Offset(n)
  BY <1>1 DEF Visible, Whole, Matching, IsLatest, Rank, Precedes, Follows, Ascends, Offset
<1>4. \A n \in 1 .. k : PageIsExact(n)
  BY <1>1, <1>3 DEF PagesExact
<1>5. /\ k \in DOMAIN pages /\ Len(pages[k]) \in DOMAIN pages[k] /\ c = pages[k][Len(pages[k])]
  BY <1>1, CursorRows
<1>6. /\ Offset(k) \in Nat /\ Offset(k + 1) = Offset(k) + L /\ L \in Nat /\ L > 0
  BY <1>1, OffsetFacts
<1>7. /\ c \in Whole /\ R(c) = Offset(k) + Len(pages[k]) - 1
      /\ Len(pages[k]) = IF N <= Offset(k) THEN 0
                         ELSE IF N - Offset(k) < L THEN N - Offset(k) ELSE L
  BY <1>1, <1>4, <1>5 DEF PageIsExact
<1>8. Q = {i \in Whole : Follows(listing, i, c)}
  BY <1>1, <1>2 DEF After
<1>9. /\ N = R(c) + 1 + Cardinality(Q)
      /\ \A i \in Q : R(i) = R(c) + 1 + S(i)
  <2> DEFINE T == {i \in Whole : Follows(listing, i, c)}
  <2>1. /\ N = R(c) + 1 + Cardinality(T)
        /\ \A i \in T : R(i) = R(c) + 1 + Rank(listing, T, i)
    BY <1>2, <1>7, SplitFacts
  <2> HIDE DEF T, Q, R, N
  <2> QED
    BY <1>8, <2>1 DEF T
<1>10. /\ Cardinality(Q) \in Nat /\ page \in Seq(Q)
       /\ Len(page) = IF Cardinality(Q) < L THEN Cardinality(Q) ELSE L
       /\ \A m \in 1 .. Len(page) : page[m] \in Q /\ S(page[m]) = m - 1
  BY <1>2, AfterFacts
<1>11. \A i \in Q : i \in Whole
  BY <1>8
<1>12. DOMAIN page = 1 .. Len(page)
  BY <1>10
<1> HIDE DEF page, Q, N, R, S, c, L, k
<1>13. Len(page) = IF N <= Offset(k + 1) THEN 0
                   ELSE IF N - Offset(k + 1) < L THEN N - Offset(k + 1) ELSE L
  <2> DEFINE q == Cardinality(Q)
             o == Offset(k)
             held == Len(pages[k])
  <2> HIDE DEF q, o, held
  <2>1. o \in Nat /\ Offset(k + 1) = o + L /\ L \in Nat /\ L > 0 /\ N \in Nat /\ q \in Nat
    BY <1>2, <1>6, <1>10 DEF q, o
  <2>2. N = (o + held - 1) + 1 + q
    BY <1>7, <1>9 DEF q, o, held
  <2>3. held = IF N <= o THEN 0 ELSE IF N - o < L THEN N - o ELSE L
    BY <1>7 DEF o, held
  <2>4. Len(page) = IF q < L THEN q ELSE L
    BY <1>10 DEF q
  <2> QED
    BY <2>1, <2>2, <2>3, <2>4
<1>14. ASSUME NEW m \in 1 .. Len(page)
       PROVE  page[m] \in Whole /\ R(page[m]) = Offset(k + 1) + m - 1
  <2>1. page[m] \in Q /\ page[m] \in Whole /\ R(page[m]) = R(c) + 1 + (m - 1)
    BY <1>9, <1>10, <1>11
  <2>2. Len(page) \in Nat /\ Len(page) > 0
    BY <1>2, <1>6, <1>13
  <2>3. Len(pages[k]) = L
    BY <1>2, <1>6, <1>7, <1>13, <2>2
  <2> QED
    BY <1>2, <1>6, <1>7, <2>1, <2>3
<1>15. \A n : n = k + 1 => PageIsExact(n)'
  BY <1>1, <1>3, <1>12, <1>13, <1>14 DEF PageIsExact, N, R, L
<1>16. \A n \in 1 .. k : PageIsExact(n)'
  <2> SUFFICES ASSUME NEW n \in 1 .. k PROVE PageIsExact(n)'
    OBVIOUS
  <2>1. PageIsExact(n) /\ pages'[n] = pages[n]
    BY <1>1, <1>4 DEF k
  <2> QED
    BY <1>1, <1>3, <2>1 DEF PageIsExact, R
<1>17. \A n \in DOMAIN pages' : n \in 1 .. k \/ n = k + 1
  BY <1>1 DEF k
<1> QED
  BY <1>15, <1>16, <1>17 DEF PagesExact

(* The page before the last one is full, for the last one has a first row. *)
LEMMA PreviousPageExact ==
  ASSUME CursorInv, PagesExact, KeepsFilter(listing), Total(listing), PreviousPage,
         Visible' = started'
  PROVE  PagesExact'
<1> DEFINE k == Len(pages)
           c == cursor.prev
           read == PageBefore(listing, Filter, c)
           page == Page(listing, read, "before")
           B == Before(listing, Filter, c)
           N == Cardinality(Whole)
           R(i) == Rank(listing, Whole, i)
           S(i) == Rank(listing, B, i)
           L == listing.limit
<1>1. /\ UNCHANGED <<rows, listing, started>> /\ Started /\ c # 0 /\ k \in Nat /\ k > 1
      /\ DOMAIN pages = 1 .. k /\ DOMAIN pages' = 1 .. k - 1
      /\ \A n \in 1 .. k - 2 : pages'[n] = pages[n]
      /\ pages'[k - 1] = page
  BY PreviousPageFacts
<1>2. /\ RowsTyped /\ listing \in Listings /\ Whole \in SUBSET DOMAIN rows
      /\ N \in Nat /\ Matching(listing, Filter) = Whole
  BY WholeFacts
<1>3. /\ Visible' = Visible /\ Whole' = Whole
      /\ \A i \in Whole : Rank(listing, Whole, i)' = R(i)
      /\ \A n : Offset(n)' = Offset(n)
  BY <1>1 DEF Visible, Whole, Matching, IsLatest, Rank, Precedes, Follows, Ascends, Offset
<1>4. \A n \in 1 .. k : PageIsExact(n)
  BY <1>1, <1>3 DEF PagesExact
<1>5. k \in DOMAIN pages /\ 1 \in DOMAIN pages[k] /\ c = pages[k][1]
  BY <1>1, CursorRows
<1>6. /\ Offset(k) \in Nat /\ Offset(k - 1) \in Nat /\ Offset(k) = Offset(k - 1) + L
      /\ L \in Nat /\ L > 0
  <2>1. k - 1 \in Nat /\ k - 1 > 0
    BY <1>1
  <2> QED
    BY <1>1, <2>1, OffsetFacts
<1>7. c \in Whole /\ R(c) = Offset(k)
  <2>1. c \in Whole /\ R(c) = Offset(k) + 1 - 1
    BY <1>1, <1>4, <1>5 DEF PageIsExact
  <2> QED
    BY <1>6, <2>1
<1>8. B = {i \in Whole : Follows(listing, c, i)}
  BY <1>1, <1>2 DEF Before
<1>9. /\ Cardinality(B) = R(c)
      /\ \A i \in B : R(i) = S(i)
  <2> DEFINE T == {i \in Whole : Follows(listing, c, i)}
  <2>1. /\ Cardinality(T) = R(c)
        /\ \A i \in T : R(i) = Rank(listing, T, i)
    BY <1>2, <1>7, SplitFacts
  <2> HIDE DEF T, B, R
  <2> QED
    BY <1>8, <2>1 DEF T
<1>10. /\ Cardinality(B) \in Nat /\ page \in Seq(B)
       /\ Len(page) = IF Cardinality(B) < L THEN Cardinality(B) ELSE L
       /\ \A m \in 1 .. Len(page) :
            page[m] \in B /\ S(page[m]) = Cardinality(B) - Len(page) + m - 1
  BY <1>2, BeforeFacts
<1>11. \A i \in B : i \in Whole
  BY <1>8
<1>12. DOMAIN page = 1 .. Len(page)
  BY <1>10
<1>13. R(c) < N /\ R(c) \in Nat
  BY <1>2, <1>7, RankFacts
<1> HIDE DEF page, B, N, R, S, c, L, k
<1>14. Len(page) = L /\ Cardinality(B) = Offset(k - 1) + L
  BY <1>6, <1>7, <1>9, <1>10
<1>15. Len(page) = IF N <= Offset(k - 1) THEN 0
                   ELSE IF N - Offset(k - 1) < L THEN N - Offset(k - 1) ELSE L
  BY <1>2, <1>6, <1>7, <1>13, <1>14
<1>16. ASSUME NEW m \in 1 .. Len(page)
       PROVE  page[m] \in Whole /\ R(page[m]) = Offset(k - 1) + m - 1
  <2>1. page[m] \in Whole /\ R(page[m]) = Cardinality(B) - Len(page) + m - 1
    BY <1>9, <1>10, <1>11
  <2> QED
    BY <1>6, <1>14, <2>1
<1>17. \A n : n = k - 1 => PageIsExact(n)'
  BY <1>1, <1>3, <1>12, <1>15, <1>16 DEF PageIsExact, N, R, L
<1>18. \A n \in 1 .. k - 2 : PageIsExact(n)'
  <2> SUFFICES ASSUME NEW n \in 1 .. k - 2 PROVE PageIsExact(n)'
    OBVIOUS
  <2>1. n \in 1 .. k
    BY <1>1 DEF k
  <2>2. PageIsExact(n) /\ pages'[n] = pages[n]
    BY <1>1, <1>4, <2>1 DEF k
  <2> QED
    BY <1>1, <1>3, <2>2 DEF PageIsExact, R
<1>19. \A n \in DOMAIN pages' : n \in 1 .. k - 2 \/ n = k - 1
  BY <1>1 DEF k
<1> QED
  BY <1>17, <1>18, <1>19 DEF PagesExact

LEMMA FirstPageExact ==
  ASSUME CursorInv, FirstPage(listing) PROVE PagesExact'
<1> DEFINE read == PageAfter(listing, listing.only, 0)
           page == Page(listing, read, "first")
           Q == After(listing, listing.only, 0)
           N == Cardinality(Whole)
           R(i) == Rank(listing, Whole, i)
           L == listing.limit
<1>1. /\ UNCHANGED <<rows, listing>> /\ DOMAIN pages' = 1 .. 1 /\ pages'[1] = page
  BY FirstPageFacts
<1>2. RowsTyped /\ listing \in Listings /\ N \in Nat
  BY WholeFacts
<1>3. /\ Whole' = Whole /\ \A i \in Whole : Rank(listing, Whole, i)' = R(i)
      /\ Offset(1)' = Offset(1)
  BY <1>1 DEF Visible, Whole, Matching, IsLatest, Rank, Precedes, Follows, Ascends, Offset
<1>4. Q = Whole
  BY DEF After, Whole
<1>5. /\ page \in Seq(Whole)
      /\ Len(page) = IF N < L THEN N ELSE L
      /\ \A m \in 1 .. Len(page) : page[m] \in Whole /\ R(page[m]) = m - 1
  <2>1. /\ page \in Seq(Q)
        /\ Len(page) = IF Cardinality(Q) < L THEN Cardinality(Q) ELSE L
        /\ \A m \in 1 .. Len(page) : page[m] \in Q /\ Rank(listing, Q, page[m]) = m - 1
    BY <1>2, AfterFacts
  <2> HIDE DEF Q, page
  <2> QED
    BY <1>4, <2>1
<1>6. Offset(1) = 0 /\ L \in Nat /\ L > 0
  BY OffsetFacts
<1>7. DOMAIN page = 1 .. Len(page)
  BY <1>5
<1> HIDE DEF page, N, R, L
<1>8. Len(page) = IF N <= 0 THEN 0 ELSE IF N - 0 < L THEN N - 0 ELSE L
  BY <1>2, <1>5, <1>6
<1>9. \A m \in 1 .. Len(page) : page[m] \in Whole /\ R(page[m]) = 0 + m - 1
  BY <1>5
<1>10. PageIsExact(1)'
  BY <1>1, <1>3, <1>6, <1>7, <1>8, <1>9 DEF PageIsExact, N, R, L
<1> QED
  BY <1>1, <1>10 DEF PagesExact

LEMMA NextQuietInv ==
  ASSUME \A l \in Listings : Total(l) /\ KeepsFilter(l)
  PROVE  QuietInv /\ [Next]_vars => QuietInv'
<1> SUFFICES ASSUME QuietInv, [Next]_vars, Started', Visible' = started' PROVE PagesExact'
  BY NextCursorInv DEF QuietInv, PagesExact
<1>1. CursorInv /\ PagesExact /\ RowsTyped /\ KeysUnique /\ listing \in Listings
  BY TypedRows DEF QuietInv, CursorInv
<1>2. CASE Writer
  <2>1. UNCHANGED <<listing, started, pages>> /\ Visible \subseteq Visible'
    BY <1>1, <1>2, WriterFacts DEF reader
  <2>2. Started /\ started \subseteq Visible /\ Visible' = Visible /\ Visible = started
    BY <1>1, <2>1 DEF Started, CursorInv, StartedVisible
  <2>3. /\ Whole' = Whole /\ \A i \in Whole : Rank(listing, Whole, i)' = Rank(listing, Whole, i)
    BY <1>1, <1>2, <2>2, QuietWriter
  <2> SUFFICES ASSUME NEW n \in DOMAIN pages PROVE PageIsExact(n)'
    BY <2>1 DEF PagesExact
  <2>4. PageIsExact(n)
    BY <1>1, <2>2 DEF PagesExact
  <2> QED
    BY <2>1, <2>3, <2>4 DEF PageIsExact, Offset
<1>3. CASE FirstPage(listing)
  BY <1>1, <1>3, FirstPageExact
<1>4. CASE NextPage
  BY <1>1, <1>4, NextPageExact
<1>5. CASE PreviousPage
  BY <1>1, <1>5, PreviousPageExact
<1>6. CASE UNCHANGED vars
  <2>1. UNCHANGED <<rows, listing, started, pages>> /\ PagesExact
    BY <1>1, <1>6 DEF vars, reader
  <2>2. /\ Visible' = Visible /\ Whole' = Whole /\ Started
        /\ \A i \in Whole : Rank(listing, Whole, i)' = Rank(listing, Whole, i)
        /\ \A n : Offset(n)' = Offset(n)
    BY <2>1 DEF Visible, Whole, Matching, IsLatest, Rank, Precedes, Follows, Ascends, Offset, Started
  <2>3. \A n \in DOMAIN pages : PageIsExact(n)
    BY <2>1, <2>2 DEF PagesExact
  <2> QED
    BY <2>1, <2>2, <2>3 DEF PagesExact, PageIsExact
<1> QED
  BY <1>2, <1>3, <1>4, <1>5, <1>6 DEF Next

LEMMA ExactIsQuiet == QuietInv => QuietIsExact
<1> SUFFICES ASSUME QuietInv, Started, Visible = started, NEW n \in DOMAIN pages
             PROVE  LET all == Sorted(listing, Whole) IN
                    pages[n] = SubSeq(Take(all, n * listing.limit), (n - 1) * listing.limit + 1,
                                      Len(Take(all, n * listing.limit)))
  BY DEF QuietIsExact, Whole
<1> DEFINE all == Sorted(listing, Whole)
           N == Cardinality(Whole)
           L == listing.limit
           taken == Take(all, n * L)
           page == SubSeq(taken, Offset(n) + 1, Len(taken))
<1>1. CursorInv /\ PageIsExact(n)
  BY DEF QuietInv, PagesExact
<1>2. RowsTyped /\ listing \in Listings /\ Whole \in SUBSET DOMAIN rows /\ N \in Nat
  BY <1>1, WholeFacts
<1>3. n \in Nat /\ n > 0 /\ pages[n] \in Seq(Ids)
  BY <1>1 DEF CursorInv, TypeOK
<1>4. /\ Offset(n) \in Nat /\ n * L = Offset(n) + L /\ n * L \in Nat /\ L \in Nat /\ L > 0
  <2>1. Offset(n) \in Nat /\ n * L = Offset(n) + L /\ L \in Nat /\ L > 0
    BY <1>1, <1>3, OffsetFacts
  <2> QED
    BY <2>1
<1>5. /\ all \in Seq(Whole) /\ Len(all) = N
      /\ \A i \in Whole : all[Rank(listing, Whole, i) + 1] = i
  BY <1>2, SortedFacts
<1>6. /\ taken \in Seq(Whole) /\ Len(taken) = IF N < n * L THEN N ELSE n * L
      /\ \A m \in 1 .. Len(taken) : taken[m] = all[m]
  BY <1>4, <1>5, TakeFacts
<1>7. /\ Len(pages[n]) = IF N <= Offset(n) THEN 0 ELSE IF N - Offset(n) < L THEN N - Offset(n) ELSE L
      /\ \A m \in 1 .. Len(pages[n]) :
           pages[n][m] \in Whole /\ Rank(listing, Whole, pages[n][m]) = Offset(n) + m - 1
  BY <1>1, <1>3 DEF PageIsExact
<1> HIDE DEF all, N, L, taken
<1>8. Len(taken) \in Nat
  BY <1>6
<1>9. \A i \in Offset(n) + 1 .. Len(taken) : i \in 1 .. Len(taken) /\ taken[i] \in Whole
  BY <1>4, <1>6, <1>8
<1>10. /\ page \in Seq(Whole)
       /\ Len(page) = IF Offset(n) + 1 <= Len(taken) THEN Len(taken) - (Offset(n) + 1) + 1 ELSE 0
       /\ \A m \in 1 .. Len(taken) - (Offset(n) + 1) + 1 : page[m] = taken[Offset(n) + 1 + m - 1]
  <2>1. Offset(n) + 1 \in Int /\ Len(taken) \in Int
    BY <1>4, <1>8
  <2> QED
    BY <1>9, <2>1, SubSeqProperties
<1>11. Len(page) = Len(pages[n]) /\ Len(page) \in Nat
  <2> DEFINE top == n * L
             o == Offset(n)
             held == Len(pages[n])
  <2> HIDE DEF top, o, held, page
  <2>1. o \in Nat /\ top = o + L /\ L \in Nat /\ L > 0 /\ N \in Nat
    BY <1>2, <1>4 DEF top, o
  <2>2. Len(taken) = IF N < top THEN N ELSE top
    BY <1>6 DEF top
  <2>3. held = IF N <= o THEN 0 ELSE IF N - o < L THEN N - o ELSE L
    BY <1>7 DEF o, held
  <2>4. Len(page) = IF o + 1 <= Len(taken) THEN Len(taken) - (o + 1) + 1 ELSE 0
    BY <1>10 DEF o
  <2>5. Len(page) = held /\ held \in Nat
    BY <2>1, <2>2, <2>3, <2>4
  <2> QED
    BY <2>5 DEF held
<1>12. ASSUME NEW m \in 1 .. Len(page) PROVE page[m] = pages[n][m]
  <2>1. m \in 1 .. Len(taken) - (Offset(n) + 1) + 1 /\ Offset(n) + m \in 1 .. Len(taken)
    BY <1>4, <1>8, <1>10
  <2>2. page[m] = all[Offset(n) + m]
    <3>1. Offset(n) + 1 + m - 1 = Offset(n) + m
      BY <1>4
    <3> QED
      BY <1>6, <1>10, <2>1, <3>1
  <2>3. pages[n][m] \in Whole /\ Rank(listing, Whole, pages[n][m]) + 1 = Offset(n) + m
    BY <1>4, <1>7, <1>11
  <2> QED
    BY <1>5, <2>2, <2>3
<1> HIDE DEF page
<1>13. pages[n] = page
  BY <1>3, <1>10, <1>11, <1>12
<1> QED
  BY <1>13 DEF page, taken, L, all, Offset

(***************************************************************************)
(* A quiet listing is exact: while no row becomes visible, a client that   *)
(* goes forth and back holds the first pages of the listing, in order, of  *)
(* any listing whose order is total and whose cursor carries its filter.   *)
(***************************************************************************)
THEOREM QuietListingIsExact ==
  ASSUME \A l \in Listings : Total(l) /\ KeepsFilter(l)
  PROVE  Spec => []QuietIsExact
<1>1. Init => QuietInv
  BY InitCursorInv DEF QuietInv, PagesExact, Init, Started
<1>2. QuietInv /\ [Next]_vars => QuietInv'
  BY NextQuietInv
<1> QED
  BY <1>1, <1>2, ExactIsQuiet, PTL DEF Spec

-----------------------------------------------------------------------------

(***************************************************************************)
(* The count processor: its types, that a vehicle overflows a rule only    *)
(* when the rule has captured all it may, and that the result is that of   *)
(* the definition.                                                         *)
(***************************************************************************)

(***************************************************************************)
(* The invariant of types: the matches of a rule are among the events that *)
(* it has seen, and the vehicles of the device map have events.            *)
(***************************************************************************)
TypeInv ==
  /\ CountTypeOK
  /\ num_matches < event
  /\ devices \subseteq {events[e] : e \in DOMAIN events}

LEMMA EventFacts ==
  ASSUME CountTypeOK
  PROVE  /\ Len(events) \in Nat /\ DOMAIN events = 1 .. Len(events)
         /\ \A e \in 1 .. Len(events) : events[e] \in Vehicles
         /\ NumRules \in Nat /\ rule \in Nat /\ event \in Nat /\ num_matches \in Nat
         /\ \A r \in Rules : bounds[r].min \in Nat /\ bounds[r].max \in Nat
<1>1. events \in Seq(Vehicles) /\ NumRules \in Nat /\ bounds \in [Rules -> Bounds]
  BY CountConstantsOK DEF CountTypeOK
<1>2. /\ Len(events) \in Nat /\ DOMAIN events = 1 .. Len(events)
      /\ \A e \in 1 .. Len(events) : events[e] \in Vehicles
  BY <1>1
<1>3. rule \in Nat /\ event \in Nat /\ num_matches \in Nat
  BY <1>1, <1>2 DEF CountTypeOK
<1>4. \A r \in Rules : bounds[r].min \in Nat /\ bounds[r].max \in Nat
  BY <1>1, CountConstantsOK
<1> QED
  BY <1>1, <1>2, <1>3, <1>4

LEMMA InitTypeInv == CountInit => TypeInv
<1> SUFFICES ASSUME CountInit PROVE TypeInv
  OBVIOUS
<1>1. events \in Seq(Vehicles) /\ NumRules \in Nat
  BY CountConstantsOK DEF CountInit
<1>2. Len(events) \in Nat /\ \A e \in DOMAIN events : events[e] \in Vehicles
  BY <1>1
<1>3. devices \subseteq Vehicles /\ devices \subseteq {events[e] : e \in DOMAIN events}
  BY <1>2 DEF CountInit
<1>4. rule \in 1 .. NumRules + 1 /\ event \in 1 .. Len(events) + 1
      /\ num_matches \in 0 .. Len(events) /\ num_matches < event
  BY <1>1, <1>2 DEF CountInit
<1> QED
  BY <1>3, <1>4 DEF CountInit, TypeInv, CountTypeOK

LEMMA NextTypeInv == TypeInv /\ [CountNext]_countVars => TypeInv'
<1> SUFFICES ASSUME TypeInv, [CountNext]_countVars PROVE TypeInv'
  OBVIOUS
<1>1. CountTypeOK /\ num_matches < event
  BY DEF TypeInv
<1> DEFINE n == Len(events)
<1>2. /\ n \in Nat /\ NumRules \in Nat /\ rule \in Nat /\ event \in Nat /\ num_matches \in Nat
      /\ rule \in 1 .. NumRules + 1 /\ event \in 1 .. n + 1 /\ missing \in Nat
  BY <1>1, EventFacts DEF CountTypeOK
<1> HIDE DEF n
<1>3. CASE UNCHANGED countVars
  BY <1>3 DEF countVars, input, loop, TypeInv, CountTypeOK
<1>4. CASE Examine
  <2>1. /\ UNCHANGED <<input, rule, missing>> /\ event' = event + 1 /\ event <= n /\ rule \in active
        /\ Skip \/ Capture \/ Overflow
    BY <1>4 DEF Examine, n
  <2>2. num_matches' = num_matches \/ num_matches' = num_matches + 1
    BY <2>1 DEF Skip, Capture, Overflow
  <2>3. event' \in 1 .. n + 1 /\ num_matches' \in 0 .. n /\ num_matches' < event'
    BY <1>1, <1>2, <2>1, <2>2
  <2>4. unseen' \subseteq unseen
    BY <2>1 DEF Skip, Capture, Overflow
  <2>5. rule \in Rules
    BY <1>1, <2>1 DEF CountTypeOK
  <2>6. captor' \in [Vehicles -> {0} \cup Rules] /\ overflowed' \in [Vehicles -> SUBSET Rules]
    BY <1>1, <2>1, <2>5 DEF Skip, Capture, Overflow, CountTypeOK
  <2> QED
    BY <1>1, <2>1, <2>3, <2>4, <2>6 DEF TypeInv, CountTypeOK, input, n
<1>5. CASE EndRule
  <2>1. /\ UNCHANGED <<input, unseen, captor, overflowed>>
        /\ rule' = rule + 1 /\ event' = 1 /\ num_matches' = 0 /\ rule <= NumRules
    BY <1>2, <1>5 DEF EndRule, Done
  <2>2. rule' \in 1 .. NumRules + 1 /\ event' \in 1 .. n + 1 /\ num_matches' \in 0 .. n
        /\ num_matches' < event'
    BY <1>2, <2>1
  <2>3. missing' \in Nat
    <3>1. CASE rule \notin active
      BY <1>2, <1>5, <3>1 DEF EndRule
    <3>2. CASE rule \in active
      <4>1. bounds[rule].min \in Nat
        BY <1>1, <3>2, EventFacts DEF CountTypeOK
      <4>2. Shortfall(bounds[rule].min, num_matches) \in Nat
        BY <1>2, <4>1 DEF Shortfall
      <4> QED
        BY <1>2, <1>5, <3>2, <4>2 DEF EndRule
    <3> QED
      BY <3>1, <3>2
  <2> QED
    BY <1>1, <2>1, <2>2, <2>3 DEF TypeInv, CountTypeOK, input, n
<1> QED
  BY <1>3, <1>4, <1>5 DEF CountNext

LEMMA TypeInvAlways == CountSpec => []TypeInv
  BY InitTypeInv, NextTypeInv, PTL DEF CountSpec

(***************************************************************************)
(* The maps, the counters and the loops are what they should be.           *)
(***************************************************************************)
THEOREM CountTypeCorrect == CountSpec => []CountTypeOK
<1>1. TypeInv => CountTypeOK
  BY DEF TypeInv
<1> QED
  BY <1>1, TypeInvAlways, PTL
-----------------------------------------------------------------------------
(***************************************************************************)
(* Room: the current rule has captured as many vehicles as it has matches, *)
(* or as many as it may, and the rules before it keep what they captured.  *)
(***************************************************************************)
Captured(r) == {v \in Vehicles : captor[v] = r}

Counted ==
  /\ num_matches <= bounds[rule].max => Cardinality(Captured(rule)) = num_matches
  /\ num_matches > bounds[rule].max => Cardinality(Captured(rule)) = bounds[rule].max
  /\ \A v \in Vehicles : rule \in overflowed[v] => num_matches > bounds[rule].max

RoomInv ==
  /\ \A v \in Vehicles :
       /\ v \in unseen => captor[v] = 0
       /\ v \notin unseen => overflowed[v] = {}
       /\ captor[v] <= rule
       /\ \A r \in overflowed[v] : r <= rule
       /\ \A r \in overflowed[v] : r < rule => Cardinality(Captured(r)) = bounds[r].max
  /\ \A r \in Rules : IsFiniteSet(Captured(r))
  /\ rule \in Rules => Counted

LEMMA InitRoomInv == CountInit => RoomInv
<1> SUFFICES ASSUME CountInit PROVE RoomInv
  OBVIOUS
<1>1. \A r \in Rules : Captured(r) = {} /\ bounds[r].max \in Nat
  BY InitTypeInv, EventFacts DEF CountInit, Captured, Rules, TypeInv
<1>2. IsFiniteSet({}) /\ Cardinality({}) = 0
  BY FS_EmptySet
<1>3. captor = [v \in Vehicles |-> 0] /\ overflowed = [v \in Vehicles |-> {}]
      /\ rule = 1 /\ num_matches = 0
  BY DEF CountInit
<1>4. rule \in Rules => Counted
  BY <1>1, <1>2, <1>3 DEF Counted
<1> QED
  BY <1>1, <1>2, <1>3, <1>4 DEF RoomInv

LEMMA NextRoomInv == TypeInv /\ TypeInv' /\ RoomInv /\ [CountNext]_countVars => RoomInv'
<1> SUFFICES ASSUME TypeInv, TypeInv', RoomInv, [CountNext]_countVars PROVE RoomInv'
  OBVIOUS
<1>1. /\ CountTypeOK /\ rule \in Nat /\ num_matches \in Nat /\ NumRules \in Nat
      /\ \A r \in Rules : bounds[r].max \in Nat
      /\ \A r \in Rules : r \in Nat
  BY EventFacts DEF TypeInv, Rules
<1>2. CASE UNCHANGED countVars
  BY <1>2 DEF countVars, input, loop, RoomInv, Counted, Captured
<1>3. CASE Examine
  <2>1. /\ UNCHANGED <<input, rule>> /\ rule \in Rules /\ bounds[rule].max \in Nat
        /\ bounds' = bounds
    BY <1>1, <1>3 DEF Examine, CountTypeOK, input
  <2>2. CASE Skip
    BY <2>1, <2>2 DEF Skip, RoomInv, Counted, Captured, input
  <2> DEFINE u == Vehicle
  <2>3. ASSUME Considered PROVE u \in unseen /\ u \in Vehicles
    BY <1>1, <2>3 DEF Considered, CountTypeOK
  <2> HIDE DEF u
  <2>4. CASE Capture
    <3>1. /\ Considered /\ num_matches < bounds[rule].max
          /\ captor' = [captor EXCEPT ![u] = rule] /\ unseen' = unseen \ {u}
          /\ overflowed' = [overflowed EXCEPT ![u] = {}] /\ num_matches' = num_matches + 1
      BY <2>4 DEF Capture, HasRoom, u
    <3>2. captor[u] = 0 /\ u \in Vehicles /\ u \in unseen
      BY <2>3, <3>1 DEF RoomInv
    <3>3. Captured(rule)' = Captured(rule) \cup {u} /\ u \notin Captured(rule)
      BY <1>1, <2>1, <3>1, <3>2 DEF Captured, CountTypeOK, Rules
    <3>4. \A r \in Rules : r # rule => Captured(r)' = Captured(r)
      BY <1>1, <2>1, <3>1, <3>2 DEF Captured, CountTypeOK, Rules
    <3>5. /\ IsFiniteSet(Captured(rule)') /\ Cardinality(Captured(rule)') = num_matches + 1
      <4>1. IsFiniteSet(Captured(rule)) /\ Cardinality(Captured(rule)) = num_matches
        BY <1>1, <2>1, <3>1 DEF RoomInv, Counted
      <4> QED
        BY <3>3, <4>1, FS_AddElement
    <3>6. num_matches' <= bounds[rule].max
      BY <1>1, <2>1, <3>1
    <3>7. \A v \in Vehicles : rule \notin overflowed'[v]
      BY <1>1, <2>1, <3>1, <3>2 DEF RoomInv, Counted, CountTypeOK
    <3>8. Counted'
      BY <1>1, <2>1, <3>1, <3>5, <3>6, <3>7 DEF Counted
    <3>9. \A r \in Rules : IsFiniteSet(Captured(r)')
      BY <2>1, <3>4, <3>5 DEF RoomInv, Captured
    <3>10. ASSUME NEW v \in Vehicles
           PROVE  /\ v \in unseen' => captor'[v] = 0
                  /\ v \notin unseen' => overflowed'[v] = {}
                  /\ captor'[v] <= rule'
                  /\ \A r \in overflowed'[v] : r <= rule'
                  /\ \A r \in overflowed'[v] : r < rule' => Cardinality(Captured(r)') = bounds'[r].max
      <4>1. CASE v = u
        BY <1>1, <2>1, <3>1, <3>2, <4>1 DEF CountTypeOK
      <4>2. CASE v # u
        <5>1. /\ captor'[v] = captor[v] /\ overflowed'[v] = overflowed[v]
              /\ v \in unseen' <=> v \in unseen
          BY <1>1, <3>1, <4>2 DEF CountTypeOK
        <5>2. overflowed[v] \subseteq Rules
          BY <1>1 DEF CountTypeOK
        <5>3. \A r \in overflowed[v] : r < rule => Captured(r)' = Captured(r)
          BY <1>1, <3>4, <5>2
        <5> QED
          BY <2>1, <5>1, <5>3 DEF RoomInv
      <4> QED
        BY <4>1, <4>2
    <3> QED
      BY <3>8, <3>9, <3>10 DEF RoomInv
  <2>5. CASE Overflow
    <3>1. /\ Considered /\ ~ (num_matches < bounds[rule].max)
          /\ overflowed' = [overflowed EXCEPT ![u] = overflowed[u] \cup {rule}]
          /\ num_matches' = num_matches + 1 /\ UNCHANGED <<unseen, captor>>
      BY <2>5 DEF Overflow, HasRoom, u
    <3>2. u \in Vehicles /\ u \in unseen
      BY <2>3, <3>1
    <3>3. \A r : Captured(r)' = Captured(r)
      BY <3>1 DEF Captured
    <3>4. num_matches' > bounds[rule].max
      BY <1>1, <2>1, <3>1
    <3>5. Cardinality(Captured(rule)) = bounds[rule].max
      BY <1>1, <2>1, <3>1 DEF RoomInv, Counted
    <3>6. Counted'
      BY <1>1, <2>1, <3>1, <3>3, <3>4, <3>5 DEF Counted
    <3>7. ASSUME NEW v \in Vehicles
          PROVE  /\ v \in unseen' => captor'[v] = 0
                 /\ v \notin unseen' => overflowed'[v] = {}
                 /\ captor'[v] <= rule'
                 /\ \A r \in overflowed'[v] : r <= rule'
                 /\ \A r \in overflowed'[v] : r < rule' => Cardinality(Captured(r)') = bounds'[r].max
      <4>1. \A r \in overflowed'[v] : r \in overflowed[v] \/ (r = rule /\ v = u)
        BY <1>1, <3>1, <3>2 DEF CountTypeOK
      <4>2. v \notin unseen => overflowed'[v] = overflowed[v]
        BY <1>1, <3>1, <3>2 DEF CountTypeOK
      <4> QED
        BY <1>1, <2>1, <3>1, <3>3, <4>1, <4>2 DEF RoomInv
    <3> QED
      BY <2>1, <3>3, <3>6, <3>7 DEF RoomInv
  <2> QED
    BY <1>3, <2>2, <2>4, <2>5 DEF Examine
<1>4. CASE EndRule
  <2>1. /\ UNCHANGED <<input, unseen, captor, overflowed>> /\ bounds' = bounds
        /\ rule' = rule + 1 /\ num_matches' = 0 /\ rule <= NumRules
    BY <1>1, <1>4 DEF EndRule, Done, input
  <2>2. rule \in Rules
    BY <1>1, <2>1 DEF CountTypeOK, Rules
  <2>3. \A r : Captured(r)' = Captured(r)
    BY <2>1 DEF Captured
  <2>4. ASSUME NEW v \in Vehicles
        PROVE  /\ captor'[v] < rule'
               /\ \A r \in overflowed'[v] : r < rule' /\ Cardinality(Captured(r)') = bounds'[r].max
    <3>1. captor[v] \in Nat /\ captor[v] <= rule
      BY <1>1 DEF CountTypeOK, RoomInv, Rules
    <3>2. \A r \in overflowed[v] : r \in Nat /\ r <= rule
      BY <1>1 DEF CountTypeOK, RoomInv, Rules
    <3>3. rule \in overflowed[v] => Cardinality(Captured(rule)) = bounds[rule].max
      BY <2>2 DEF RoomInv, Counted
    <3>4. \A r \in overflowed[v] : Cardinality(Captured(r)) = bounds[r].max
      <4>1. TAKE r \in overflowed[v]
      <4>2. r < rule \/ r = rule
        BY <1>1, <3>2
      <4> QED
        BY <3>3, <4>2 DEF RoomInv
    <3>5. captor[v] < rule + 1 /\ \A r \in overflowed[v] : r < rule + 1
      BY <1>1, <3>1, <3>2
    <3> QED
      BY <2>1, <2>3, <3>4, <3>5
  <2>5. rule' \in Rules => Counted'
    <3>1. SUFFICES ASSUME rule' \in Rules PROVE Counted'
      OBVIOUS
    <3>2. {v \in Vehicles : captor'[v] = rule'} = {}
      <4>1. \A v \in Vehicles : captor'[v] # rule'
        BY <1>1, <2>1, <2>4 DEF CountTypeOK, Rules
      <4> QED
        BY <4>1
    <3>3. \A v \in Vehicles : rule' \notin overflowed'[v]
      BY <1>1, <2>1, <2>4
    <3>4. Cardinality({v \in Vehicles : captor'[v] = rule'}) = 0 /\ bounds'[rule'].max \in Nat
      BY <1>1, <2>1, <3>1, <3>2, FS_EmptySet
    <3> QED
      BY <2>1, <3>3, <3>4 DEF Counted, Captured
  <2>6. \A r \in Rules : IsFiniteSet(Captured(r)')
    BY <2>3 DEF RoomInv
  <2>7. \A v \in Vehicles :
          /\ v \in unseen' => captor'[v] = 0
          /\ v \notin unseen' => overflowed'[v] = {}
    BY <2>1 DEF RoomInv
  <2>8. \A v \in Vehicles :
          /\ captor'[v] <= rule'
          /\ \A r \in overflowed'[v] : r <= rule'
    <3>1. TAKE v \in Vehicles
    <3>2. captor'[v] \in Nat /\ \A r \in overflowed'[v] : r \in Nat
      BY <1>1, <2>1 DEF CountTypeOK, Rules
    <3>3. rule' \in Nat
      BY <1>1, <2>1
    <3> QED
      BY <2>4, <3>2, <3>3
  <2> QED
    BY <2>4, <2>5, <2>6, <2>7, <2>8 DEF RoomInv
<1> QED
  BY <1>2, <1>3, <1>4 DEF CountNext

LEMMA RoomInvAlways == CountSpec => [](TypeInv /\ RoomInv)
<1>1. CountInit => TypeInv /\ RoomInv
  BY InitTypeInv, InitRoomInv
<1>2. TypeInv /\ RoomInv /\ [CountNext]_countVars => TypeInv' /\ RoomInv'
  BY NextTypeInv, NextRoomInv
<1> QED
  BY <1>1, <1>2, PTL DEF CountSpec

(***************************************************************************)
(* A vehicle is captured or overflows, never both, and it overflows only   *)
(* when the rules that match it have captured as many as they may.         *)
(***************************************************************************)
THEOREM OverflowsWithoutRoom == CountSpec => []NoRoomLeft
<1>1. TypeInv /\ RoomInv => NoRoomLeft
  <2> SUFFICES ASSUME TypeInv, RoomInv, NEW v \in Vehicles
               PROVE  /\ captor[v] # 0 => overflowed[v] = {}
                      /\ \A r \in overflowed[v] : Cardinality(Captured(r)) = bounds[r].max
    BY DEF NoRoomLeft, Captured
  <2>1. captor[v] # 0 => overflowed[v] = {}
    BY DEF RoomInv
  <2>2. ASSUME NEW r \in overflowed[v] PROVE Cardinality(Captured(r)) = bounds[r].max
    <3>1. r \in Rules /\ r \in Nat /\ rule \in Nat /\ r <= rule
      BY EventFacts DEF TypeInv, CountTypeOK, RoomInv, Rules
    <3>2. CASE r < rule
      BY <3>2 DEF RoomInv
    <3>3. CASE r = rule
      BY <3>1, <3>3 DEF RoomInv, Counted
    <3> QED
      BY <3>1, <3>2, <3>3
  <2> QED
    BY <2>1, <2>2
<1> QED
  BY <1>1, RoomInvAlways, PTL
-----------------------------------------------------------------------------
(***************************************************************************)
(* Natural numbers: a set that is not empty has a least element.           *)
(***************************************************************************)
LEMMA LeastExists ==
  ASSUME NEW T, T \subseteq Nat, T # {}
  PROVE  \E x \in T : \A y \in T : x <= y
<1> DEFINE R == OpToRel(<, Nat)
<1>1. IsWellFoundedOn(R, Nat)
  BY NatLessThanWellFounded
<1>2. \A x, y \in Nat : <<x, y>> \in R <=> x < y
  BY DEF OpToRel
<1> HIDE DEF R
<1>3. PICK x \in T : \A y \in T : ~ (<<y, x>> \in R)
  BY <1>1, WFMin, Zenon
<1>4. \A y \in T : ~ (y < x)
  BY <1>2, <1>3
<1>5. \A y \in T : x <= y
  BY <1>4
<1> QED
  BY <1>5

(***************************************************************************)
(* The definition of the result: its recursion, and the first match.       *)
(***************************************************************************)
LEMMA LeftFacts ==
  /\ Left[0] = devices
  /\ \A r \in Rules : Left[r] = Left[r - 1] \ Captures(r, Left[r - 1])
<1> DEFINE Def(f, n) ==
             f = [r \in 0 .. n |-> IF r = 0 THEN devices ELSE f[r - 1] \ Captures(r, f[r - 1])]
           T == {n \in Nat : ~ \E f : Def(f, n)}
<1>1. ASSUME T # {} PROVE FALSE
  <2>1. PICK n \in T : \A m \in T : n <= m
    BY <1>1, LeastExists
  <2>2. CASE n = 0
    <3>1. Def([r \in 0 .. 0 |-> devices], 0)
      OBVIOUS
    <3> HIDE DEF Def
    <3> QED
      BY <2>2, <3>1
  <2>3. CASE n # 0
    <3>1. n - 1 \in Nat /\ n \in Nat /\ ~ (n <= n - 1)
      BY <2>1, <2>3
    <3>2. PICK f : Def(f, n - 1)
      <4> HIDE DEF Def
      <4> QED
        BY <2>1, <3>1
    <3> DEFINE g == [r \in 0 .. n |-> IF r = n THEN f[n - 1] \ Captures(n, f[n - 1]) ELSE f[r]]
    <3>3. ASSUME NEW r \in 0 .. n
          PROVE  g[r] = IF r = 0 THEN devices ELSE g[r - 1] \ Captures(r, g[r - 1])
      <4>1. CASE r = n
        BY <2>3, <3>1, <4>1
      <4>2. CASE r # n
        <5>1. r \in 0 .. n - 1 /\ (r # 0 => r - 1 \in 0 .. n - 1)
          BY <3>1, <4>2
        <5>2. f[r] = IF r = 0 THEN devices ELSE f[r - 1] \ Captures(r, f[r - 1])
          BY <3>2, <5>1
        <5>3. g[r] = f[r] /\ (r # 0 => g[r - 1] = f[r - 1])
          BY <3>1, <4>2, <5>1
        <5> HIDE DEF g
        <5> QED
          BY <5>2, <5>3
      <4> QED
        BY <4>1, <4>2
    <3>4. Def(g, n)
      <4> HIDE DEF g
      <4>1. g = [r \in 0 .. n |-> g[r]]
        BY DEF g
      <4> QED
        BY <3>3, <4>1
    <3> HIDE DEF Def, g
    <3> QED
      BY <3>1, <3>4
  <2> QED
    BY <2>2, <2>3
<1>2. NumRules \in Nat
  BY CountConstantsOK
<1>3. Def(Left, NumRules)
  <2>1. \E f : Def(f, NumRules)
    BY <1>1, <1>2
  <2>2. Left = CHOOSE f : Def(f, NumRules)
    BY DEF Left
  <2> HIDE DEF Def
  <2> QED
    BY <2>1, <2>2
<1>4. \A r \in 0 .. NumRules :
        Left[r] = IF r = 0 THEN devices ELSE Left[r - 1] \ Captures(r, Left[r - 1])
  BY <1>3
<1>5. 0 \in 0 .. NumRules /\ \A r \in Rules : r \in 0 .. NumRules /\ r # 0
  BY <1>2 DEF Rules
<1> HIDE DEF Def
<1> QED
  BY <1>4, <1>5

(* What a rule lacks of its minimum, by the definition.                    *)
Lacks(r) ==
  IF r \in active
  THEN Shortfall(bounds[r].min, Cardinality(Candidates(r, Left[r - 1])))
  ELSE 0

LEMMA SumFacts ==
  /\ SumMissing[0] = 0
  /\ \A r \in Rules : SumMissing[r] = SumMissing[r - 1] + Lacks(r)
<1> DEFINE Def(f, n) ==
             f = [r \in 0 .. n |-> IF r = 0 THEN 0 ELSE f[r - 1] + Lacks(r)]
           T == {n \in Nat : ~ \E f : Def(f, n)}
<1>1. ASSUME T # {} PROVE FALSE
  <2>1. PICK n \in T : \A m \in T : n <= m
    BY <1>1, LeastExists
  <2>2. CASE n = 0
    <3>1. Def([r \in 0 .. 0 |-> 0], 0)
      OBVIOUS
    <3> HIDE DEF Def
    <3> QED
      BY <2>2, <3>1
  <2>3. CASE n # 0
    <3>1. n - 1 \in Nat /\ n \in Nat /\ ~ (n <= n - 1)
      BY <2>1, <2>3
    <3>2. PICK f : Def(f, n - 1)
      <4> HIDE DEF Def
      <4> QED
        BY <2>1, <3>1
    <3> DEFINE g == [r \in 0 .. n |-> IF r = n THEN f[n - 1] + Lacks(n) ELSE f[r]]
    <3>3. ASSUME NEW r \in 0 .. n
          PROVE  g[r] = IF r = 0 THEN 0 ELSE g[r - 1] + Lacks(r)
      <4>1. CASE r = n
        BY <2>3, <3>1, <4>1
      <4>2. CASE r # n
        <5>1. r \in 0 .. n - 1 /\ (r # 0 => r - 1 \in 0 .. n - 1)
          BY <3>1, <4>2
        <5>2. f[r] = IF r = 0 THEN 0 ELSE f[r - 1] + Lacks(r)
          BY <3>2, <5>1
        <5>3. g[r] = f[r] /\ (r # 0 => g[r - 1] = f[r - 1])
          BY <3>1, <4>2, <5>1
        <5> HIDE DEF g
        <5> QED
          BY <5>2, <5>3
      <4> QED
        BY <4>1, <4>2
    <3>4. Def(g, n)
      <4> HIDE DEF g
      <4>1. g = [r \in 0 .. n |-> g[r]]
        BY DEF g
      <4> QED
        BY <3>3, <4>1
    <3> HIDE DEF Def, g
    <3> QED
      BY <3>1, <3>4
  <2> QED
    BY <2>2, <2>3
<1>2. NumRules \in Nat
  BY CountConstantsOK
<1>3. Def(SumMissing, NumRules)
  <2>1. \E f : Def(f, NumRules)
    BY <1>1, <1>2
  <2>2. SumMissing = CHOOSE f : Def(f, NumRules)
    BY DEF SumMissing, Lacks
  <2> HIDE DEF Def
  <2> QED
    BY <2>1, <2>2
<1>4. \A r \in 0 .. NumRules :
        SumMissing[r] = IF r = 0 THEN 0 ELSE SumMissing[r - 1] + Lacks(r)
  BY <1>3
<1>5. 0 \in 0 .. NumRules /\ \A r \in Rules : r \in 0 .. NumRules /\ r # 0
  BY <1>2 DEF Rules
<1> HIDE DEF Def
<1> QED
  BY <1>4, <1>5

LEMMA FirstMatchFacts ==
  ASSUME CountTypeOK, NEW r, NEW v, r \in Matched(v)
  PROVE  /\ FirstMatch(r, v) \in DOMAIN events /\ FirstMatch(r, v) \in Nat
         /\ events[FirstMatch(r, v)] = v /\ <<r, FirstMatch(r, v)>> \in matches
         /\ \A e \in DOMAIN events :
              events[e] = v /\ <<r, e>> \in matches => FirstMatch(r, v) <= e
<1> DEFINE T == {e \in DOMAIN events : events[e] = v /\ <<r, e>> \in matches}
<1>1. DOMAIN events \subseteq Nat /\ DOMAIN events = 1 .. Len(events) /\ Len(events) \in Nat
  BY EventFacts
<1>2. T # {} /\ T \subseteq Nat
  BY <1>1 DEF Matched
<1>3. PICK e \in T : \A f \in T : e <= f
  BY <1>2, LeastExists
<1> DEFINE First(d) == d \in T /\ \A f \in 1 .. d - 1 : ~ (events[f] = v /\ <<r, f>> \in matches)
<1>4. First(e)
  <2>1. e \in T /\ e \in 1 .. Len(events)
    BY <1>1, <1>3
  <2>2. ASSUME NEW f \in 1 .. e - 1, f \in T PROVE FALSE
    <3>1. f \in Nat /\ e \in Nat /\ f < e /\ ~ (e <= f)
      BY <1>1, <2>1, <2>2
    <3> QED
      BY <1>3, <2>2, <3>1
  <2>3. \A f \in 1 .. e - 1 : f \in DOMAIN events
    BY <1>1, <2>1
  <2> QED
    BY <2>1, <2>2, <2>3
<1>5. FirstMatch(r, v) = CHOOSE d \in DOMAIN events : First(d)
  BY DEF FirstMatch
<1>6. First(FirstMatch(r, v))
  <2> HIDE DEF First
  <2>1. e \in DOMAIN events
    BY <1>3
  <2> QED
    BY <1>4, <1>5, <2>1
<1>7. ASSUME NEW d \in T, First(d), NEW f \in T PROVE d <= f
  <2>1. d \in Nat /\ f \in Nat /\ f >= 1
    BY <1>1
  <2>2. ~ (f \in 1 .. d - 1)
    BY <1>7
  <2> QED
    BY <2>1, <2>2
<1> QED
  BY <1>1, <1>6, <1>7

(* The definition looks at what does not change.                           *)
LEMMA SameDefinition ==
  ASSUME UNCHANGED input
  PROVE  /\ Left' = Left /\ SumMissing' = SumMissing
         /\ \A r, v : FirstMatch(r, v)' = FirstMatch(r, v)
         /\ \A r, S : Candidates(r, S)' = Candidates(r, S)
         /\ \A r, S : Captures(r, S)' = Captures(r, S)
         /\ \A v : Matched(v)' = Matched(v)
<1>1. /\ events' = events /\ devices' = devices /\ bounds' = bounds
      /\ active' = active /\ matches' = matches
  BY DEF input
<1>2. \A v : Matched(v)' = Matched(v)
  BY <1>1 DEF Matched
<1>3. \A r, S : Candidates(r, S)' = Candidates(r, S)
  BY <1>1, <1>2 DEF Candidates
<1>4. \A r, v : FirstMatch(r, v)' = FirstMatch(r, v)
  BY <1>1 DEF FirstMatch
<1>5. \A r, S : Captures(r, S)' = Captures(r, S)
  BY <1>1, <1>3, <1>4 DEF Captures
<1>6. Left' = Left
  BY <1>1, <1>5 DEF Left
<1>7. SumMissing' = SumMissing
  BY <1>1, <1>3, <1>6 DEF SumMissing
<1> QED
  BY <1>2, <1>3, <1>4, <1>5, <1>6, <1>7
-----------------------------------------------------------------------------
(***************************************************************************)
(* The invariant of the result.  Here is what the rules before the current *)
(* one left, MatchingHere what of it the current rule matches, Seen what of    *)
(* that the events so far have shown.  A vehicle is unseen as long as the  *)
(* definition leaves it, and what it overflowed are the rules it passed.   *)
(***************************************************************************)
Here == Left[rule - 1]
MatchingHere == Candidates(rule, Here)
Seen == {v \in MatchingHere : FirstMatch(rule, v) < event}
Taken == Seen \cap Captures(rule, Here)

Passed(v) ==
  {r \in 1 .. rule - 1 : r \in active /\ r \in Matched(v)}
    \cup {r \in {rule} : v \in Seen}

ExactInv ==
  /\ Here \subseteq devices
  /\ unseen = Here \ Taken
  /\ Cardinality(Seen) <= num_matches
  /\ rule \in active /\ Cardinality(Seen) <= bounds[rule].max => num_matches = Cardinality(Seen)
  /\ \A v \in Vehicles :
       overflowed[v] = IF v \in unseen THEN Passed(v) ELSE {}

LEMMA MatchingFacts ==
  ASSUME TypeInv, ExactInv
  PROVE  /\ IsFiniteSet(MatchingHere) /\ IsFiniteSet(Seen) /\ Cardinality(Seen) \in Nat
         /\ \A v \in MatchingHere :
              /\ FirstMatch(rule, v) \in Nat /\ FirstMatch(rule, v) \in DOMAIN events
              /\ events[FirstMatch(rule, v)] = v /\ <<rule, FirstMatch(rule, v)>> \in matches
              /\ \A e \in DOMAIN events :
                   events[e] = v /\ <<rule, e>> \in matches => FirstMatch(rule, v) <= e
<1>1. CountTypeOK /\ Len(events) \in Nat /\ DOMAIN events = 1 .. Len(events)
  BY EventFacts DEF TypeInv
<1>2. IsFiniteSet(DOMAIN events)
  BY <1>1, FS_Interval
<1>3. IsFiniteSet({events[e] : e \in DOMAIN events})
  <2> DEFINE f == [e \in DOMAIN events |-> events[e]]
  <2>1. f \in Surjection(DOMAIN events, {events[e] : e \in DOMAIN events})
    BY DEF Surjection
  <2> QED
    BY <1>2, <2>1, FS_Surjection
<1>4. MatchingHere \subseteq {events[e] : e \in DOMAIN events}
  BY DEF TypeInv, ExactInv, MatchingHere, Candidates
<1>5. IsFiniteSet(MatchingHere)
  BY <1>3, <1>4, FS_Subset
<1>6. IsFiniteSet(Seen)
  BY <1>5, FS_Subset DEF Seen
<1>7. Cardinality(Seen) \in Nat
  BY <1>6, FS_CardinalityType
<1>8. \A v \in MatchingHere : rule \in Matched(v)
  BY DEF MatchingHere, Candidates
<1> QED
  BY <1>1, <1>5, <1>6, <1>7, <1>8, FirstMatchFacts

(* Whom the rule captures, among those it has seen and the next one.       *)
LEMMA CaptureFacts ==
  ASSUME TypeInv, ExactInv, rule \in Rules, NEW v \in MatchingHere
  PROVE  /\ v \in Seen /\ v \notin Captures(rule, Here) => bounds[rule].max < Cardinality(Seen)
         /\ FirstMatch(rule, v) = event =>
              (v \in Captures(rule, Here) <=> Cardinality(Seen) < bounds[rule].max)
<1> DEFINE earlier == {w \in MatchingHere : FirstMatch(rule, w) < FirstMatch(rule, v)}
<1>1. /\ IsFiniteSet(MatchingHere) /\ IsFiniteSet(Seen) /\ Cardinality(Seen) \in Nat
      /\ \A w \in MatchingHere : FirstMatch(rule, w) \in Nat
      /\ event \in Nat /\ bounds[rule].max \in Nat
  BY MatchingFacts, EventFacts DEF TypeInv
<1>2. v \in Captures(rule, Here) <=> Cardinality(earlier) < bounds[rule].max
  BY DEF Captures, MatchingHere
<1>3. ASSUME v \in Seen, v \notin Captures(rule, Here)
      PROVE  bounds[rule].max < Cardinality(Seen)
  <2>1. earlier \subseteq Seen \ {v}
    <3>1. FirstMatch(rule, v) < event /\ FirstMatch(rule, v) \in Nat
      BY <1>1, <1>3 DEF Seen
    <3>2. \A w \in earlier : FirstMatch(rule, w) < event /\ w # v
      BY <1>1, <3>1
    <3> QED
      BY <3>2 DEF Seen
  <2>2. /\ IsFiniteSet(Seen \ {v}) /\ Cardinality(Seen \ {v}) = Cardinality(Seen) - 1
    BY <1>1, <1>3, FS_RemoveElement
  <2>3. Cardinality(earlier) <= Cardinality(Seen \ {v}) /\ Cardinality(earlier) \in Nat
    <3> HIDE DEF earlier
    <3> QED
      BY <2>1, <2>2, FS_Subset, FS_CardinalityType
  <2>4. ~ (Cardinality(earlier) < bounds[rule].max)
    BY <1>2, <1>3
  <2> HIDE DEF earlier
  <2> QED
    BY <1>1, <2>2, <2>3, <2>4
<1>4. ASSUME FirstMatch(rule, v) = event
      PROVE  v \in Captures(rule, Here) <=> Cardinality(Seen) < bounds[rule].max
  <2>1. earlier = Seen
    BY <1>4 DEF Seen
  <2> QED
    BY <1>2, <2>1
<1> QED
  BY <1>3, <1>4

LEMMA InitExactInv == CountInit => ExactInv
<1> SUFFICES ASSUME CountInit PROVE ExactInv
  OBVIOUS
<1>1. CountTypeOK /\ rule = 1 /\ event = 1 /\ num_matches = 0 /\ unseen = devices
      /\ overflowed = [v \in Vehicles |-> {}]
  BY InitTypeInv DEF CountInit, TypeInv
<1>2. Here = devices
  BY <1>1, LeftFacts DEF Here
<1>3. Seen = {}
  <2>1. ASSUME NEW v \in MatchingHere PROVE ~ (FirstMatch(rule, v) < event)
    <3>1. rule \in Matched(v)
      BY DEF MatchingHere, Candidates
    <3>2. FirstMatch(rule, v) \in 1 .. Len(events) /\ Len(events) \in Nat
      BY <1>1, <3>1, FirstMatchFacts, EventFacts
    <3> QED
      BY <1>1, <3>2
  <2> QED
    BY <2>1 DEF Seen
<1>4. Cardinality(Seen) = 0
  BY <1>3, FS_EmptySet
<1>5. \A v \in Vehicles : Passed(v) = {}
  BY <1>1, <1>3 DEF Passed
<1> QED
  BY <1>1, <1>2, <1>3, <1>4, <1>5 DEF ExactInv, Taken

(***************************************************************************)
(* One event: the vehicle is new to the rule, or it overflowed the rule    *)
(* before and overflows it again.                                          *)
(***************************************************************************)
LEMMA ExamineExactInv ==
  ASSUME TypeInv, ExactInv, Examine
  PROVE  ExactInv'
<1> DEFINE u == Vehicle
           max == bounds[rule].max
           n == Cardinality(Seen)
<1>1. /\ UNCHANGED <<input, rule, missing>> /\ event' = event + 1 /\ event \in DOMAIN events
      /\ rule \in active /\ rule \in Rules /\ (Skip \/ Capture \/ Overflow)
  BY EventFacts DEF Examine, TypeInv, CountTypeOK
<1>2. /\ event \in Nat /\ num_matches \in Nat /\ max \in Nat /\ n \in Nat
      /\ IsFiniteSet(Seen) /\ u \in Vehicles /\ devices \subseteq Vehicles
  <2>1. CountTypeOK /\ IsFiniteSet(Seen) /\ n \in Nat /\ devices \subseteq Vehicles
    BY MatchingFacts DEF TypeInv, CountTypeOK
  <2>2. event \in Nat /\ num_matches \in Nat /\ max \in Nat /\ u \in Vehicles
    BY <1>1, <2>1, EventFacts DEF Vehicle
  <2> QED
    BY <2>1, <2>2
<1>3. /\ Here \subseteq devices /\ unseen = Here \ Taken /\ n <= num_matches
      /\ n <= max => num_matches = n
      /\ \A v \in Vehicles : overflowed[v] = IF v \in unseen THEN Passed(v) ELSE {}
  BY <1>1 DEF ExactInv
<1>4. /\ Here' = Here /\ MatchingHere' = MatchingHere /\ Captures(rule, Here)' = Captures(rule, Here)
      /\ bounds' = bounds /\ devices' = devices /\ active' = active /\ rule' = rule
      /\ \A v : Matched(v)' = Matched(v)
      /\ \A v : FirstMatch(rule, v)' = FirstMatch(rule, v)
  <2>1. rule' = rule /\ bounds' = bounds /\ devices' = devices /\ active' = active
    BY <1>1 DEF input
  <2>2. Here' = Here
    BY <1>1, <2>1, SameDefinition DEF Here
  <2> QED
    BY <1>1, <2>1, <2>2, SameDefinition DEF MatchingHere
<1>5. \A v \in MatchingHere :
        /\ FirstMatch(rule, v) \in Nat
        /\ FirstMatch(rule, v) = event => v = u /\ <<rule, event>> \in matches
        /\ v = u /\ <<rule, event>> \in matches => FirstMatch(rule, v) <= event
  BY <1>1, MatchingFacts DEF Vehicle
<1>6. Seen' = Seen \cup {v \in MatchingHere : FirstMatch(rule, v) = event}
  <2>1. Seen' = {v \in MatchingHere : FirstMatch(rule, v) < event + 1}
    BY <1>1, <1>4 DEF Seen
  <2>2. \A v \in MatchingHere :
          FirstMatch(rule, v) < event + 1 <=> FirstMatch(rule, v) < event \/ FirstMatch(rule, v) = event
    BY <1>2, <1>5
  <2> QED
    BY <2>1, <2>2 DEF Seen
<1>7. Considered => u \in unseen /\ u \in Here /\ u \in MatchingHere /\ FirstMatch(rule, u) <= event
  <2>1. SUFFICES ASSUME Considered PROVE u \in unseen /\ u \in Here /\ u \in MatchingHere /\ FirstMatch(rule, u) <= event
    OBVIOUS
  <2>2. u \in unseen /\ u \in Here /\ <<rule, event>> \in matches
    BY <1>3, <2>1 DEF Considered
  <2>3. rule \in Matched(u)
    BY <1>1, <2>2 DEF Matched, Vehicle
  <2>4. u \in MatchingHere
    BY <1>1, <2>2, <2>3 DEF MatchingHere, Candidates
  <2> QED
    BY <1>5, <2>2, <2>4
<1>8. CASE Skip
  <2>1. \A v \in MatchingHere : FirstMatch(rule, v) # event
    <3>1. SUFFICES ASSUME NEW v \in MatchingHere, FirstMatch(rule, v) = event PROVE FALSE
      OBVIOUS
    <3>2. u \in MatchingHere /\ u = v /\ <<rule, event>> \in matches /\ u \in Here
      BY <1>5, <3>1 DEF MatchingHere, Candidates
    <3>3. u \notin unseen
      BY <1>8, <3>2 DEF Skip, Considered
    <3>4. FirstMatch(rule, u) < event
      BY <1>3, <3>2, <3>3 DEF Taken, Seen
    <3> QED
      BY <1>2, <3>1, <3>2, <3>4
  <2>2. Seen' = Seen /\ Taken' = Taken
    BY <1>4, <1>6, <2>1 DEF Taken
  <2>3. \A v \in Vehicles : Passed(v)' = Passed(v)
    BY <1>4, <2>2 DEF Passed
  <2> QED
    BY <1>3, <1>4, <1>8, <2>2, <2>3 DEF ExactInv, Skip
<1>9. CASE Capture
  <2>1. /\ Considered /\ num_matches < max /\ unseen' = unseen \ {u}
        /\ overflowed' = [overflowed EXCEPT ![u] = {}] /\ num_matches' = num_matches + 1
    BY <1>9 DEF Capture, HasRoom
  <2>2. u \in unseen /\ u \in Here /\ u \in MatchingHere /\ FirstMatch(rule, u) <= event
    BY <1>7, <2>1
  <2>3. n < max /\ num_matches = n
    <3> HIDE DEF n, max
    <3> QED
      BY <1>2, <1>3, <2>1
  <2>4. u \notin Seen
    <3>1. SUFFICES ASSUME u \in Seen PROVE FALSE
      OBVIOUS
    <3>2. u \notin Captures(rule, Here)
      BY <1>3, <2>2, <3>1 DEF Taken
    <3>3. max < n
      BY <1>1, <2>2, <3>1, <3>2, CaptureFacts
    <3> HIDE DEF max, n
    <3> QED
      BY <1>2, <2>3, <3>3
  <2>5. FirstMatch(rule, u) = event
    BY <1>2, <1>5, <2>2, <2>4 DEF Seen
  <2>6. u \in Captures(rule, Here)
    BY <1>1, <2>2, <2>3, <2>5, CaptureFacts
  <2>7. Seen' = Seen \cup {u}
    BY <1>5, <1>6, <2>2, <2>5
  <2>8. Cardinality(Seen') = n + 1
    BY <1>2, <2>4, <2>7, FS_AddElement
  <2>9. Taken' = Taken \cup {u}
    BY <1>4, <2>6, <2>7 DEF Taken
  <2>10. unseen' = Here' \ Taken'
    BY <1>3, <1>4, <2>1, <2>9
  <2>11. \A v \in Vehicles : overflowed'[v] = IF v \in unseen' THEN Passed(v)' ELSE {}
    <3>1. \A v \in Vehicles : v # u => Passed(v)' = Passed(v)
      BY <1>4, <2>7 DEF Passed
    <3> QED
      BY <1>2, <1>3, <2>1, <3>1 DEF TypeInv, CountTypeOK
  <2>12. Cardinality(Seen') <= num_matches' /\ num_matches' = Cardinality(Seen')
    BY <1>2, <2>1, <2>3, <2>8
  <2> QED
    BY <1>3, <1>4, <2>10, <2>11, <2>12 DEF ExactInv
<1>10. CASE Overflow
  <2>1. /\ Considered /\ ~ (num_matches < max) /\ unseen' = unseen
        /\ overflowed' = [overflowed EXCEPT ![u] = @ \cup {rule}] /\ num_matches' = num_matches + 1
    BY <1>10 DEF Overflow, HasRoom
  <2>2. u \in unseen /\ u \in Here /\ u \in MatchingHere /\ FirstMatch(rule, u) <= event
    BY <1>7, <2>1
  <2>3. max <= n
    <3> HIDE DEF n, max
    <3> QED
      BY <1>2, <1>3, <2>1
  <2>4. Seen' = Seen \cup {u}
    <3>1. u \notin Seen => FirstMatch(rule, u) = event
      BY <1>2, <1>5, <2>2 DEF Seen
    <3> QED
      BY <1>5, <1>6, <2>2, <3>1
  <2>5. u \notin Captures(rule, Here)
    <3>1. CASE u \in Seen
      BY <1>3, <2>2, <3>1 DEF Taken
    <3>2. CASE u \notin Seen
      <4>1. FirstMatch(rule, u) = event
        BY <1>2, <1>5, <2>2, <3>2 DEF Seen
      <4>2. u \in Captures(rule, Here) <=> n < max
        BY <1>1, <2>2, <4>1, CaptureFacts
      <4> HIDE DEF n, max
      <4> QED
        BY <1>2, <2>3, <4>2
    <3> QED
      BY <3>1, <3>2
  <2>6. Taken' = Taken
    BY <1>4, <2>4, <2>5 DEF Taken
  <2>7. Cardinality(Seen') <= num_matches' /\ ~ (Cardinality(Seen') <= max)
    <3>1. CASE u \in Seen
      <4>1. max < n /\ Seen' = Seen
        BY <1>1, <2>2, <2>4, <2>5, <3>1, CaptureFacts
      <4> HIDE DEF max
      <4> QED
        BY <1>2, <1>3, <2>1, <4>1
    <3>2. CASE u \notin Seen
      <4>1. Cardinality(Seen') = n + 1
        BY <1>2, <2>4, <3>2, FS_AddElement
      <4> HIDE DEF n, max
      <4> QED
        BY <1>2, <1>3, <2>1, <2>3, <4>1
    <3> QED
      BY <3>1, <3>2
  <2>8. \A v \in Vehicles : overflowed'[v] = IF v \in unseen' THEN Passed(v)' ELSE {}
    <3>1. \A v \in Vehicles : Passed(v)' = IF v = u THEN Passed(v) \cup {rule} ELSE Passed(v)
      BY <1>4, <2>4 DEF Passed
    <3> QED
      BY <1>2, <1>3, <2>1, <2>2, <3>1 DEF TypeInv, CountTypeOK
  <2>9. unseen' = Here' \ Taken'
    BY <1>3, <1>4, <2>1, <2>6
  <2> QED
    BY <1>3, <1>4, <2>7, <2>8, <2>9 DEF ExactInv
<1> QED
  BY <1>1, <1>8, <1>9, <1>10

(***************************************************************************)
(* The end of a rule: it has seen all it matches.                          *)
(***************************************************************************)
LEMMA EndRuleExactInv ==
  ASSUME TypeInv, ExactInv, EndRule
  PROVE  /\ ExactInv' /\ Seen = MatchingHere /\ rule \in Rules
         /\ Here' = Left[rule] /\ SumMissing' = SumMissing
<1>1. /\ UNCHANGED <<input, unseen, captor, overflowed>>
      /\ rule' = rule + 1 /\ event' = 1 /\ num_matches' = 0
      /\ rule \in active => event > Len(events)
      /\ CountTypeOK
  BY DEF EndRule, TypeInv
<1>2. rule \in Rules /\ rule \in Nat /\ event \in Nat
  BY <1>1, EventFacts DEF EndRule, Done, CountTypeOK, Rules
<1>3. Len(events) \in Nat /\ DOMAIN events = 1 .. Len(events)
  BY <1>1, EventFacts
<1>4. Seen = MatchingHere
  <2>1. ASSUME NEW v \in MatchingHere PROVE FirstMatch(rule, v) < event
    <3>1. rule \in active
      BY DEF MatchingHere, Candidates
    <3>2. FirstMatch(rule, v) \in 1 .. Len(events)
      BY <1>3, MatchingFacts
    <3> QED
      BY <1>1, <1>2, <1>3, <3>1, <3>2
  <2> QED
    BY <2>1 DEF Seen
<1>5. /\ Left' = Left /\ SumMissing' = SumMissing /\ active' = active /\ devices' = devices
      /\ bounds' = bounds /\ \A v : Matched(v)' = Matched(v)
  BY <1>1, SameDefinition DEF input
<1>6. Here' = Left[rule]
  <2>1. rule' - 1 = rule
    BY <1>1, <1>2
  <2> QED
    BY <1>5, <2>1 DEF Here
<1>7. Left[rule] = Here \ Taken
  BY <1>2, <1>4, LeftFacts DEF Here, Taken, MatchingHere, Captures
<1>8. Seen' = {}
  <2>1. ASSUME NEW v \in MatchingHere' PROVE ~ (FirstMatch(rule, v)' < event')
    <3>1. rule + 1 \in Matched(v)
      BY <1>1, <1>5, <2>1 DEF MatchingHere, Candidates
    <3>2. FirstMatch(rule + 1, v) \in 1 .. Len(events)
      BY <1>1, <1>3, <3>1, FirstMatchFacts
    <3>3. FirstMatch(rule, v)' = FirstMatch(rule + 1, v)
      BY <1>1, SameDefinition
    <3> QED
      BY <1>1, <1>3, <3>2, <3>3
  <2> QED
    BY <2>1 DEF Seen
<1>9. Cardinality(Seen') = 0
  BY <1>8, FS_EmptySet
<1>10. Taken' = {}
  BY <1>8 DEF Taken
<1>11. ASSUME NEW v \in Vehicles, v \in unseen PROVE Passed(v)' = Passed(v)
  <2>1. v \in Seen <=> rule \in active /\ rule \in Matched(v)
    BY <1>4, <1>11 DEF ExactInv, MatchingHere, Candidates
  <2>2. 1 .. rule' - 1 = (1 .. rule - 1) \cup {rule}
    BY <1>1, <1>2 DEF Rules
  <2>3. Passed(v)' = {r \in 1 .. rule' - 1 : r \in active /\ r \in Matched(v)}
    BY <1>5, <1>8 DEF Passed
  <2> QED
    BY <2>1, <2>2, <2>3 DEF Passed
<1>12. ExactInv'
  <2>1. Here' \subseteq devices' /\ unseen' = Here' \ Taken'
    BY <1>1, <1>5, <1>6, <1>7, <1>10 DEF ExactInv
  <2>2. Cardinality(Seen') <= num_matches' /\ num_matches' = Cardinality(Seen')
    BY <1>1, <1>9
  <2>3. \A v \in Vehicles : overflowed'[v] = IF v \in unseen' THEN Passed(v)' ELSE {}
    BY <1>1, <1>11 DEF ExactInv
  <2> QED
    BY <2>1, <2>2, <2>3 DEF ExactInv
<1> QED
  BY <1>2, <1>4, <1>5, <1>6, <1>12

LEMMA NextExactInv == TypeInv /\ ExactInv /\ [CountNext]_countVars => ExactInv'
<1> SUFFICES ASSUME TypeInv, ExactInv, [CountNext]_countVars PROVE ExactInv'
  OBVIOUS
<1>1. CASE UNCHANGED countVars
  <2>1. UNCHANGED input /\ UNCHANGED loop
    BY <1>1 DEF countVars
  <2>2. Here' = Here
    BY <2>1, SameDefinition DEF Here, loop
  <2>3. Seen' = Seen /\ Taken' = Taken
    BY <2>1, <2>2, SameDefinition DEF Seen, Taken, MatchingHere, loop
  <2>4. \A v : Passed(v)' = Passed(v)
    BY <2>1, <2>3, SameDefinition DEF Passed, input, loop
  <2> QED
    BY <2>1, <2>2, <2>3, <2>4 DEF ExactInv, input, loop
<1> QED
  BY <1>1, ExamineExactInv, EndRuleExactInv DEF CountNext

LEMMA ExactInvAlways == CountSpec => [](TypeInv /\ ExactInv)
<1>1. CountInit => TypeInv /\ ExactInv
  BY InitTypeInv, InitExactInv
<1>2. TypeInv /\ ExactInv /\ [CountNext]_countVars => TypeInv' /\ ExactInv'
  BY NextTypeInv, NextExactInv
<1> QED
  BY <1>1, <1>2, PTL DEF CountSpec

(***************************************************************************)
(* The vehicles reported as violating are those of the definition: those   *)
(* that no rule captures and an active rule matches.                       *)
(***************************************************************************)
LEMMA ViolatingFacts == TypeInv /\ ExactInv /\ Done => Overflows = Violating
<1> SUFFICES ASSUME TypeInv, ExactInv, Done PROVE Overflows = Violating
  OBVIOUS
<1>1. CountTypeOK /\ NumRules \in Nat /\ rule \in Nat /\ rule \in 1 .. NumRules + 1
  BY EventFacts DEF TypeInv, CountTypeOK
<1>2. rule - 1 = NumRules /\ rule \notin Rules
  BY <1>1 DEF Done, Rules
<1>3. Here = Left[NumRules] /\ MatchingHere = {}
  BY <1>1, <1>2 DEF Here, MatchingHere, Candidates, CountTypeOK
<1>4. Seen = {} /\ unseen = Left[NumRules] /\ unseen \subseteq Vehicles
  BY <1>1, <1>3 DEF Seen, Taken, ExactInv, CountTypeOK
<1>5. \A v \in Vehicles : Passed(v) = Matched(v) \cap active
  BY <1>1, <1>2, <1>4 DEF Passed, Matched, Rules, CountTypeOK
<1> QED
  BY <1>4, <1>5 DEF Overflows, Violating, ExactInv

(* The vehicles processCountPolicy reports are those of the definition.    *)
THEOREM ViolationsAreExact == CountSpec => [](Done => Overflows = Violating)
  BY ViolatingFacts, ExactInvAlways, PTL

(***************************************************************************)
(* What is missing from the minima is that of the definition too, if no    *)
(* rule has a minimum above its maximum: a vehicle that overflows twice is *)
(* counted twice, but then the maximum has been reached.                   *)
(***************************************************************************)
MissingInv == missing = SumMissing[rule - 1]

LEMMA InitMissingInv == CountInit => MissingInv
  BY SumFacts DEF CountInit, MissingInv

LEMMA NextMissingInv ==
  ASSUME \A b \in Bounds : b.min <= b.max, TypeInv, ExactInv, MissingInv, [CountNext]_countVars
  PROVE  MissingInv'
<1>1. CASE UNCHANGED countVars
  BY <1>1, SameDefinition DEF countVars, loop, MissingInv
<1>2. CASE Examine
  BY <1>2, SameDefinition DEF Examine, MissingInv
<1>3. CASE EndRule
  <2>1. /\ Seen = MatchingHere /\ rule \in Rules /\ SumMissing' = SumMissing
    BY <1>3, EndRuleExactInv
  <2>2. /\ CountTypeOK /\ rule \in Nat /\ rule' = rule + 1 /\ missing \in Nat /\ num_matches \in Nat
    BY <1>3, EventFacts DEF EndRule, TypeInv, CountTypeOK
  <2>3. SumMissing[rule] = missing + Lacks(rule)
    BY <2>1, SumFacts DEF MissingInv
  <2>4. rule' - 1 = rule
    BY <2>2
  <2>5. CASE rule \notin active
    BY <1>3, <2>1, <2>2, <2>3, <2>4, <2>5 DEF EndRule, Lacks, MissingInv
  <2>6. CASE rule \in active
    <3> DEFINE n == Cardinality(MatchingHere)
               b == bounds[rule]
    <3>1. /\ n \in Nat /\ n <= num_matches
          /\ n <= b.max => num_matches = n
      BY <2>1, <2>6, MatchingFacts DEF ExactInv
    <3>2. b.min \in Nat /\ b.max \in Nat /\ b.min <= b.max
      BY <2>1, <2>2, CountConstantsOK DEF CountTypeOK
    <3>3. Lacks(rule) = Shortfall(b.min, n)
      BY <2>6 DEF Lacks, MatchingHere, Here
    <3>4. missing' = missing + Shortfall(b.min, num_matches)
      BY <1>3, <2>6 DEF EndRule
    <3> HIDE DEF n, b
    <3>5. Shortfall(b.min, num_matches) = Shortfall(b.min, n)
      BY <2>2, <3>1, <3>2 DEF Shortfall
    <3> QED
      BY <2>1, <2>3, <2>4, <3>3, <3>4, <3>5 DEF MissingInv
  <2> QED
    BY <2>5, <2>6
<1> QED
  BY <1>1, <1>2, <1>3 DEF CountNext

(* processCountPolicy returns what the comment of the code defines.        *)
THEOREM CountsAreExact ==
  ASSUME \A b \in Bounds : b.min <= b.max
  PROVE  CountSpec => []ResultIsExact
<1>1. CountInit => TypeInv /\ ExactInv /\ MissingInv
  BY InitTypeInv, InitExactInv, InitMissingInv
<1>2. TypeInv /\ ExactInv /\ MissingInv /\ [CountNext]_countVars => TypeInv' /\ ExactInv' /\ MissingInv'
  BY NextTypeInv, NextExactInv, NextMissingInv
<1>3. TypeInv /\ ExactInv /\ MissingInv => ResultIsExact
  <2> SUFFICES ASSUME TypeInv, ExactInv, MissingInv, Done
               PROVE  Overflows = Violating /\ missing = SumMissing[NumRules]
    BY DEF ResultIsExact
  <2>1. rule - 1 = NumRules
    BY EventFacts DEF TypeInv, CountTypeOK, Done
  <2> QED
    BY <2>1, ViolatingFacts DEF MissingInv
<1> QED
  BY <1>1, <1>2, <1>3, PTL DEF CountSpec

===============================================================================

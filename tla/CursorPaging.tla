----------------------------- MODULE CursorPaging -----------------------------
(***************************************************************************)
(* Paged listings of a table that others write to: getEvents and           *)
(* getEventsWithDeviceAndTelemetryInfo and getDevices of the ingest        *)
(* service, getTransactions of the transaction service.  A request returns *)
(* a page and the cursors of the next and the previous one, and the client *)
(* follows them.  Rows get their ids, which grow, when they are inserted,  *)
(* and are visible once their transaction commits, in any order.           *)
(***************************************************************************)
EXTENDS Naturals, Sequences, FiniteSets, SequencesExt

CONSTANTS
  Devices,     \* devices the rows are about
  MaxTime,     \* timestamps are 0 .. MaxTime
  MaxRows,     \* bound on the rows
  Listings     \* requests a client may make

(* A page has `limit` rows; `column` orders them, and `tie` adds the id to *)
(* the pagination keys; `latest` keeps the last row of a vehicle; `only`   *)
(* is a filter, which the cursor carries to the next page if it `keeps`    *)
(* it; with `follow` a full or last page has a next one all the same.      *)
ASSUME ConstantsOK ==
  /\ MaxTime \in Nat /\ MaxRows \in Nat
  /\ Listings \subseteq [column : {"timestamp", "id"}, tie : BOOLEAN, desc : BOOLEAN,
                         limit : Nat \ {0}, latest : BOOLEAN, only : SUBSET Devices,
                         keeps : BOOLEAN, follow : BOOLEAN]

VARIABLES
  rows,      \* rows by id
  listing,   \* the request of the client
  started,   \* the ids that were visible at its first page; {0} before
  pages,     \* the pages it read, each a sequence of ids
  cursor,    \* the ids at which the next and the previous page begin, or 0
  forward    \* the client followed next cursors only

reader == <<listing, started, pages, cursor, forward>>
vars == <<rows, reader>>

Ids == 1 .. MaxRows
Row == [vehicle : Devices, ts : 0 .. MaxTime, visible : BOOLEAN]
NotStarted == {0}

Visible == {i \in DOMAIN rows : rows[i].visible}
Started == started # NotStarted

(***************************************************************************)
(* Writers.  The key of a row is its device and timestamp.                 *)
(***************************************************************************)
Insert(v, t) ==
  /\ Len(rows) < MaxRows
  /\ \A i \in DOMAIN rows : ~ (rows[i].vehicle = v /\ rows[i].ts = t)
  /\ rows' = Append(rows, [vehicle |-> v, ts |-> t, visible |-> FALSE])
  /\ UNCHANGED reader

Commit(i) ==
  /\ i \in DOMAIN rows \ Visible
  /\ rows' = [rows EXCEPT ![i].visible = TRUE]
  /\ UNCHANGED reader

(***************************************************************************)
(* A query.  RANK() = 1 of each vehicle by descending timestamp, whatever  *)
(* the cursor says.                                                        *)
(***************************************************************************)
IsLatest(i) ==
  \A j \in Visible : rows[j].vehicle = rows[i].vehicle => rows[j].ts <= rows[i].ts

Matching(l, filter) ==
  {i \in Visible : rows[i].vehicle \in filter /\ (l.latest => IsLatest(i))}

Ascends(l, i, j) ==
  IF l.column = "id" THEN i < j
  ELSE \/ rows[i].ts < rows[j].ts
       \/ l.tie /\ rows[i].ts = rows[j].ts /\ i < j

(* Mutant: the order of the options is dropped.                            *)
FollowsDefault(l, i, j) == Ascends(l, i, j)

Follows(l, i, j) == IF l.desc THEN Ascends(l, i, j) ELSE Ascends(l, j, i)

(* The order of rows that compare equal is PostgreSQL's: here, of the ids. *)
Precedes(l, i, j) == Follows(l, j, i) \/ (~ Follows(l, i, j) /\ i < j)

Rank(l, S, i) == Cardinality({j \in S : Precedes(l, j, i)})

Sorted(l, S) ==
  [n \in 1 .. Cardinality(S) |-> CHOOSE i \in S : Rank(l, S, i) = n - 1]

Take(s, n) == SubSeq(s, 1, IF Len(s) < n THEN Len(s) ELSE n)

(* Mutant: the row of the cursor is on the page as well.                   *)
PageFrom(l, filter, c) ==
  Take(Sorted(l, {i \in Matching(l, filter) : c # 0 => ~ Follows(l, c, i)}), l.limit + 1)

(* The page after or before a cursor: one row more than the limit tells    *)
(* whether there are more, and a page before is read in reverse.           *)
PageAfter(l, filter, c) ==
  Take(Sorted(l, {i \in Matching(l, filter) : c # 0 => Follows(l, i, c)}), l.limit + 1)

PageBefore(l, filter, c) ==
  Take(Reverse(Sorted(l, {i \in Matching(l, filter) : Follows(l, c, i)})), l.limit + 1)

(* Mutants: a page before is returned in the order it is read; the row too *)
(* many is left in the page.                                               *)
PageUnreversed(l, read, dir) == Take(read, l.limit)
PageUnspliced(l, read, dir) == IF dir = "before" THEN Reverse(read) ELSE read

Page(l, read, dir) ==
  IF dir = "before" THEN Reverse(Take(read, l.limit)) ELSE Take(read, l.limit)

HasMore(l, read) == Len(read) > l.limit

(* Mutant: the cursor of the next page is the row that begins it.          *)
NextCursorIsNext(l, read, dir) ==
  IF Page(l, read, dir) = <<>> THEN 0
  ELSE IF dir = "before" THEN Last(Page(l, read, dir))
  ELSE IF HasMore(l, read) THEN Last(read)
  ELSE IF l.follow THEN Last(Page(l, read, dir)) ELSE 0

(* A next page exists when there are more rows, and behind a previous one. *)
(* With `follow` the last page has one, unless it is empty.                *)
NextCursor(l, read, dir) ==
  IF Page(l, read, dir) # <<>> /\ (dir = "before" \/ HasMore(l, read) \/ l.follow)
  THEN Last(Page(l, read, dir)) ELSE 0

PrevCursor(l, read, dir) ==
  IF Page(l, read, dir) # <<>> /\ (dir = "after" \/ (dir = "before" /\ HasMore(l, read)) \/ l.follow)
  THEN Head(Page(l, read, dir)) ELSE 0

Reads(l, read, dir) ==
  cursor' = [next |-> NextCursor(l, read, dir), prev |-> PrevCursor(l, read, dir)]

(***************************************************************************)
(* The client goes on to the next page or back to the page before, among   *)
(* those it has read.                                                      *)
(***************************************************************************)
FirstPage(l) ==
  LET read == PageAfter(l, l.only, 0) IN
  /\ ~ Started
  /\ listing' = l
  /\ started' = Visible
  /\ pages' = <<Page(l, read, "first")>>
  /\ Reads(l, read, "first")
  /\ UNCHANGED <<rows, forward>>

Filter == IF listing.keeps THEN listing.only ELSE Devices

NextPage ==
  LET read == PageAfter(listing, Filter, cursor.next) IN
  /\ Started /\ cursor.next # 0
  /\ pages' = Append(pages, Page(listing, read, "after"))
  /\ Reads(listing, read, "after")
  /\ UNCHANGED <<rows, listing, started, forward>>

PreviousPage ==
  LET read == PageBefore(listing, Filter, cursor.prev) IN
  /\ Started /\ cursor.prev # 0 /\ Len(pages) > 1
  /\ pages' = Append(SubSeq(pages, 1, Len(pages) - 2), Page(listing, read, "before"))
  /\ Reads(listing, read, "before")
  /\ forward' = FALSE
  /\ UNCHANGED <<rows, listing, started>>

-----------------------------------------------------------------------------

Init ==
  /\ rows = <<>>
  /\ listing \in Listings
  /\ started = NotStarted
  /\ pages = <<>>
  /\ cursor = [next |-> 0, prev |-> 0]
  /\ forward = TRUE

Writer ==
  \/ \E v \in Devices, t \in 0 .. MaxTime : Insert(v, t)
  \/ \E i \in DOMAIN rows : Commit(i)

Next == Writer \/ FirstPage(listing) \/ NextPage \/ PreviousPage

Spec == Init /\ [][Next]_vars

-----------------------------------------------------------------------------

Read == UNION {ToSet(pages[n]) : n \in DOMAIN pages}

(* A place on one of the pages.                                            *)
Places == UNION {{n} \X DOMAIN pages[n] : n \in DOMAIN pages}

TypeOK ==
  /\ rows \in Seq(Row) /\ Len(rows) <= MaxRows
  /\ listing \in Listings
  /\ started \in {NotStarted} \cup SUBSET Ids
  /\ pages \in Seq(Seq(Ids))
  /\ \A n \in DOMAIN pages : Len(pages[n]) <= listing.limit
  /\ cursor \in [next : {0} \cup Ids, prev : {0} \cup Ids]
  /\ forward \in BOOLEAN

(* While nothing is written, a client that goes forth and back holds the   *)
(* first pages of the listing in its order: the conditions for the cursors *)
(* and the reversal of a previous page, copied from the library into       *)
(* paginateEventTelemetry, agree.                                          *)
QuietIsExact ==
  Started /\ Visible = started =>
    LET all == Sorted(listing, Matching(listing, listing.only)) IN
    \A n \in DOMAIN pages :
      pages[n] = SubSeq(Take(all, n * listing.limit), (n - 1) * listing.limit + 1,
                        Len(Take(all, n * listing.limit)))

(* A client that goes on reads no row twice, whatever is written meanwhile, *)
(* and of a listing that keeps every row it has read the rows there were   *)
(* at its first page, up to its cursor, or all of them at its end.         *)
ReadOnce ==
  \A p, q \in Places : pages[p[1]][p[2]] = pages[q[1]][q[2]] => p = q

NoneSkipped ==
  Started /\ ~ listing.latest =>
    \A i \in started :
      rows[i].vehicle \in listing.only =>
        i \in Read \/ (cursor.next # 0 /\ Follows(listing, i, cursor.next))

RowsReadOnce == forward => ReadOnce /\ NoneSkipped

(* The latest events in ascending order, as the compliance engine reads    *)
(* them (getProviderInputs): an event that arrives between two pages       *)
(* displaces an older one, and still no vehicle is left out.               *)
VehiclesRead ==
  forward /\ Started /\ cursor.next = 0 /\ listing.latest =>
    \A i \in started :
      rows[i].vehicle \in listing.only =>
        \E j \in Read : rows[j].vehicle = rows[i].vehicle

(* What does not hold.  A page holds what the request asked for.           *)
PagesMatch == \A i \in Read : rows[i].vehicle \in listing.only

(* A client that follows has read every row that its cursor has passed.    *)
FollowerMissesNothing ==
  Started /\ listing.follow /\ cursor.next # 0 =>
    \A i \in Visible : i <= cursor.next => i \in Read

=============================================================================

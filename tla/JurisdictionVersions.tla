------------------------- MODULE JurisdictionVersions -------------------------
(***************************************************************************)
(* The jurisdictions of mds-jurisdiction-service.  A row keeps the         *)
(* versions of a jurisdiction, the latest first, and a reader is shown the *)
(* one in effect at a time.  A version may lie in the future; a deletion   *)
(* is a version without a geography.  An update and a deletion read the    *)
(* row and write it back in two statements, without a transaction.         *)
(***************************************************************************)
EXTENDS Integers, SequencesExt

CONSTANTS
  Jurisdictions, Keys, Names, Geographies,
  None,        \* what is not given, or not there
  Creations,   \* what createJurisdictions is called with: sets of Body
  Patches,     \* what updateJurisdiction is called with, of Patch
  Requests, Ops,
  MaxTime      \* bound of the clock

Times == 0 .. MaxTime
Body == [id : Jurisdictions, key : Keys, name : Names, geography : Geographies,
         at : Times \cup {None}]
Patch == [id : Jurisdictions \cup {None}, key : Keys \cup {None},
          name : Names \cup {None}, geography : Geographies \cup {None},
          at : Times \cup {None}]
Version == [at : Times, name : Names, geography : Geographies \cup {None}]
Row == [key : Keys, versions : Seq(Version)]

(* What a request knows between its two statements: the row it read, the   *)
(* version that was in effect then, and the row it will write.             *)
Prepared == [id : Jurisdictions, read : Row, current : Version, row : Row]

ASSUME ConstantsOK ==
  /\ MaxTime \in Nat
  /\ None \notin Jurisdictions \cup Keys \cup Names \cup Geographies \cup Times
                   \cup Version \cup Row \cup Prepared
  /\ Creations \subseteq SUBSET Body /\ Patches \subseteq Patch
  /\ Ops \subseteq {"create", "update", "delete"}

VARIABLES
  rows,     \* the table: a key and the versions of each jurisdiction
  now,
  pc, answer,
  writing   \* of a request: what it has prepared to write

vars == <<rows, now, pc, answer, writing>>

Known == {j \in Jurisdictions : rows[j] # None}
Given(value, default) == IF value # None THEN value ELSE default

(***************************************************************************)
(* versions.find(({ timestamp }) => effective >= timestamp), the first in  *)
(* the array; the version of a deletion shows nothing.                     *)
(***************************************************************************)
Past(versions, t) == {i \in DOMAIN versions : versions[i].at <= t}

Find(versions, t) ==
  IF Past(versions, t) = {} THEN None
  ELSE LET first == versions[Min(Past(versions, t))] IN
       IF first.geography = None THEN None ELSE first

(* What getJurisdiction(j, { effective: t }) finds. *)
Read(j, t) == IF j \in Known THEN Find(rows[j].versions, t) ELSE None

(* Mutant: the new version is put first, as if it were always the latest.  *)
Unsorted(v, versions) == <<v>> \o versions

(* [v, ...versions].sort((a, b) => b.timestamp - a.timestamp): stable, and *)
(* the versions are in this order already, so v goes before the first that *)
(* is not later.                                                           *)
Place(v, versions) == Min(Past(versions, v.at) \cup {Len(versions) + 1})
Sorted(v, versions) == InsertAt(versions, Place(v, versions), v)

Starts(r, op) == op \in Ops /\ pc[r] = "idle"

Answers(r, a) ==
  /\ pc' = [pc EXCEPT ![r] = "done"]
  /\ answer' = [answer EXCEPT ![r] = a]

(***************************************************************************)
(* createJurisdictions: one INSERT of all.  The jurisdiction_id is the     *)
(* primary key and the agency_key is unique.                               *)
(***************************************************************************)
Insertable(bodies) ==
  \A b \in bodies :
    /\ b.id \notin Known
    /\ \A j \in Known : rows[j].key # b.key
    /\ \A c \in bodies : c # b => c.id # b.id /\ c.key # b.key

(* Mutant: the time is not filled in. *)
FirstUndated(b) ==
  [key |-> b.key, versions |-> <<[at |-> b.at, name |-> b.name, geography |-> b.geography]>>]

First(b) ==
  [key |-> b.key,
   versions |-> <<[at |-> Given(b.at, now), name |-> b.name, geography |-> b.geography]>>]

Create(r) ==
  /\ Starts(r, "create")
  /\ \E bodies \in Creations :
       IF ~Insertable(bodies) THEN Answers(r, "conflict") /\ rows' = rows
       ELSE /\ rows' = [j \in Jurisdictions |->
                 IF \E b \in bodies : b.id = j
                 THEN First(CHOOSE b \in bodies : b.id = j)
                 ELSE rows[j]]
            /\ Answers(r, "ok")
  /\ UNCHANGED <<now, writing>>

(***************************************************************************)
(* updateJurisdiction and deleteJurisdiction: the row is read, checked and *)
(* made into the one to write.                                             *)
(***************************************************************************)
WillWrite(r, j, current, key, versions) ==
  /\ writing' = [writing EXCEPT ![r] =
       [id |-> j, read |-> rows[j], current |-> current,
        row |-> [key |-> key, versions |-> versions]]]
  /\ pc' = [pc EXCEPT ![r] = "write"]
  /\ answer' = answer

Refuses(r, a) == Answers(r, a) /\ writing' = writing

Changes(p, current) ==
  \/ p.name \notin {None, current.name}
  \/ p.geography \notin {None, current.geography}

Updated(p, current) ==
  [at |-> Given(p.at, now), name |-> Given(p.name, current.name),
   geography |-> Given(p.geography, current.geography)]

(* Mutant: the version may be older than the current one. *)
UpdateAnyTime(r) ==
  /\ Starts(r, "update")
  /\ \E j \in Jurisdictions, p \in Patches :
       LET current == Read(j, now) IN
       IF p.id \notin {None, j} THEN Refuses(r, "conflict")
       ELSE IF current = None THEN Refuses(r, "notFound")
       ELSE WillWrite(r, j, current, Given(p.key, rows[j].key),
              IF Changes(p, current) THEN Sorted(Updated(p, current), rows[j].versions)
              ELSE rows[j].versions)
  /\ UNCHANGED <<rows, now>>

(* Mutant: the version that a deletion added is taken for the current one. *)
UpdateDeleted(r) ==
  /\ Starts(r, "update")
  /\ \E j \in Jurisdictions, p \in Patches :
       IF p.id \notin {None, j} THEN Refuses(r, "conflict")
       ELSE IF j \notin Known THEN Refuses(r, "notFound")
       ELSE LET current == Head(rows[j].versions) IN
         IF Given(p.at, now) <= current.at THEN Refuses(r, "invalid")
         ELSE WillWrite(r, j, current, Given(p.key, rows[j].key),
                IF Changes(p, current) THEN Sorted(Updated(p, current), rows[j].versions)
                ELSE rows[j].versions)
  /\ UNCHANGED <<rows, now>>

Update(r) ==
  /\ Starts(r, "update")
  /\ \E j \in Jurisdictions, p \in Patches :
       LET current == Read(j, now) IN
       IF p.id \notin {None, j} THEN Refuses(r, "conflict")
       ELSE IF current = None THEN Refuses(r, "notFound")
       ELSE IF Given(p.at, now) <= current.at THEN Refuses(r, "invalid")
       ELSE WillWrite(r, j, current, Given(p.key, rows[j].key),
              IF Changes(p, current) THEN Sorted(Updated(p, current), rows[j].versions)
              ELSE rows[j].versions)
  /\ UNCHANGED <<rows, now>>

Delete(r) ==
  /\ Starts(r, "delete")
  /\ \E j \in Jurisdictions :
       LET current == Read(j, now) IN
       IF current = None THEN Refuses(r, "notFound")
       ELSE WillWrite(r, j, current, rows[j].key,
              Sorted([at |-> now, name |-> current.name, geography |-> None], rows[j].versions))
  /\ UNCHANGED <<rows, now>>

(* The UPDATE, which fails on the key of another jurisdiction. *)
Write(r) ==
  /\ pc[r] = "write"
  /\ LET w == writing[r] IN
     IF \E j \in Known \ {w.id} : rows[j].key = w.row.key
     THEN Answers(r, "conflict") /\ rows' = rows
     ELSE Answers(r, "ok") /\ rows' = [rows EXCEPT ![w.id] = w.row]
  /\ writing' = [writing EXCEPT ![r] = None]
  /\ UNCHANGED now

Tick ==
  /\ now < MaxTime
  /\ now' = now + 1
  /\ UNCHANGED <<rows, pc, answer, writing>>

Init ==
  /\ rows = [j \in Jurisdictions |-> None]
  /\ now = 0
  /\ pc = [r \in Requests |-> "idle"]
  /\ answer = [r \in Requests |-> None]
  /\ writing = [r \in Requests |-> None]

Serve(r) == Create(r) \/ Update(r) \/ Delete(r) \/ Write(r)
Next == Tick \/ \E r \in Requests : Serve(r)

Spec == Init /\ [][Next]_vars
-----------------------------------------------------------------------------
TypeOK ==
  /\ rows \in [Jurisdictions -> Row \cup {None}]
  /\ now \in Times
  /\ pc \in [Requests -> {"idle", "write", "done"}]
  /\ answer \in [Requests -> {None, "ok", "conflict", "notFound", "invalid"}]
  /\ writing \in [Requests -> Prepared \cup {None}]

(***************************************************************************)
(* A reader is shown the version with the highest timestamp that is not    *)
(* after the time it asks for, in whatever order versions were added: find *)
(* relies on every writer to keep the latest first.                        *)
(***************************************************************************)
FindsLatest ==
  \A j \in Known, t \in Times :
    LET versions == rows[j].versions
        past == Past(versions, t)
        latest == {versions[i] : i \in {i \in past : \A k \in past : versions[k].at <= versions[i].at}}
    IN IF Read(j, t) # None THEN Read(j, t) \in latest
       ELSE latest = {} \/ \E v \in latest : v.geography = None

(***************************************************************************)
(* A request is overtaken when the row it is about to replace is no longer *)
(* the one it read; it lands with the answer to its UPDATE.                *)
(***************************************************************************)
Overtaken(r) == pc[r] = "write" /\ rows[writing[r].id] # writing[r].read
Lands(r, j) == pc[r] = "write" /\ pc'[r] = "done" /\ writing[r].id = j

(***************************************************************************)
(* History stays as it was, whoever else is between two statements: unless *)
(* a writer was overtaken, what is shown of a time changes only as of the  *)
(* version it found in effect, which a new version must be later than, and *)
(* only where something is shown.  So what is not in effect is brought     *)
(* back by time (a version of the future) or by a request overtaken by the *)
(* deletion, and by nothing else: an update does not find it, its id       *)
(* cannot be inserted again, and a late writer's version is of a time      *)
(* that nobody has deleted if the row is as it was.                        *)
(***************************************************************************)
HistoryKept ==
  [][\A j \in Known, t \in Times :
       Read(j, t)' # Read(j, t) =>
         \E r \in Requests :
           /\ Lands(r, j)
           /\ Overtaken(r) \/ (writing[r].current.at <= t /\ Read(j, t) # None)]_vars

(***************************************************************************)
(* However writers overtake each other, a jurisdiction keeps the version   *)
(* it was created with, as its earliest: every row that is written was     *)
(* made from a row that had it, and no version goes before it.             *)
(***************************************************************************)
OriginKept ==
  [][\A j \in Known : Last(rows[j].versions)' = Last(rows[j].versions)]_vars

(***************************************************************************)
(* Statements that the code does not keep when requests overlap: no        *)
(* version is lost, and no request brings a deleted jurisdiction back.     *)
(* MCJurisdictionRace.cfg shows how.                                       *)
(***************************************************************************)
Held(j) == {rows[j].versions[i] : i \in DOMAIN rows[j].versions}

VersionsKept == [][\A j \in Known : Held(j) \subseteq Held(j)']_vars

OnlyTimeRevives ==
  [][\A j \in Known : Read(j, now) = None /\ now' = now => Read(j, now)' = None]_vars

(***************************************************************************)
(* A deleted jurisdiction is not found, however long one waits.  (A test   *)
(* of the service deletes a jurisdiction and expects not to find it.)      *)
(***************************************************************************)
Deleted(j) ==
  \E i \in DOMAIN rows[j].versions :
    rows[j].versions[i].geography = None /\ rows[j].versions[i].at <= now

DeletedStaysDeleted == \A j \in Known : Deleted(j) => Read(j, now) = None
=============================================================================

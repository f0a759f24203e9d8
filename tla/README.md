# mds-core: models and proofs

TLA+ modules for the core of mds-core, the Mobility Data Specification back end:
the life cycles of geographies and policies, the intake of vehicles, events and
telemetry, the stream processors, transactions and the client that retries them,
jurisdictions, the processes services run in, paged listings, and the count rules
of the compliance engine. TLC checks them on small instances; the
proof modules hold theorems that TLAPS checks for every value of the constants.
File names below are relative to `src/packages`.

    tlc -config MCPolicyLifecycle.cfg MCPolicyLifecycle.tla     one run
    tlapm PolicyLifecycleProofs.tla                             one proof module

## 1. The system

Stateless HTTP APIs (`mds-*-api`, `mds-agency`, `mds-policy`) validate a request,
authorize it and call a service. Services (`mds-*-service`) run as processes of
their own, are called by RPC, and keep their state in PostgreSQL through TypeORM.
The agency API keeps a Redis cache next to its tables. Services and the agency
write to Kafka or NATS; stream processors read Kafka and write to other topics or
services. Every process is one Node.js event loop: code between two `await`s is
indivisible, everything else interleaves, and several replicas of each process run.
Two facts shape the hazards: there are few transactions and no explicit locks, so
a check made by one statement is stale when the next one runs; and a write that
goes to several places goes there under a `Promise.all`, whose first rejection
answers the request while the other writes go on.

### Components

| component | state | operations | interacts with | what makes it correct |
|---|---|---|---|---|
| geography service, author API | tables `geographies`, `geography_metadata` | create, publish, publish on create, edit, delete, metadata | its API by RPC; the policy service asks for publication dates | a published geography is frozen; success of a publication means it was this one that published |
| policy service, author API | tables `policies`, `policy_metadata`; Kafka topic `policy` | write, edit, delete, publish, intent, metadata, supersession | geography service by RPC, Kafka | a published policy is frozen, streamed, acknowledged once; supersession is recorded truly; its geographies are published and its rules unique |
| agency (`mds-agency`, `mds-agency-cache`, `mds-db`) | tables `devices`, `events`, `telemetry`; Redis hashes and a geo set; streams | register, update, event, telemetry | PostgreSQL, ingest service, Redis, streams | an event is accepted once; the cache never holds what is not recorded, and a later request never takes it back to something older |
| stream processor, `mds-stream` | offsets of a consumer group, connections | initialize, consume, transform, write, dead letter, reconnect, stop | Kafka by KafkaJS, sinks | what is acknowledged is written or in a dead letter sink; repeats only after a restart; the partition is consumed |
| ingest service | events, telemetry, annotations | write events, cursors | agency, compliance | a client that pages reads each row once and skips none that was there |
| transaction service | transactions, operations, statuses; topic | create one or many, status, operations | Kafka | what is recorded is streamed; a bulk write is recorded in whole or not at all |
| jurisdiction service | versions of a jurisdiction in one row | create, update, delete, effective at a time | its API by RPC | the version found is the latest in effect; history is rewritten at most by a request that was overtaken; the first version is never lost |
| compliance engine, batch processor, service | snapshots | process policies, read violation periods | ingest, policy, geography, jurisdiction services | the vehicles that violate a count policy are those for which no rule has room; each snapshot is kept once |
| service-helpers (`ProcessManager`, `ServiceManager`) | controller, retries, signal handlers | start, retry, stop | every process | a signal ends the process, with nothing left open |
| rpc-common | server, client | serve, call, retry | every API and service | it serves only while its services are started; a retried call does not do its work twice |
| repository (`ConnectionManager`) | read and write connections | connect, disconnect, transaction | every service | one connection per mode, connected while it is used |
| audit API and service, attachments, collector, provider service | one or two tables each; S3; Kafka; a schema cache | create, append, read | PostgreSQL, S3, Kafka | an audit ends once; what is acknowledged is stored |
| types, utils | the vehicle state machine, as tables | which event may follow which | agency, compliance | each event leads to a state it may lead to |
| read-only APIs, config, authorizer, helpers, validators, logger, fixtures, build | none that changes | | | |

`PROJECT.json` lists every package with its status and the reason for what is left
out, and every hazard at its line with the properties that cover it.

### What is hard here

- *Check, then act.* Each service reads a row, decides, and writes with a `WHERE`
  clause that repeats some of what it decided on: `publish_date IS NULL` is in the
  clause, the start date, the geographies and the uniqueness of rules are not.
- *Read, extend, write.* Superseded policies and jurisdiction versions are arrays
  that are read, appended to and written back.
- *Several stores.* Kafka before the commit, the cache and the stream after it;
  each may fail by itself while the request is answered.
- *Order.* Providers send events and telemetry late and in any order; the cache
  has to keep the latest.
- *At least once.* Consumers repeat what was not acknowledged; what cannot be
  processed goes to dead letters; crashes and stops happen between any two steps.
- *Retries.* A start is retried while connections of the attempt before are still
  being made; a call is sent again while the service may be at work on it.
- *Pages.* A listing is read page by page while others write to it.

## 2. Modules

| module | models |
|---|---|
| `GeographyCatalog` | what the geography service promises: a status per geography that is absent, draft or published, and single steps between them |
| `GeographyLifecycle` | `mds-geography-service` and the five writing handlers of its author API; `ImplementsCatalog` is the refinement |
| `PolicyLifecycle` | `mds-policy-service` and the writing handlers of its author API, composed with an instance of `GeographyCatalog` as its geography service |
| `AgencyIngest` | the writing handlers of `mds-agency` with `mds-agency-cache` and the tables of `mds-db` they use |
| `AgencyOrder` | the requests of `AgencyIngest` with two history variables: which requests were over when one started, and which writes to the cache were carried out |
| `StreamProcessor` | `mds-stream-processor`, its Kafka sources and sinks, and the `mds-stream` consumer and producer |
| `ServiceProcess` | `ProcessMonitor` of `mds-service-helpers`, `RpcServiceManager` of `mds-rpc-common` and `ConnectionManager` of `mds-repository`, as one process |
| `TransactionLedger` | what the transaction service promises a caller: a call is recorded in whole, in one step and once, and its answer is true |
| `TransactionService` | the writes of `mds-transaction-service`, composed with the RPC client and its retries; `ImplementsLedger` is the refinement |
| `JurisdictionVersions` | `mds-jurisdiction-service` |
| `CursorPaging` | a client that pages through a listing of the ingest or transaction service while others write |
| `ComplianceCount` | `processCountPolicy` of `mds-compliance-engine`, loop by loop, with a definition to compare it with |
| `MC...` | the constants TLC needs; no behaviour |
| `...Proofs` | the theorems about the module of that name; `ComplianceProofs` is about `CursorPaging` and `ComplianceCount` |

### How they correspond to the code

All modules use one convention. `pc[r]` says at which `await` request `r` is,
`call[r]` what it was asked, and the other per-request variables are the
handler's local variables that live across an `await`. An action is the code from
one `await` to the next: one SQL statement with the test of its result, one Redis
command or `MULTI`, one RPC or one write to a stream. So each place where the
event loop or another replica can step in is a place where TLC interleaves.

**GeographyLifecycle.** `geographies`, `shape`, `published`, `metadata` are the
two tables. `Insert` is the one INSERT of `writeGeographies`; `CheckUnpublished`
and `SetPublishDate` are the two statements of `publishGeography`, of which
`publishOnCreate` and `publishGeography` run one pair per id under a `Promise.all`
(`todo`, `ready`; `Settle` says when the answer is given; the state `failing` is
a request that is already rejected while the other ids carry on).
`Check` and then `Edit` or `Delete`, `DeleteMetadata` are the two handlers that
look first and act later; `FindMetadata`, `UpsertMetadata` are PUT metadata. `Fail`
ends a request anywhere: a failed statement or a process that dies.

**PolicyLifecycle.** `policies`, `body`, `published`, `superseded`, `metadata` are
the tables, `lock` the row lock an open transaction holds, `topic` what Kafka has.
`LookUpRule` then `Insert` is `writePolicy`; `IsPolicyPublished`, `ReadDraft`,
`LookUpRule`, `Edit` is `editPolicy`; `ReadPolicy`, `CheckGeographies` are the
provider's part of a publication; `IsPolicyPublished`, `ReadDraft`, `BeginPublish`,
`WriteStream`, `Commit` the repository's, with its transaction; `ReadSuperseded`
and `WriteSuperseded` are `updatePolicySupersededBy`, one pair per previous
entry of `prev_policies`, which may name a policy twice: `prevs[r]` is the set of promises
that are not settled, each with the place of its entry and the copy it read.
An intent is `writePolicyIntentToPolicy`: insert, metadata, publication.
A policy body is reduced to what the service looks at: rule ids, geographies,
`prev_policies`, `start_date`. `Tick` is the clock, `GeographyStep` any step of the
catalog.

**AgencyIngest.** `devices`, `events`, `telemetry` are the tables with their keys,
`cachedDevice`, `cachedEvent`, `cachedTelemetry`, `location` the Redis keys of a
device, `eventTopic` the event stream. An event has a timestamp, `At`, and its telemetry
one of its own, `Point`; the table of events has both. `createEvent` writes the
point first, so that an event that is refused leaves it behind. `tasks[r]` holds the promises of `r` that are
not settled, so that `Settle` can tell an answered request from one whose writes
are done; a rejection answers and the rest run on. `recorded[r]` are the points of the
batch that the INSERT returned (`New`), `Offered` those the cache is given, `Newer` those of
them that are newer than what `ReadTelemetry` saw. `ReadEvents` and
`WriteEventCache` are the read of the cache and the `MULTI` decided on it, `Flattened`
is `HSET` of a flattened list. `DatabaseFails`, `TaskFails`, `Die` are the faults. With `Overlap` FALSE, as in `MCAgencyStale`, a request
starts when the others are settled; no theorem or passing run has it.
`AgencyOrder` adds `earlier` and `written`, which no action reads, to say which of two
requests came after the other; `Excused` is what a request that overlapped may hide.

**StreamProcessor.** `committed` and `resolved` are the offsets Kafka and KafkaJS
hold, `chunk` what one call of the processor gets (a message, or a chunk of the
batch source), `pending` the writes of its `Promise.all`. `WriteSink` fails with any
subset of the pending writes arrived; `Reconnect` shuts down and initializes all
producers; `WriteDead` is the `Promise.allSettled` of the dead letter sinks and the
exit when none took the message. KafkaJS itself is modelled from how the
connectors use it, with its default `eachBatchAutoResolve`.

**ServiceProcess.** `loop` and `attempt` are the retry loop of `ProcessMonitor`, `server`,
`repl` the variables of `RpcServiceManager`, `stop` where the one `stop()` that does
something is, `late` a second one that waits for the same server. `queue` is the lock
of each service's `ConnectionManager`: its head holds the lock, `busy` says that it
is initializing or destroying a connection. `Fail` of a connect rejects the attempt
and nothing else, because the other members of the `Promise.all`s go on; `Fail` of
a disconnect, and a second `stop()` whose server is closed already, reject a promise
nobody awaits, which ends a Node.js process (`exit = "crashed"`). The `interval` that
keeps the process alive is `timer`; `End` is Node.js finding nothing left to do.

**TransactionService.** `client[c]` is `RpcRequestManager`: the attempt that is under
way, or the answer. `exec[c, n]` is what the service does with attempt `n`: it goes on
when the client no longer waits. `Insert` is one row of the INSERT; a unique index
makes it wait for a transaction that has inserted the key (`Awaits`), a row that is
committed makes it a conflict, and of transactions that wait for each other
PostgreSQL ends one (`BreakDeadlock`). `Breaks` is an attempt whose error the client sees: it is
sent again when the service was not available (`Retry`) and answers the call otherwise
(`GivesUp`). `WriteBatch` is one `producer.send` of `beforeCommit`;
`WriteFails` and `CommitFails` leave open whether Kafka or PostgreSQL did what failed.
The ledger sees of this the ids a call was given (`asked`), the rows (`ledger`) and the
answers (`told`): `Record` is the commit, `Tell` the answer that reaches the client or the
client that gives up, and everything else is a stutter.

**JurisdictionVersions.** `rows[j].versions` is the json column, latest first. `Create` is one
INSERT; `Update` and `Delete` are the SELECT with what is decided on it, `Write` the
UPDATE. `Find` is the mapper: the first version that is not in the future, and nothing
if a deletion made it; `Sorted` puts a new version where the stable sort does, at
its `Place`. `writing[r]` is what a request carries from its SELECT to its UPDATE: the
row it read, the version in effect then, the row to write. Requests overlap as they
like, and the clock goes on; `Overtaken` says that the row is not the one read any
more. A patch that names another `jurisdiction_id` is a conflict.

**CursorPaging.** A row has an id that grows with the INSERT and is visible from the
commit on. A *listing* is the kind of request: the column it is ordered by, whether the
id breaks ties, the direction, the limit, `latest_per_vehicle`, a filter, whether the
cursor keeps it, `follow`. `PageAfter` and `PageBefore` are the query with its cursor
and its row too many: of the rows that match, sorted by their `Rank`, the first after
or before the cursor. `Page`, `NextCursor`, `PrevCursor` what `paginateEventTelemetry` (copied
there from the library) and `buildNextCursor` make of it. The client keeps the pages
it has read; `forward` says it never went back.

**ComplianceCount.** `rule` and `event` are the two loops; `Skip`, `Capture`, `Overflow` the three
branches of the inner one; `unseen`, `captor`, `overflowed` the three maps. Which rule
matches which event, and which rules are active, is any relation. `Left`, `Captures` and
`Violating` define the result from the comment above the function, without loops. The
names of its specification begin with `Count`, so that one module of proofs can extend
it and `CursorPaging`.

## 3. Runs

| run | instance | what it shows |
|---|---|---|
| `geography` | 2 geographies, one a draft, 2 shapes, 3 requests of every kind | `TypeOK`, `PublishedFrozen`, `OkMeansPublished`, the refinement `ImplementsCatalog`, `EveryRequestAnswered` |
| `policy` | 2 policies, one superseding the other, 2 requests of every kind, bodies with other rules and geographies, previous policies named twice, a geography that is published while they run | `TypeOK`, `StreamHasPublished`, `SupersessionAccurate`, `PublishAcknowledged`, `PublishedFrozen`, `EveryRequestAnswered` |
| `agency` | 2 vehicles, one registered, 2 requests of every kind, events and telemetry with timestamps of their own, failures of database, cache and streams, crashes | `TypeOK`, `EventOnce`, `CacheFollowsDatabase` |
| `agency_order` | 3 events or batches that overlap or not, 2 timestamps in any order, a batch against the order of its timestamps, commands to the cache that are rejected | `NewestKept` |
| `agency_live` | 2 requests, database and cache failures | `EveryRequestAnswered` |
| `stream` | 6 messages of all kinds through `KafkaSource`, 2 sinks, 2 dead letter sinks, 2 faults | `TypeOK`, `NothingLost`, `RepeatsOnlyByRestart`, `PartitionConsumed` |
| `service_process` | 2 services, 2 retries, a REPL, 2 signals, 3 connections that fail | `TypeOK`, `ServingIsConnected`, `CleanEnd`, `StopEnds` |
| `jurisdiction` | 2 jurisdictions, 2 keys, 4 requests that overlap, clock of 4 instants, versions in the past and the future | `TypeOK`, `FindsLatest`, `HistoryKept`, `OriginKept` |
| `transaction` | 2 calls of one or two rows over 2 keys, in either order or twice the same, 1 retry, 2 faults | `TypeOK`, `RecordedIsStreamed`, `StreamedOnce`, the refinement `ImplementsLedger`, `EveryCallAnswered` |
| `paging` | 4 rows of 2 vehicles, 3 timestamps, 6 kinds of listing, pages of 1 or 2 | `TypeOK`, `QuietIsExact`, `RowsReadOnce`, `VehiclesRead` |
| `compliance_count` | 2 rules, 3 events of 2 or 3 vehicles, every choice of bounds, activity, matches and devices | `CountTypeOK`, `ResultIsExact`, `NoRoomLeft` |

One run refutes what a comment of the repository says; `PROJECT.json` quotes the
line under "findings".

| run | refuted | how |
|---|---|---|
| `policy_geography_race` | `GeographiesPublishedFirst` | an edit between the check of the geographies and the UPDATE names one that is not published |

`MCStreamBatch.cfg` is one more instance that passes: `KafkaBatchSource`, 5 messages in
chunks of 2 and 3 faults, for `NothingLost` and `RepeatsOnlyByRestart`, which
`StreamProcessorProofs` proves for both sources.

### Further counterexamples

These instances fail. The `.cfg` files are kept so that the traces can be
reproduced; each checks the properties named here. Where one file has several,
`tlc -workers 1 -continue` goes on after the first, or leave one of them in.

| cfg | property TLC refutes | trace in short |
|---|---|---|
| `MCPolicySupersedeRace` | `SupersessionRecorded` | two publications append to the same old `superseded_by`; the second write drops the first |
| `MCPolicySupersedeRace` | `SupersededOnce` | `prev_policies` names a policy twice; both promises record the same successor |
| `MCAgencyEventRace` | `LatestEventCached` | two requests decide on the same earlier read of the cache; the older event is written last |
| `MCGeographyDeleteRace` | `DeleteRefusesPublished` | published between check and DELETE: no row is deleted, the answer is success and the metadata is gone |
| `MCPolicyStartDateRace` | `PublishedBeforeStart` | an edit brings the start date forward after the publication compared it |
| `MCPolicyRuleRace` | `RulesUnique` | two new policies look the same rule id up before either is inserted |
| `MCAgencyStale` | `CachedEventIsRecorded` | `HSET` leaves `event_types.1` of the event before |
| `MCAgencyStale` | `DecommissionedReadsBack` | an older event arrives after the decommissioning one wiped the cache and is cached again |
| `MCAgencyStale` | `LatestLocation` | a batch in descending order leaves its older point in the geo set |
| `MCAgencyStale` | `LatestTelemetryCached` | an event that is refused leaves its later point in the table, and the cache never gets it; or the last point of a batch is not the latest |
| `MCAgencyStale` | `AcceptedEventsStreamed` | `safeWrite` swallows the error of the stream; nothing sends the event again |
| `MCStreamBatchGarbled` | `NothingLost` | the batch source logs and acknowledges what it cannot parse |
| `MCStreamBatchStop` | `NothingLost` | a stop during a batch skips its remaining chunks and the batch is resolved as a whole |
| `MCServiceSignal` | `EverySignalEnds` | a signal during `start` finds no server to stop; the start goes on, and the process serves until the next signal |
| `MCTransactionRetry` | `ConflictIsAnothers` | the answer of a call is lost; its retry meets the rows of the first attempt and is a conflict |
| `MCTransactionGhost` | `StreamedIsRecorded` | Kafka has the message when the commit fails or the service dies |
| `MCJurisdictionRevived` | `DeletedStaysDeleted` | a version in the future outlives the deletion and brings the jurisdiction back |
| `MCJurisdictionRace` | `VersionsKept` | two updates read the same row; the second UPDATE takes it back to what was read, and the version of the first is lost |
| `MCJurisdictionRace` | `OnlyTimeRevives` | an update read before a deletion and written after it removes the deletion |
| `MCPagingLosses` | `RowsReadOnce` | transactions paged by timestamp: rows that tie with the last of a page are skipped |
| `MCPagingLosses` | `VehiclesRead` | latest events in descending order, the default: a new event moves a vehicle before the cursor |
| `MCPagingLosses` | `PagesMatch` | the cursor of `getDevices` drops `provider_id`, the links of `get-transactions` drop `fee_type`, the cursor of `getEvents` drops `events` |
| `MCPagingLosses` | `FollowerMissesNothing` | a row with a smaller id commits after the reader passed it |
| `MCComplianceReport` | `ReportsActiveRules` | `annotateVehicleMap` reports matching rules that are not active |

`SupersessionRecorded`, `LatestEventCached`, `VersionsKept` and `OnlyTimeRevives` have one thing
in common: the comparison is right, its atomicity is not. What the passing runs say
of the same code, `SupersessionAccurate`, `NewestKept`, `HistoryKept` and `OriginKept`, holds
however requests overlap and says how far the damage can go. The traces of
`MCAgencyStale` and `MCJurisdictionRevived` need no overlap: their requests follow one
another.

### Bounds

- *Requests* (2 or 3). Each hazard of a check made stale needs one request that
  checks and one that changes; three let a publication race an edit and a delete
  at once, or two publications with an edit between them.
- *Rows.* Two policies suffice for a supersession, three for two policies that
  supersede one. Two geographies let a set publication fail for one id and
  succeed for the other. A second device shows that an unregistered vehicle is
  refused and that nothing leaks between devices.
- *Timestamps* (2 or 3): earlier, equal and later. In `agency_order` two are enough
  for a write that goes back; its third request is the one that overlaps neither or
  both of the others.
- `Lead`, `MaxTime` bound the clock of `PolicyLifecycle`: one tick separates "before
  the start date" from "after it".
- `N`, `ChunkSize`, `MaxFaults` bound the partition: every kind of message occurs,
  a chunk is full, partial or crosses the kinds, and a fault can hit the recovery
  from another fault. The theorems hold for every `N`, chunk size and number of
  faults.
- *Processes.* Two services are needed for one to be connected and the other not; two
  retries for connections of an attempt that was given up to meet both the next
  attempt and the last one; two signals for a stop during a stop.
- *Calls.* Two calls of two rows in opposite order deadlock; one retry lets two
  attempts of a call be at work at once, with the other call between them. Batches
  are of one row, so that a write to Kafka can stop half way.
- *Jurisdictions.* A creation, and two requests between whose statements the others
  can step in: a version of the future and a deletion come in either order,
  and a fourth request overtakes one that has overtaken another, or brings another
  jurisdiction with the same key.
- *Pages.* Four rows make two full pages or four of one row, with a row to come
  between and after them; three timestamps let two rows tie.
- *Rules.* With two rules a vehicle is captured by the first, overflows it, and is
  captured by or overflows the second; maxima of 0, 1 and 3 are none, too few, enough.
- *Bodies and batches* are chosen in the MC modules; each of their members takes
  a different branch of the code.
- Symmetry over requests and over sinks is used in runs without liveness.
- Deadlock is not checked: requests and messages are finite, so every instance
  stops when they are done.

### Fairness

`GeographyLifecycle`, `PolicyLifecycle`, `AgencyIngest` assume weak fairness of the
steps of each request that has started: its statement returns and the event loop
runs the continuation. `Start`, `Fail`, `Tick` and the geography steps are not
fair. In `PolicyLifecycle` a statement that waits for a row lock is enabled once the
transaction that holds the lock has ended, and that transaction waits for Kafka
only, so weak fairness of each request is enough. The answer is not promised
when the process dies, so `agency_live` has no crashes; it has no stream faults
because an answer to a refused event waits for the error stream and is lost
when that stays disconnected (`pc = "lost"`).
`StreamProcessor` assumes weak fairness of the process as a whole: it runs, and the
environment restarts a process that ended or reports itself unhealthy, as the
liveness probe of `helm/mds/templates/deployment.yaml` makes it. Faults are not fair, and there are finitely many.
`ServiceProcess` assumes weak fairness of the monitor, of stopping and of each
`ConnectionManager`: promises settle, requests are answered, REPL sessions are closed.
Signals are not fair. `TransactionService` assumes it of each client and of each
execution of the service; faults and crashes are not fair. Without
`BreakDeadlock`, which PostgreSQL does after `deadlock_timeout`, calls would wait forever.
The other modules state safety only.

## 4. Proofs

The theorems hold for every number of geographies, policies, devices, requests,
calls, messages, sinks, versions, rows, listings and rules, and for every body. They assume what the
`ConstantsOK` of the module says, which TLC evaluates in every run; where a theorem
assumes more, its statement and the paragraph below say so. Every inductive
invariant was an invariant of a TLC run before it was proved.

**GeographyLifecycleProofs.** `TypeCorrect` has one lemma per group of actions.
`PublishedGeographiesFrozen` and `LifecycleImplementsCatalog` follow from the types
alone, because every statement that changes a row repeats `publish_date IS NULL`:
the first shows that no action touches a published row, the second that each
action maps to a step of the catalog or to a stutter. `PublicationsAcknowledged`
(`OkMeansPublished` and `OnePublisher`) needs an invariant about requests that are
still running: `Won(r)` is the set of ids `r` has published so far; what is won is
published (`WonArePublished`) and no two requests won the same id (`WonOnce`).

**PolicyLifecycleProofs.** One inductive invariant, `IInv`, gives all results.
`OpsMatch` ties where a request is to what it was asked; `LockHeld` says that the
transaction that is open holds its row, which is a draft and has the body and
date the request is about to stream; `Streamed` that before the commit the
message is on the topic; `Publishers` that a request that is recording its
supersessions, or was answered with success, is the one that published;
`Lists` that every list of supersessions, in the table or in the copy a promise
read, is true. Without the locks the
message could differ from the committed row, and without the copies a stale
list could be written back: neither invariant is inductive by itself. From it
follow `PublishedPoliciesStreamed`, `RecordsAccurate`, `PublicationsAcknowledged` and
the action property `PublishedPoliciesFrozen`.

**StreamProcessorProofs.** `TypeInv` adds to the types where the offsets stand
relative to the chunk (`Position`). `NoMessageLost` is proved under `Lossless`: there is
a dead letter sink, and for the batch source every message parses and the
consumer is not stopped; the counterexamples `MCStreamBatchGarbled` and
`MCStreamBatchStop` show that the last two are needed. Its invariant, `LossInv`, says
that everything behind the consumer is handled, committed or not, and what the
chunk being processed may contain at each step. `RepeatedOnlyByRestart` counts:
what is ahead of the consumer was written fewer times than the process was
started.

**ServiceProcessProofs.** The invariant follows a process through its phases.
`Phases` says which values of `loop`, `server`, `repl` and `stop` occur together;
`OnlyConnects` that nothing is disconnected before the server is closed; `Starting` that
what an attempt that was not rejected still needs is connected or waiting at the
lock; `Closing` that from `onStop` on each connection is closed or has a disconnect
waiting with no connect after it; `Ended` that a process that ended closed all of
them. The order of the lock is what makes `Closing` inductive: a connect of an
attempt that was given up is served before the disconnects that were queued after
it. `ServicesConnected` and `EndsClean` follow.

**TransactionServiceProofs.** `Exclusive` says that two open transactions never hold the
same key, and that a key an open transaction holds has no row; `Progress` how many
rows an execution has inserted and streamed at each step. `RecordedInWhole`
(`AllOrNothing`: the rows of a call are all there, or none) and `ResultsRecorded` (`OkIsRecorded`: an answer with a result means that every
row is there, though later attempts of the same call may be refused) rest on rows
never being overwritten, `Kept`. `RecordedStreamed` adds that an open transaction
has streamed what it says it has, `SentStreamed`. `StreamedOnceIfNothingFails`
(`StreamedOnce`) counts messages: the rows of a call have keys of their own
(`Distinct`), and as long as no fault occurred every call is at its first attempt
(`FirstAttempt`) and a message of a call is the only one, with its row in the table or
about to be, in the transaction that sent it (`OneMessage`). That part
keeps a second call with the same id from streaming it: the row, or the transaction
that is about to commit it, is in its way.
`ServiceImplementsLedger` (`ImplementsLedger`) is the refinement. Of the actions only the commit
changes the table (`TableEffects`), and it maps to `Record`: the rows are all of the call's
(`Progress`), nobody's before (`Exclusive`), and the ids are different (`Distinct`), because a
second row with the same id would have been refused. Only three things change what a
client was told (`ToldEffects`), and they map to `Tell`. That an answer is true when it
arrives, though it was decided earlier, is `Kept` for a result and `ConflictsAreTrue` for a
conflict: `ConflictEffect` and `TakenIsRefused` show it when the INSERT is refused, and
`RefusedStays` that it stays so, since rows are never removed (`RowsStay`).

**AgencyIngestProofs.** `SafeInv` ties each request to what it left behind. `Stage` says
which promises belong to which operation, `Backed` that the tables hold what a
request is about to tell the cache and the streams, `Keyed` that device and timestamp
identify an event, `Traced` that a message is of the request that recorded it, and
`OneOwner` that no two requests recorded the same. `EventStoredOnce` (`EventOnce`) and
`CacheBehindDatabase` (`CacheFollowsDatabase`) follow for any interleaving, any faults
and crashes between any two steps: they rest on the order in which `createEvent`
writes, and on the keys of the tables, not on the requests being apart.
`NewestIsKept` (`NewestKept`) is proved for `AgencyOrder`, with no assumption on overlap, on the
order of timestamps or on faults. A write to the cache is decided on an earlier read,
so `OrderInv` speaks of requests between the two: `FoundInOrder` says that what they found
is not older than what requests that were over when they started have written,
unless there is an excuse, and that what they will not write is hidden by something
that is not older. `Returned` ties the points that are offered to what the INSERT
returned, and `HistoryOK` says that a write is of a request that had something to write
and that `earlier` names requests that are settled. An excuse never goes away, since a
request that has started keeps what it brought. Decommissioning wipes the cache, which is why the property
leaves out such devices; that the cache can hold less than the tables
is `LatestEventCached` and `LatestTelemetryCached`, which TLC refutes.

**JurisdictionVersionsProofs.** No theorem assumes that requests are apart. `Sound` says that the
latest version comes first and that no deletion is in the future; `IInv` says it of every
row that is stored and, in `Preparation`, of the row a request has read and of the one it will
write. The latter has the versions of the former and at most one more, not
before the version that was in effect (`Extends`), and its earliest version is that of the row
as it is now. The row that was read shows something of every time since the version in
effect, because a deletion would have been found. `SortedFacts` shows that the sort
keeps the order, `FindsEarlier` that a new version changes nothing a reader saw of the
time before it, `SortedLast` that it does not become the earliest. From this follow `LatestIsShown`
(`FindsLatest`), and, as action properties, `HistoryIsKept` (`HistoryKept`), where a writer that was
not overtaken has read the row it replaces, and `OriginIsKept` (`OriginKept`), which needs no such
case: every row that may ever be written comes from one with the same earliest version.

**ComplianceProofs, the listings.** A sorted sequence is chosen by its `Rank`s, so the
proofs first show that there is one and what it holds: `Precedes` is a total order, so no two
rows have the same rank and no rank is left out, a fact about cardinalities that
needs no induction over sequences. `CursorInv` then says that pages hold visible rows and the
cursors are the ends of the last page; `ListingTypeCorrect` (`TypeOK`) follows.
`NoRowTwice` rests on `ReadInOrder`: the pages of a client that goes on hold rows each of which
precedes the next, because the rows of a query come after its cursor. It holds for every
listing. `RowsAreReadOnce` (`RowsReadOnce`) adds that a row that was there has been read or is
ahead of the cursor, and is proved for listings that are `Total`: ordered by the id, or with
the id as last key. `NoVehicleLeftOut` (`VehiclesRead`) is proved for listings of latest
events that are `OldestFirst`, as `getProviderInputs` asks for them: its invariant `VehiclesCovered`
says that a vehicle has been read, or its latest row is ahead, and a row that becomes the
latest is later than the one it displaces. `QuietListingIsExact` (`QuietIsExact`) is proved for
listings that are `Total` and keep their filter in the cursor (`KeepsFilter`). A page is compared
with its piece of the sorted answer by ranks: `PagesExact` says that the row at place `m` of
page `n` has rank `(n - 1) * limit + m - 1` and how long the page is, and each query
shifts ranks by what is before its cursor. The assumptions are needed: `MCPagingLosses`
has listings of the code that are not total, not oldest first, or lose their filter, and
TLC refutes `RowsReadOnce`, `VehiclesRead` and, added to the file, `QuietIsExact` on them.

**ComplianceProofs, the count.** `RoomInv` counts what each rule captured and gives
`OverflowsWithoutRoom` (`NoRoomLeft`). `ExactInv` compares the loops with the definition after every
event: a vehicle is unseen as long as `Left` has it and the current rule has not
captured it, it overflowed the rules it passed, and `num_matches` is the number of
vehicles seen until the maximum is passed. That a vehicle with two events can
overflow a rule twice, and is counted twice then, is why the count is only bounded
from there on. `ViolationsAreExact` says that the vehicles reported are those of the definition;
`CountsAreExact` (`ResultIsExact`) adds the shortfall, and assumes that no minimum is above its
maximum. Nothing in the code demands that of a rule, but without it a vehicle that is
counted twice can hide a shortfall: two events of one vehicle count as 2 under a
minimum of 2 and a maximum of 0. The run has the same bounds.

*Recursion.* `Left` and `SumMissing` are recursive functions on the rules. The induction
theorems of the library cannot be instantiated, but their proofs can be repeated for
one predicate: a set of naturals that is not empty has a least element
(`LeastExists`, from `WFMin` and `NatLessThanWellFounded`), and a least counterexample is
refuted. `LeftFacts` and `SumFacts` show so that the functions satisfy their defining
equations. The same lemma gives the least and the greatest element that `Min` and `Max` choose.

Model-checked only: liveness (`EveryRequestAnswered`, `PartitionConsumed`, `StopEnds`, `EveryCallAnswered`). The prover
does not handle `ENABLED`, which fairness is defined by. Every other property of the passing
runs is stated by a theorem.

## 5. Abstractions, and what is not modelled

- Names, GeoJSON, positions, wording of answers, logging and authorization.
- Reads go to the database that is written: `PG_HOST_READER` defaults to `PG_HOST`
  (`mds-repository/connection.ts`). A lagging replica would add staler reads to the
  same checks.
- Outside `TransactionService` an RPC is one step that may fail; retries are modelled
  there, where they meet their own effects.
- In the process: migrations and seeding, which run on the connection once it is
  made, Kafka producers started next to the repository, and `GracefulShutdownManager`
  of `HttpServer`, which closes idle connections of a server that is closing.
- In the transaction service: validation, and the split of rows into chunks, which are
  sent one after the other on one connection.
- In the listings: filters other than by vehicle, `latest_per_trip`, which has the form
  of `latest_per_vehicle`, and `getTripEvents`, which pages by offset over trips
  without an order.
- In the compliance engine: geometry, days and hours; the speed and time processors,
  which look at one event at a time.
- `published_date` set through `editPolicy` of the service: the author API refuses
  such a body. That the answer to PUT metadata is 200 or 201.
- In the agency: the keys `device-ids` and `provider:<id>:latest_event`, trip metadata,
  cache administration, validation of an event against the mode, and the second
  read of the device in `db.writeEvent` (devices are never removed). A telemetry
  batch is about one device.
- In the processor: rebalancing of the group, and the failure of part of a result
  of more than a thousand messages. `transform` belongs to whoever makes the
  processor, so a message has a kind that says what it does.
- Components with the status `not_modelled` in `PROJECT.json`: those that only read,
  pass on, validate or format have no state to check; the rest is in the plan.

The map covers a small share of all lines. More than half of the lines
of the repository's implementation files are polygons: `mds-test-data` alone has about
47,000 of 81,000. Of what is left, much is types, schemas, column
definitions, migrations, handlers that pass a request on, and test helpers.

## 6. Plan

In the order of how much the system depends on it.

1. Done: geographies, policies, agency, stream processor, process, transactions,
   jurisdictions, listings, count rules; proofs about each of them.
2. `ComplianceService`: snapshots written to Kafka and to the table of failures, with the batch
   processor that is retried as a whole; `IngestService`: telemetry and events in two
   statements, and the retry that meets its own telemetry.
3. `PolicyStatus`: `derivePolicyStatus` of the service compared with the SQL filters of
   `readPolicies`, as pure operators.
4. The audit API, the collector and attachments, which keep one or two tables each.

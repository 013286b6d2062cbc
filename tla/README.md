# Capacity agent: a verification project

The repository is a telemetry agent for Windows hosts that run local models. A
bridge process (`librehw_bridge`, C#) reads hardware sensors and writes JSON
lines into a named pipe; `host_agent` (C++) stores them, polls the GPUs and
Ollama itself, and answers over HTTP whether a model fits on the host now.

This directory models it in TLA+: the modules are checked with TLC on small
instances, and every safety property a passing run checks is proved with TLAPS
for all values of the constants. `PROJECT.json` lists the runs, the mutants each
property is tried against, the lines every definition stands for, the hazards
and the theorems.

## 1. Inventory

| Component (source) | State | Operations | Talks to |
|---|---|---|---|
| **SqliteStore** (`apps/host_agent/src/storage`) | one sqlite3 connection for all threads; the tables | one transaction per pipe message; autocommit inserts of the collectors; read-only queries | called by the pipe thread, both collectors and the HTTP threads |
| **NamedPipeServer**, **HandlePipeMessage** (`ipc/`, `core/service.cpp`) | pipe instance, unfinished line | accept, read, split into lines, parse, one store call | bytes from the bridge; calls the store |
| **Bridge message parser** (`core/bridge_message_parser.cpp`) | none | text to message, timestamp to milliseconds | called by HandlePipeMessage |
| **librehw_bridge** (`bridges/librehw_bridge`) | sensor catalogue, connection, line half written | hello, catalog_snapshot, sample_batch, heartbeat; reconnect | LibreHardwareMonitor; the pipe |
| **DirectGpuCollector**, **OllamaRuntimeCollector** (`collectors/`) | poll loop, thread, reader | poll, insert rows, update health | gpu_telemetry, Ollama; the store |
| **gpu_telemetry** (`libs/gpu_telemetry`) | loaded vendor libraries, one context per GPU with the time of its last read per tier | init and device matching, rate-limited sampling, shutdown; the same through a C interface | NVAPI, NVML |
| **HTTP API** (`api/http_server.cpp`) | listening thread | readiness, status, snapshot, catalogue, history | queries of the store |
| **SnapshotPusher** (`core/snapshot_pusher.cpp`) | thread | GET the own snapshot, POST it | HTTP API, a remote |
| **Service, main** (`core/service.cpp`, `main.cpp`) | `running_`, the parts and their threads | start everything, wait, stop and join everything, from main and from console handlers | all of the above |

Left out, with the reason in `PROJECT.json`: option parsing, third-party code,
build scripts, and what section 7 lists.

What is hard here, and what makes each part correct:

* **Store.** The mutex of the connection makes statements atomic, not
  transactions. A collector's insert between `BEGIN IMMEDIATE` and `COMMIT` of
  the pipe thread is part of that transaction; an error may roll it back under
  its owner. Correct: whole messages or nothing, no write lost that was not
  rolled back, no row of the file ever forgotten, no transaction left open.
* **Pipe.** A byte stream cut anywhere, two processes that end anywhere.
  Correct: messages of a connection once, in order, hello and catalogue first;
  both sides find each other again.
* **Readiness.** Two queries, rows written one by one by another thread, a
  verdict from one table and its freshness from another. Correct: never
  promises memory that was not free, never on stale rows.
* **Lifecycle.** Main and console handlers stop the same seven objects at the
  same time. Correct: what was stopped has ended; Ctrl+C ends the process.
* **Answers.** A handler makes up to four queries, a query many steps, and any
  statement of any thread comes between two of them, on the same connection.
  Correct: an answer lacks nothing that was there when it was asked for, its
  parts agree, and what it shows is or will be stored.
* **Pushing.** Nothing is retried and every failure is ignored. Correct: the
  remote host gets each reading or a newer one all the same.
* **Messages.** Some forty fields are read by name, required or not, in lists of
  lists. Correct: what the bridge found is what the agent understands, and a
  field that is wrong spoils nothing but its message.
* **Timestamps.** All freshness is arithmetic on a number a hand-written
  calendar formula yields. Correct: it is the instant the text names.
* **gpu_telemetry.** Two vendor libraries list the same GPUs independently;
  reads are refused when too frequent; init can fail at any point and be called
  again. Correct: a GPU's own device, no refusal without a recent read, whole
  rows at the collector's pace, fresh readings or none, no library left loaded.

## 2. Modules

```
StoreRows        the rows of the pipe's tables and the upserts on them
  AtomicIngest       abstract: a message is stored whole or not at all
  TelemetryStore     one connection, three writing threads, errors, restarts
    TelemetryStoreProofs      safety, and TelemetryStore => AtomicIngest, proved
    ApiReads                  requests that read meanwhile, and the pusher
      ApiReadsProofs            what their answers show, proved
  PipeIngest         bridge, pipe and pipe thread; the store is AtomicIngest's
    OrderedDelivery           abstract: a queue that can lose its last messages
    PipeIngestProofs          safety, and PipeIngest => OrderedDelivery, proved
Readiness        GPU rounds, the tables they write and a request reading them
  ReadinessProofs    safety, proved
ServiceLifecycle threads of the agent, their start, stop and join
  ServiceLifecycleProofs    safety, proved
BridgeTime       timestamps against a calendar counted day by day
  BridgeMessages     one line: what the bridge builds, what the parser reads
    BridgeProofs       safety of both, proved
GpuTelemetry     vendor libraries, device matching, rate limits
  GpuPolling         GpuTelemetry driven by the collector's poll loop
    GpuClients           the same by any program, through the C interface
      GpuProofs            safety of all three, proved
FoldFacts        lemmas: sums, and sequences of sequences joined
MC*              instances for TLC
```

**TelemetryStore.** `committed` is the file, `view` what the connection sees,
`inTxn` whether it is out of autocommit mode. The pipe thread's `pc`, `msg`,
`row` walk through `UpsertHello`, `UpsertCatalogSnapshot`, `InsertSampleBatch`
and `UpsertHeartbeat` statement by statement (`Begin`, `UpsertMachineStep`,
`UpsertCollectorStep`, `RowStep`, `Commit`, `Rollback`); `GpuInsert`,
`GpuHealth`, `OllamaInsert`, `OllamaHealth` are the collectors' statements, each
of which may run between any two of those. Every statement may fail; with
`AutoRollback` a failure may end the transaction as SQLite documents for a full
disk or lack of memory. `Restart` ends the process anywhere. A table is a
function from its keys to a row or to its absence, columns that no decision and
no property looks at are left out.

**PipeIngest.** Every line is three pieces, so that reads, deaths and hang-ups
fall inside lines; `wire` is the pipe's buffer, `pending` the server's string.
`BridgeScan` to `BridgeBackoff` are `Main`'s loop, `CreateInstance` to `Flush`
are `NamedPipeServer::Run` with `DispatchCompleteLines`. The store is used
through `AtomicIngest`, i.e. through what `IngestIsAtomic` proves of it (without
automatic rollback).

**Readiness.** One collector whose round is sampled, stamped, written row by row
and then entered in its health row; one HTTP request with its two queries and its
reading of the clock as three steps; a wall clock in ticks that may advance between
any two of all these. Zero becomes NULL, as `OptInt64` has it. `RoundDelay` bounds
what a *punctual* collector takes from the moment a round is due to its health row:
the wake-up, the samples, the inserts and the health row. `AnswerDelay` bounds what
a *prompt* request takes from the health query to `NowUtcMs`. Neither bounds other
collectors or requests. The bridge's health row counts only where there are no GPU
rows, and may have any time the pipe thread can have given it.

**ServiceLifecycle.** One program counter for main and for each console
handler; per worker its object, flag and thread; the pipe thread and the HTTP
thread with the calls they block in. Joining a thread another thread is joining
ends the process (`Terminate`) or does nothing: undefined behaviour as a choice.

**BridgeTime.** `Tomorrow` and `MonthLength` are the reference;
`ParseIso8601UtcMs` and `DaysFromCivil` the code. Unsigned wrap-around is
written as signed arithmetic, which the cast back makes equal. A 64-bit count of
milliseconds is the pair of its quotient and remainder by a day. The days are
counted from one of two that are known: the epoch, and the first day a year of
four digits can name.

**ApiReads** extends TelemetryStore, whose pipe thread goes on message by
message. `at` is the statement the handler of `request` is at, `answer` what it
has so far: a statement SQLite sorts first (`QuerySensorCatalog`) or of one row is
a step, the history and the rows of the snapshot's first query are a step per
row, each on `view` as it then is. `Reads` lets a step fail as `StepRow` does,
without a word. `known`, `rolled` and `spoilt` are history: what the file had
when the request came, whether anything was taken back since, whether a step
failed. The pusher (`PushGet`, `PushGot`, `PushPost`) is such a caller; the
remote host keeps the last body it got, may be away, and may get one late. As
the GPU and Ollama rows of a snapshot have no part in these properties, their
queries are steps that leave the answer alone; Readiness is about those rows.

**BridgeMessages.** A machine is hardware in hardware with sensors that have
readings or not: hardware is numbered, `parts[h]` lists what is in h, with 0 for
the computer, and `MachinesAssumption` says that all hardware is in one place,
numbered after what it is in, and that the sensors can be counted with an int.
`SensorsOf` is the recursion of `CollectCatalogRecursive` as a recursive
function. `f ++ g` is the record with the fields of both. `Build` makes a JSON
value of a machine, `ParseBridgeMessage` a message of any JSON value, function by
function; `GetInts` stops at the ends of an int, as cJSON does, and `GetInt64s`
does not. `OtherClientSends` writes one field of the line differently, or not at
all.

**GpuTelemetry, GpuPolling, GpuClients.** A loader counts what it has loaded and
opened beyond what it has freed and closed. A GPU is its position in NVAPI's list; NVML's list
is any arrangement of any of the devices, others than NVAPI's among them, with bus
ids read or not; 0 is a bus number and stands for one that was not read. A call is
a list of tiers still to try, so time passes between two of them. GpuPolling has
the poll loop call it; in GpuClients the user is either that loop or a program
that creates, initializes, samples, shuts down and destroys a reader as it likes,
one call at a time, with indexes and modes that need not exist.

## 3. Runs

All runs finish in about three minutes or less with two workers each.

| Run | Shows |
|---|---|
| `store_errors` | with errors that leave the transaction open: `AtomicSpec` (refinement), `RejectedLeavesNothing`, `SamplesCovered`; under fairness of the pipe thread `TransactionEnds` and `AckedReachesFile`. Every kind of message, sent times that step back, one GPU |
| `store_rollback` | with automatic rollback and a restart anywhere: `TypeOK`, `TransactionOwned`, `AcceptedIsCommitted`, `SamplesCatalogued`, `AckedIsDurable`, `NeverForgets` |
| `store_torn` | *violation*: `SamplesCovered` with automatic rollback (finding 1) |
| `pipe` | `DeliverySpec` (refinement of OrderedDelivery), `HelloThenCatalog`, `ReaderWaitsForRest`, no deadlock; under fairness of both loops `SamplesArrive`, `ComesBack`. Any two of: a process dies, a pipe call fails, a message is rejected, the hardware changes |
| `pipe_catalog` | *violation*: `SampledAreAnnounced` (finding 2) |
| `readiness` | `NeverOverstates`, `FitsIsRecent`, `NoFalseStale`, with one failing statement and one restart, of punctual collectors and of others |
| `lifecycle` | `StoppedMeansStopped`, `ReaderOutlivesPolling` with two console handlers and signals at any time, in the start too; `StopsOnCtrlC` when a bridge connects and writes |
| `lifecycle_no_bridge` | *violation*: `StopsOnCtrlC` without one (finding 3) |
| `api_reads` | `AnswersAreComplete`, `AnswersAgree`, `ShownIsStored` for requests of every page while messages are stored, fail and are rolled back; `PushArrives` under the fairness below, with failing and late requests and a remote host that is away |
| `bridge_wire` | `ReadsTheInstant` on every day of 1970-2101 and of the years 0 and 1; `MeansWhatWasBuilt` for every message of some five hundred trees of hardware with readings, `OneFieldAway` with any one field of two of them missing or one of thirteen other values |
| `gpu` | `OwnDevice` for every list NVML may give, `RefusedOnlyWhenRead` and `SampleIsFresh` for callers that mix modes, `LibrariesReleased` through inits that fail anywhere, `WholeRows` for the poll loop |
| `gpu_fallback` | *violation*: `IndexOnlyWithoutBusId` (finding 4) |

**Bounds.** In the store, two sensors and two times give one catalogued and one
missing sensor, and a time before and after. Two messages let one meet what the
other left; one GPU poll can fall into each gap of a transaction. One error, one
crash is what the properties speak of: after any of them the state is again one
the first could have met. In `pipe`, four pieces of buffer are more than a line,
so that a read returns the end of one line, a whole one or the start of a third,
and less than two, so that writes block; one sensor is there, absent, silent or
NaN, since the run is about the stream and not about the rows; `MaxFaults`
bounds how many things happen that no loop does, any two of them in any order.
In Readiness two GPUs are enough for a round to be half written; a GPU has room
or could not be read. Interval, round and answer take up to a tick each, the
threshold is the three of them together, and the clock goes on for the fifth tick,
in which a row of the first is stale; with a threshold of two TLC finds
`NoFalseStale` violated. Two rounds let one request meet the rows of one and the
health row of the next; after the one request is answered nothing can change what
it was told, so nothing more is explored (`Unanswered`). In the run `lifecycle` one collector
and the pusher are configured and the other collector is not. In BridgeTime 2000
and 2100 are the two kinds of century; a year-0 January has a negative year
inside the formula. In GpuTelemetry the devices of two GPUs can be swapped, and one can be
missing before or after the other or have a third between them that NVAPI does not
know; one GPU is on bus 0. After init the calls look only at which GPUs have a
device, so lists in another order are not followed further (`ListedInOrder`); the clock reaches the limits of the fast and
the slow tier, whose intervals keep the code's order (fast = medium < slow <
rare) at smaller ratios; two rounds and a half of the poll loop fit in the run
`gpu`. There an application's clock stops at the slow tier's interval, after
which nothing is refused that was not before.

In ApiReads three messages are a catalogue and batches before and after; one
sensor gives a figure of the snapshot, the CPU's "first" temperature, and one
gives none; DefaultLimit and LargestLimit are two rows, so that a history of
both times is as long as the limit, and longer than the limit of one. One
statement fails, of the message or of the request, and one thing happens to the
network or the remote host. There are no restarts: they end request and push with the
process, and TelemetryStore has what they do to the store. In BridgeMessages
the lines are sent on one day, since the days are BridgeTime's matter; IntMax is
1000, with values just beyond it.

Deadlock is checked in the PipeIngest runs; the other models stop at the bounds
of their counters or, in ServiceLifecycle, because the process ended.

**Fairness.** Each thread is scheduled: weak fairness of the pipe thread in
TelemetryStore, of the bridge's and the server's loop in PipeIngest, of each
thread in ServiceLifecycle while the process is up, of the HTTP handler and the
pusher in ApiReads: they wait for the store's mutex, held for one statement, and
for requests that time out. ApiReads also assumes that a remote host that went
away comes back, and needs nothing of the pipe thread: what `PushArrives` speaks of
is in the file already. Nothing is assumed of
crashes, errors, signals or the hardware. `lifecycle` adds that a bridge connects
and writes, which `librehw_bridge` does by its heartbeat; `lifecycle_no_bridge`
shows that the assumption is needed.

**What properties exclude.** `AckedReachesFile` accepts an error or a crash after
the row was acknowledged. `SamplesArrive` and `ComesBack` accept the state after
a failed `CreateNamedPipeW`, in which the pipe thread has returned, and NaN
readings, which `JsonSerializer` refuses; `SamplesArrive` also accepts a message
the store rejected, since a rejected catalogue is not sent again, and hardware
that changed, since a new sensor is not announced (finding 2). `FitsIsRecent`
excludes answers after a failed insert and requests during which the health row
changed. `NoFalseStale` speaks of behaviours with a punctual collector,
up to the first error or restart, and of prompt requests that come after its first
round. `NeverForgets` leaves out `sensor_catalog.last_seen_utc_ms`, which every
stored catalogue overwrites (`sqlite_store.cpp:467`) and nothing in the repository
reads, and the status columns. `OwnDevice` speaks of a GPU on bus 0 only while
every listed bus id was read: a bus id that could not be read is compared as 0
(`gpu_probe.cpp:334`, `403`). `ReaderOutlivesPolling` and `StopsOnCtrlC`
exclude signals that come during the start, because then they fail. `WholeRows`
assumes that a round takes at most `Interval - MinInterval["slow"]`.
`AnswersAreComplete` excludes requests one of whose steps failed, since the answer is
200 with what there was before; `AnswersAgree` and `ShownIsStored` exclude those
during which rows were taken back. `PushArrives` speaks of figures one sensor
gives: with two CPU temperatures the snapshot has whichever the query comes to
first. These are
statements about the code, each with its hazard in `PROJECT.json`.

## 4. Findings

1. **Torn message** (`store_torn`, `sqlite_store.cpp:713`). An error that rolls
   the transaction back by itself leaves `InsertSampleBatch` in autocommit mode:
   the rest of its samples is stored, its machine and collector rows are not.
2. **Catalogue sent once** (`pipe_catalog`, `Program.cs:59`), where
   `docs/ipc-contract.md:63` says "again whenever the bridge decides the catalog
   changed". Samples of a sensor that appears later are dropped.
3. **Ctrl+C** (`lifecycle_no_bridge`, `service.cpp:100`) does not stop an agent
   no bridge is connected to, or whose bridge is silent.
4. **Index fallback** (`gpu_fallback`, `gpu_probe.cpp:412`) is taken whenever no
   device matched, and not only "when GetBusId is unavailable": a GPU can report
   another's memory.

Seen while modelling and stated in no run: the query commented "latest per GPU"
(`sqlite_store.cpp:1048`) takes the rows of the machine's latest timestamp, so
GPUs vanish from the snapshot while a round is half written. `LatestRows` in
Readiness does what the query does, and `NeverOverstates` shows that the verdict
is only made more careful by it.

A full sample of the C interface "produced a fresh sample" (`gpu_telemetry_c.h`)
when either of its tiers was read; the figures of the other one are zero then.
`SampleIsFresh` is stated so, since the header does not say that all are fresh.

## 5. Proofs

Eight modules hold theorems, checked by TLAPS with no step left out, for any
values of the constants that satisfy the named assumptions of the modules, and
those below that a theorem names. What a theorem is about:

| Module | Theorem: property | Hypothesis |
|---|---|---|
| TelemetryStoreProofs | `TypeCorrect`: TypeOK, `TransactionsOwned`: TransactionOwned, `SamplesAreCatalogued`: SamplesCatalogued, `FileNeverForgets`: NeverForgets, `AckedRowsAreDurable`: AckedIsDurable, `AcceptedMessagesAreCommitted`: AcceptedIsCommitted | |
| | `IngestIsAtomic`: AtomicSpec, `RejectedMessagesLeaveNothing`: RejectedLeavesNothing, `SamplesAreCovered`: SamplesCovered | `AutoRollback = FALSE` |
| PipeIngestProofs | `PipeTypes`: TypeOK, `GreetingComesFirst`: HelloThenCatalog, `NothingWholeWaits`: ReaderWaitsForRest, `DeliversInOrder`: DeliverySpec | |
| ReadinessProofs | `ReadinessTypes`: TypeOK, `FitsWhatWasFree`: NeverOverstates, `FitsOnRecentRows`: FitsIsRecent | |
| | `PunctualIsNotStale`: NoFalseStale | `Interval + RoundDelay + AnswerDelay <= Threshold` |
| ServiceLifecycleProofs | `LifecycleTypes`: TypeOK, `PastPartsHaveEnded`: StoppedMeansStopped, `ReaderStaysForPolling`: ReaderOutlivesPolling | |
| GpuProofs | `LibraryTypes`: TypeOK, `NothingLeftLoaded`: LibrariesReleased, `OneMeansFresh`: SampleIsFresh, `RefusalsAreDue`: RefusedOnlyWhenRead | |
| | `ListedIsOwn`: OwnDevice | `OwnBus` |
| | `RoundsAreWhole`: WholeRows | `Leisurely` |
| ApiReadsProofs | `ApiTypes`: ApiTypeOK, `AnswersHaveWhatWasThere`: AnswersAreComplete, `ShownRowsAreStored`: ShownIsStored | |
| | `PartsOfAnswersAgree`: AnswersAgree | `AutoRollback = FALSE` |
| BridgeProofs | `TimesAreTyped`: TypeOK, `StoredTimeIsTheInstant`: ReadsTheInstant, `LinesMeanWhatWasBuilt`: MeansWhatWasBuilt, `LinesOneFieldAway`: OneFieldAway | |

**Hypotheses.** `AutoRollback = FALSE` leaves out the errors SQLite answers by
rolling back itself; finding 1 shows that atomicity is lost with them, and an
answer put together before and after contradicts itself. `Interval +
RoundDelay + AnswerDelay <= Threshold`: a health row carries the time its round was
sampled and is renewed at the end of the next round, so it grows as old as that. The
code's defaults, 500 ms against 30 s (`http_server.cpp:243`), leave rounds and
requests 29 s; nothing checks a configured interval, and with one just below the
threshold, or a round as long as what is left of it, the verdict flaps between
rounds although the collector is well. `OwnBus` says
that devices differ in their bus number, as they do within one PCI domain; the code
compares nothing else (hazard at `gpu_probe.cpp:403`). `Leisurely` says that the
driver answers and that the interval is as long as the longest round and either
limit after it together: 500 ms leaves rounds 400.

**Store.** The invariant of the types is `TypeOK /\ Busy`; `Busy` says that a
thread inside a call has a message and times of the right kind, which the types
of its next statement need. `TransactionOwned` is inductive with it. Every
statement keeps the rows of the database it runs on (`Keeps`, one lemma per
statement), so that the view follows the file and COMMIT makes the file follow
itself: `FileNeverForgets`, which is about rows, first_seen and the times the API
reports of machine and collectors; catalogue rows are never removed, hence
`SamplesAreCatalogued`. `AckedRowsAreDurable` is strengthened by what an
acknowledged row of the open transaction is (in the view) and of a later one is
not (numbered at all). `AcceptedMessagesAreCommitted` rests on `InFlight`, which
relates the view to the message and row the thread is at, as long as the
transaction was not rolled back under it; if it was, COMMIT fails and the call
is not accepted. For the refinement, the pipe's tables in the view are those of
the file with the message's first rows applied; COMMIT maps to `Ingest`,
everything else to a stutter.

**Pipe.** The invariant `All` has three parts. `Ends`: which end of the pipe
holds what, and that what the bridge has still to write is the rest of one line.
`StreamHolds`: the pieces read, in the pipe and still to be written are whole
lines one after the other, of which only the last may be cut short, and none is
while the connection is open. Without it a read could join the ends of two
lines, and `IsMessage` would refuse or misread them. `Orders`: lines handled and lines to
come, counted together, tell what the bridge sends next, hence hello and the
catalogue first. TLC checked `All` in the run `pipe` before it was proved. The
refinement reads the queue of OrderedDelivery off the stream, by thirds: the
write of a first piece is `Send`, the handling of a line `Deliver`, the end of a
connection with lines not handled `Lose`, everything else a stutter.

The order in which a message lists sensors is `SelectSeq`'s, of which no library
theorem says anything; the proofs use of it only what `BuiltAssumption` says,
that the messages built of it are among those that can arrive.

**Readiness.** Rows of one time are what one round read, of which the free VRAM
was noted (`Told`); rounds follow each other and a health row has sample rows as
new as it is, unless one was lost (`Ordered`, `Backed`); a request in the middle
has rows of one time that are still in the table, no older than the health row it
read after them unless a round ended in between (`Seen`). `Verdict` adds up the
free memory of some GPUs of one round, and `FoldFacts` has that a sum over a
subset of natural numbers is no greater than the sum over the set.
`PunctualIsNotStale` follows the clock from one round to the next (`OnTime`): the
next round is due at most `Interval` after the stamp in the health row, a punctual
one is in the table `RoundDelay` later, and until then the row a request reads is
younger than the two together.

**Lifecycle.** `Past`: the parts main has gone by have ended; `Threads`: no
thread without its object, so that what has ended cannot run again; `Warned`: a
handler that acts while main still starts is known to `ReaderOutlivesPolling` as
early. The proof is by what a step does to stoppers and to threads, and not by
how many stoppers there are.

**GPUs.** A loader is empty or complete after every call, however init failed
(`Loaders`); devices are still those that init found (`Matched`); the times the
limits look at are those of reads (`Remembered`). A call under way has its plan
before it and its outcome behind it, tier by tier (`Pending`), which is
`SampleIsFresh` when the plan is empty. For `WholeRows`, a tier still to be tried
in a round was read long enough before it, the others in it (`Rounds`); that the
plan has each tier of each GPU once is `FlattenDistinct` of FoldFacts.

**Answers.** Each step of a request is a statement that leaves the tables alone
or fails like any other, so TelemetryStore's invariants hold here too, by its own
lemmas. A history is complete down to the row it is at, as rows are never
removed from the file (`HistorySoFar`); what was shown is in the view until
something is taken back (`ShownIsSeen`); dates of machine and collector cover the
samples in view and file (`StoreDated`), and an answer keeps what an earlier
statement read as a lower bound of what a later one will (`AgreeSoFar`).

**Timestamps.** `Counted` says that the date is one the calendar has and that
the days counted are those of the closed formula (`DaysTo`). It is inductive
because the formula moves by one from each date to the next (`OneDayOn`): within
a month by its last term, from month to month by the 153-day rule
(`DaysFromMarch`), and from February to March by the leap rule, since the
divisions by 4, 100 and 400 move exactly there (`NextYear`). `Parsed` says that
what is stored is the parser's result for the stamp; an offset moves it by less
than a day (`ParseType`), and adding it again gives back the day and the
milliseconds the stamp shows (`ShownType`, `MillisecondDigits`). Years are any
natural numbers, dates are not bounded.

**Messages.** First the walk: `WalkLists` says that of each hardware it lists
the sensors in it and below it, each once. It is proved for the hardware with
the largest number for which it would fail, since what is in it is numbered
higher; siblings have nothing below them in common (`PartsAreApart`), so the
lists can be joined (`FlattenDistinct` of FoldFacts). As all hardware is below
the computer, the catalogue lists every sensor once (`SensorsAreListed`), and a
batch those with a value (`SamplesAre`). Then the parser: a message it accepts is
the function of each field's own item (`MessageRead`, `CatalogSensorIs`,
`SensorSampleIs`), so that a line with one field changed can differ in that
field alone; each kind of message requires a field of its own, so that a line
cannot be taken for one of another kind (`TypeIsKept`). The invariant `Sent` says
that the line on the wire is that of its origin or one alteration away from it,
and that what was received is what the parser makes of that line; with `Counted` it
gives both properties. TLC checked `Counted`, `Parsed` and `Sent` in the run
`bridge_wire` too. Nothing is assumed of what another client writes in place of a
field.

**FoldFacts.** The community modules define sums and the joining of sequences by
recursive functions; the library's induction theorems cannot be used, as they
take an operator as parameter. The facts are proved by a smallest argument for
which one fails, with the library's theorem that finite subsets are well-founded.

**Only model-checked.** All liveness (`TransactionEnds`, `AckedReachesFile`,
`SamplesArrive`, `ComesBack`, `StopsOnCtrlC`, `PushArrives`), which needs
fairness and ENABLED, outside the prover's reach.

The violations of section 4 are counterexamples and stay with TLC too.

## 6. Plan

Done, in this order: store, its proofs and refinement; pipe; readiness;
lifecycle; timestamps; GPU telemetry; the fields of the messages; the HTTP
queries over the store and the pusher; vendor loaders and the C interface; the
proofs of lifecycle, readiness, GPUs, answers and pipe; those of the timestamps
and the messages. Of the properties of the runs none is left to prove but
liveness.

What could come next: the wall clock that steps back under Readiness, and PCI
domains in GpuTelemetry (both in section 7 or among the hazards); each needs a
property about what the code should do then, which no document says.

## 7. Not modelled

* Option and configuration parsing: it runs once, before anything else, and its
  results are the constants of the modules.
* The vendor calls behind NVAPI and NVML and the decoding of their thermal and
  fan structures: what they return is hardware's; that they fail is modelled.
* The text of JSON, of an answer or of a log line. Whether a text is JSON is
  cJSON's. The form of a timestamp (length, separators, digits) is checked by
  `ParseIso8601UtcMs` and its `ParseInt` (`bridge_message_parser.cpp:51-72`,
  `93-123`) and not modelled: BridgeTime has the texts it accepts.
* Wall clocks that step back under readiness: a GPU row with a time in the
  future stays the latest (`sqlite_store.cpp:1056`). Readiness has a clock that
  advances.
* The race on a worker's `unique_ptr` between main and a console handler
  (`service.cpp:57`), whose outcomes cannot be enumerated.
* Moved-from readers (`gpu_sensor_reader.cpp:43`): nothing in the repository
  moves one.
* Third-party code, build, release and deployment.

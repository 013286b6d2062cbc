---------------------------- MODULE TelemetryStore ----------------------------
(***************************************************************************)
(* SqliteStore: ONE sqlite3 connection, opened SQLITE_OPEN_FULLMUTEX and   *)
(* shared by the pipe thread, the GPU collector and the Ollama collector   *)
(* (and by the HTTP threads, which only read).  The mutex makes a          *)
(* statement atomic, not a transaction: while the pipe thread is between   *)
(* BEGIN IMMEDIATE and COMMIT, the autocommit statements of the collectors *)
(* execute inside its transaction and share its fate.                      *)
(*                                                                         *)
(*   committed   what the database file holds, and what a restart finds    *)
(*   view        what any statement on the connection sees                 *)
(*   inTxn       the connection is not in autocommit mode                  *)
(*                                                                         *)
(* The last five variables are history: no action's guard reads them.      *)
(***************************************************************************)
EXTENDS StoreRows, FiniteSets

CONSTANTS
    NumGpus,        \* GPUs that sample_all reports
    AutoRollback,   \* may a failing statement roll the connection back?
    MaxMessages, MaxPolls, MaxErrors, MaxCrashes   \* bounds on the behaviours

ASSUME StoreAssumption ==
    /\ NumGpus \in Nat
    /\ AutoRollback \in BOOLEAN
    /\ {MaxMessages, MaxPolls, MaxErrors, MaxCrashes} \subseteq Nat

Gpus    == 0 .. NumGpus - 1
Bridge  == "librehw_bridge"
Sources == {Bridge, "direct_gpu", "ollama"}

VARIABLES
    committed, view, inTxn,
    pc, msg, row,                 \* the pipe thread: one store call at a time
    gpuPc, gpuTime, gpuNext,      \* DirectGpuCollector's thread
    ollamaPc, ollamaTime, ollamaStatus,   \* OllamaRuntimeCollector's thread
    messages, polls, errors, crashes,     \* counters for the bounds
    outcome,    \* what the last store call of the pipe thread returned
    base,       \* the file when that call began
    torn,       \* its transaction was rolled back under it
    acked,      \* <<gpu, time, txn>>: InsertGpuSample returned true in txn
    txns        \* [begun |-> number of transactions, durable |-> those committed]

conn     == <<committed, view, inTxn>>
pipe     == <<pc, msg, row>>
gpu      == <<gpuPc, gpuTime, gpuNext>>
ollama   == <<ollamaPc, ollamaTime, ollamaStatus>>
vars     == <<committed, view, inTxn, pc, msg, row, gpuPc, gpuTime, gpuNext,
              ollamaPc, ollamaTime, ollamaStatus, messages, polls, errors,
              crashes, outcome, base, torn, acked, txns>>

NoMessage == [kind |-> "heartbeat", sent |-> NoTime, sampled |-> NoTime,
              rows |-> <<>>, status |-> "ok"]

EmptyDatabase == [machine |-> NoSeen,
                  health  |-> [c \in Sources |-> NoCollector],
                  catalog |-> [s \in Sensors |-> NoSeen],
                  samples |-> {}, gpu |-> {}, ollama |-> {}]

Database == [machine : SeenRow,
             health  : [Sources -> CollectorRow],
             catalog : [Sensors -> SeenRow],
             samples : SUBSET (Sensors \X Time),
             gpu     : SUBSET (Gpus \X Time),
             ollama  : SUBSET Time]

-----------------------------------------------------------------------------
(* The statements of the store, from the rows the connection sees.         *)
MachineStmt(db, m) == [db EXCEPT !.machine = UpsertMachineFor(@, m)]

CollectorStmt(db, m) == [db EXCEPT !.health[Bridge] = UpsertCollectorFor(@, m)]

CatalogSensorStmt(db, m, s) ==
    [db EXCEPT !.catalog[s] = UpsertCatalogSensor(@, m.sent)]

(* Mutant: a plain INSERT, with foreign keys off. *)
SensorSampleUnchecked(db, m, s) == [db EXCEPT !.samples = @ \cup {<<s, m.sampled>>}]

(* INSERT ... WHERE EXISTS: a sensor that is not catalogued is skipped, and *)
(* the statement still succeeds.                                            *)
SensorSampleStmt(db, m, s) ==
    IF IsCatalogued(db.catalog, s)
      THEN [db EXCEPT !.samples = @ \cup {<<s, m.sampled>>}]
      ELSE db

GpuSampleStmt(db, g, now) == [db EXCEPT !.gpu = @ \cup {<<g, now>>}]

OllamaSampleStmt(db, now) == [db EXCEPT !.ollama = @ \cup {now}]

HealthDirectStmt(db, c, status, now) ==
    [db EXCEPT !.health[c] = UpsertCollector(@, status, NoTime, now, now)]

-----------------------------------------------------------------------------
(* How SQLite executes a statement on the shared connection.                *)
Succeeds(db) ==
    /\ view' = db
    /\ committed' = IF inTxn THEN committed ELSE db
    /\ UNCHANGED <<inTxn, errors, torn>>

RolledBack ==
    /\ view' = committed
    /\ inTxn' = FALSE
    /\ UNCHANGED committed

(* A statement that fails (or cannot be prepared) changes no row; an I/O or *)
(* memory error may also roll back whatever transaction is open.            *)
Fails ==
    /\ errors < MaxErrors
    /\ errors' = errors + 1
    /\ \/ UNCHANGED <<committed, view, inTxn, torn>>
       \/ /\ AutoRollback
          /\ RolledBack
          /\ torn' = (torn \/ inTxn)

-----------------------------------------------------------------------------
(* The pipe thread: HandlePipeMessage and the four transactional methods.   *)
PipeReceive(m) ==
    /\ pc = "idle"
    /\ messages < MaxMessages
    /\ messages' = messages + 1
    /\ pc' = "begin"
    /\ msg' = m
    /\ row' = 1
    /\ outcome' = "none"
    /\ base' = committed
    /\ torn' = FALSE
    /\ UNCHANGED <<conn, gpu, ollama, polls, errors, crashes, acked, txns>>

(* BEGIN IMMEDIATE fails inside a transaction, or when the file is locked.  *)
Begin ==
    /\ pc = "begin"
    /\ \/ /\ ~inTxn
          /\ inTxn' = TRUE
          /\ txns' = [txns EXCEPT !.begun = @ + 1]
          /\ pc' = "machine"
          /\ UNCHANGED <<committed, view, errors, torn, outcome>>
       \/ /\ \/ Fails
             \/ inTxn /\ UNCHANGED <<conn, errors, torn>>
          /\ pc' = "idle"
          /\ outcome' = "rejected"
          /\ UNCHANGED txns
    /\ UNCHANGED <<msg, row, gpu, ollama, messages, polls, crashes, base, acked>>

PipeFrame == UNCHANGED <<msg, gpu, ollama, messages, polls, crashes, outcome,
                         base, acked, txns>>

UpsertMachineStep ==
    /\ pc = "machine"
    /\ \/ Succeeds(MachineStmt(view, msg)) /\ pc' = "collector"
       \/ Fails /\ pc' = "rollback"
    /\ UNCHANGED row
    /\ PipeFrame

UpsertCollectorStep ==
    /\ pc = "collector"
    /\ \/ Succeeds(CollectorStmt(view, msg)) /\ pc' = "rows"
       \/ Fails /\ pc' = "rollback"
    /\ UNCHANGED row
    /\ PipeFrame

HasRows == msg.kind \in {"catalog_snapshot", "sample_batch"}

(* Mutant: a failing row is skipped instead of failing the message. *)
RowStepContinuing ==
    /\ pc = "rows"
    /\ HasRows
    /\ row <= Len(msg.rows)
    /\ \/ Succeeds(IF msg.kind = "catalog_snapshot"
                     THEN CatalogSensorStmt(view, msg, msg.rows[row])
                     ELSE SensorSampleStmt(view, msg, msg.rows[row]))
       \/ Fails
    /\ row' = row + 1
    /\ UNCHANGED pc
    /\ PipeFrame

RowStep ==
    /\ pc = "rows"
    /\ HasRows
    /\ row <= Len(msg.rows)
    /\ \/ /\ Succeeds(IF msg.kind = "catalog_snapshot"
                        THEN CatalogSensorStmt(view, msg, msg.rows[row])
                        ELSE SensorSampleStmt(view, msg, msg.rows[row]))
          /\ row' = row + 1
          /\ UNCHANGED pc
       \/ /\ Fails
          /\ pc' = "rollback"
          /\ UNCHANGED row
    /\ PipeFrame

CommitFrame == UNCHANGED <<msg, row, gpu, ollama, messages, polls, crashes, base, acked>>

(* Mutants: COMMIT's result is not read; a failed COMMIT returns at once;   *)
(* COMMIT is never reached and ~Transaction rolls a stored message back.    *)
CommitUnread ==
    /\ pc = "rows"
    /\ HasRows => row > Len(msg.rows)
    /\ inTxn' = FALSE
    /\ committed' = view
    /\ txns' = [txns EXCEPT !.durable = @ \cup {txns.begun}]
    /\ pc' = "idle"
    /\ outcome' = "accepted"
    /\ UNCHANGED <<view, errors, torn>>
    /\ CommitFrame

CommitNotRolledBack ==
    /\ pc = "rows"
    /\ HasRows => row > Len(msg.rows)
    /\ \/ /\ inTxn
          /\ inTxn' = FALSE
          /\ committed' = view
          /\ txns' = [txns EXCEPT !.durable = @ \cup {txns.begun}]
          /\ outcome' = "accepted"
          /\ UNCHANGED <<view, errors, torn>>
       \/ /\ Fails
          /\ outcome' = "rejected"
          /\ UNCHANGED txns
    /\ pc' = "idle"
    /\ CommitFrame

CommitMissing ==
    /\ pc = "rows"
    /\ HasRows => row > Len(msg.rows)
    /\ RolledBack
    /\ pc' = "idle"
    /\ outcome' = "accepted"
    /\ UNCHANGED <<errors, torn, txns>>
    /\ CommitFrame

(* COMMIT succeeds only inside a transaction.  A failed COMMIT leaves       *)
(* active_ set, so that ~Transaction rolls back.                            *)
Commit ==
    /\ pc = "rows"
    /\ HasRows => row > Len(msg.rows)
    /\ \/ /\ inTxn
          /\ inTxn' = FALSE
          /\ committed' = view
          /\ txns' = [txns EXCEPT !.durable = @ \cup {txns.begun}]
          /\ pc' = "idle"
          /\ outcome' = "accepted"
          /\ UNCHANGED <<view, errors, torn>>
       \/ /\ \/ Fails
             \/ ~inTxn /\ UNCHANGED <<conn, errors, torn>>
          /\ pc' = "rollback"
          /\ UNCHANGED <<outcome, txns>>
    /\ CommitFrame

(* Mutants: the destructor does nothing; the destructor commits. *)
RollbackForgotten ==
    /\ pc = "rollback"
    /\ pc' = "idle"
    /\ outcome' = "rejected"
    /\ UNCHANGED <<conn, msg, row, gpu, ollama, messages, polls, errors, crashes,
                   base, torn, acked, txns>>

RollbackCommitting ==
    /\ pc = "rollback"
    /\ committed' = view
    /\ inTxn' = FALSE
    /\ pc' = "idle"
    /\ outcome' = "rejected"
    /\ UNCHANGED <<view, msg, row, gpu, ollama, messages, polls, errors, crashes,
                   base, torn, acked, txns>>

(* ~Transaction with active_ set: ROLLBACK, whose result nobody reads; with *)
(* no transaction open it is an error that changes nothing.                 *)
Rollback ==
    /\ pc = "rollback"
    /\ RolledBack
    /\ pc' = "idle"
    /\ outcome' = "rejected"
    /\ UNCHANGED <<msg, row, gpu, ollama, messages, polls, errors, crashes,
                   base, torn, acked, txns>>

PipeStep == \/ Begin \/ UpsertMachineStep \/ UpsertCollectorStep
            \/ RowStep \/ Commit \/ Rollback

-----------------------------------------------------------------------------
(* DirectGpuCollector: Initialize, then PollLoop.                           *)
GpuFrame == UNCHANGED <<pipe, ollama, messages, crashes, outcome, base, txns>>

(* The health row is written whether or not the collector runs afterwards:  *)
(* its return value, like that of InsertGpuSample, is dropped.              *)
GpuInitialize ==
    /\ gpuPc = "boot"
    /\ \/ /\ gpuPc' = "sleep"
          /\ UNCHANGED <<conn, errors, torn>>
       \/ /\ gpuPc' = "off"
          /\ \/ \E now \in Time :
                  Succeeds(HealthDirectStmt(view, "direct_gpu", "error", now))
             \/ Fails
    /\ UNCHANGED <<gpuTime, gpuNext, polls, acked>>
    /\ GpuFrame

GpuSample ==
    /\ gpuPc = "sleep"
    /\ polls < MaxPolls
    /\ polls' = polls + 1
    /\ gpuTime' \in Time
    /\ gpuNext' = 0
    /\ gpuPc' = "insert"
    /\ UNCHANGED <<conn, errors, torn, acked>>
    /\ GpuFrame

(* Mutants: one GPU too many; the result of sqlite3_step is not read. *)
GpuInsertOneMore ==
    /\ gpuPc = "insert"
    /\ gpuNext <= NumGpus
    /\ gpuNext' = gpuNext + 1
    /\ \/ Succeeds(GpuSampleStmt(view, gpuNext, gpuTime))
       \/ Fails
    /\ UNCHANGED <<gpuPc, gpuTime, polls, acked>>
    /\ GpuFrame

GpuInsertUnread ==
    /\ gpuPc = "insert"
    /\ gpuNext < NumGpus
    /\ gpuNext' = gpuNext + 1
    /\ \/ Succeeds(GpuSampleStmt(view, gpuNext, gpuTime))
       \/ Fails
    /\ acked' = acked \cup {<<gpuNext, gpuTime, IF inTxn THEN txns.begun ELSE 0>>}
    /\ UNCHANGED <<gpuPc, gpuTime, polls>>
    /\ GpuFrame

GpuInsert ==
    /\ gpuPc = "insert"
    /\ gpuNext < NumGpus
    /\ gpuNext' = gpuNext + 1
    /\ \/ /\ Succeeds(GpuSampleStmt(view, gpuNext, gpuTime))
          /\ acked' = acked \cup
               {<<gpuNext, gpuTime, IF inTxn THEN txns.begun ELSE 0>>}
       \/ Fails /\ UNCHANGED acked
    /\ UNCHANGED <<gpuPc, gpuTime, polls>>
    /\ GpuFrame

GpuHealth ==
    /\ gpuPc = "insert"
    /\ gpuNext = NumGpus
    /\ gpuPc' = "sleep"
    /\ \/ Succeeds(HealthDirectStmt(view, "direct_gpu", "ok", gpuTime))
       \/ Fails
    /\ UNCHANGED <<gpuTime, gpuNext, polls, acked>>
    /\ GpuFrame

-----------------------------------------------------------------------------
(* OllamaRuntimeCollector::PollOnce; the HTTP answer decides the status.    *)
OllamaFrame == UNCHANGED <<pipe, gpu, messages, crashes, outcome, base, acked, txns>>

OllamaPoll ==
    /\ ollamaPc = "sleep"
    /\ polls < MaxPolls
    /\ polls' = polls + 1
    /\ ollamaTime' \in Time
    /\ ollamaStatus' \in {"ok", "error", "unreachable"}
    /\ ollamaPc' = IF ollamaStatus' = "ok" THEN "insert" ELSE "health"
    /\ UNCHANGED <<conn, errors, torn>>
    /\ OllamaFrame

OllamaInsert ==
    /\ ollamaPc = "insert"
    /\ ollamaPc' = "health"
    /\ \/ Succeeds(OllamaSampleStmt(view, ollamaTime))
       \/ Fails
    /\ UNCHANGED <<ollamaTime, ollamaStatus, polls>>
    /\ OllamaFrame

OllamaHealth ==
    /\ ollamaPc = "health"
    /\ ollamaPc' = "sleep"
    /\ \/ Succeeds(HealthDirectStmt(view, "ollama", ollamaStatus, ollamaTime))
       \/ Fails
    /\ UNCHANGED <<ollamaTime, ollamaStatus, polls>>
    /\ OllamaFrame

-----------------------------------------------------------------------------
(* The process dies between two statements and is started again.  Startup   *)
(* applies the schema, whose CREATE IF NOT EXISTS and INSERT OR IGNORE       *)
(* change none of these rows.                                                *)
Restart ==
    /\ crashes < MaxCrashes
    /\ crashes' = crashes + 1
    /\ RolledBack
    /\ pc' = "idle"
    /\ msg' = NoMessage
    /\ row' = 1
    /\ gpuPc' = "boot"
    /\ gpuNext' = 0
    /\ ollamaPc' = "sleep"
    /\ outcome' = "none"
    /\ base' = committed
    /\ torn' = FALSE
    /\ UNCHANGED <<gpuTime, ollamaTime, ollamaStatus, messages, polls, errors,
                   acked, txns>>

-----------------------------------------------------------------------------
Init ==
    /\ committed = EmptyDatabase
    /\ view = EmptyDatabase
    /\ inTxn = FALSE
    /\ pc = "idle" /\ msg = NoMessage /\ row = 1
    /\ gpuPc = "boot" /\ gpuTime = NoTime /\ gpuNext = 0
    /\ ollamaPc = "sleep" /\ ollamaTime = NoTime /\ ollamaStatus = "ok"
    /\ messages = 0 /\ polls = 0 /\ errors = 0 /\ crashes = 0
    /\ outcome = "none"
    /\ base = EmptyDatabase
    /\ torn = FALSE
    /\ acked = {}
    /\ txns = [begun |-> 0, durable |-> {}]

Next ==
    \/ \E m \in Incoming : PipeReceive(m)
    \/ PipeStep
    \/ GpuInitialize \/ GpuSample \/ GpuInsert \/ GpuHealth
    \/ OllamaPoll \/ OllamaInsert \/ OllamaHealth
    \/ Restart

Spec == Init /\ [][Next]_vars

(* The pipe thread is scheduled: HandlePipeMessage waits for nothing but    *)
(* the connection's mutex, which every statement gives back.                *)
FairSpec == Spec /\ WF_vars(PipeStep)

-----------------------------------------------------------------------------
TypeOK ==
    /\ committed \in Database
    /\ view \in Database
    /\ inTxn \in BOOLEAN
    /\ pc \in {"idle", "begin", "machine", "collector", "rows", "rollback"}
    /\ msg \in Incoming \cup {NoMessage}
    /\ row \in Nat \ {0}
    /\ gpuPc \in {"boot", "off", "sleep", "insert"}
    /\ gpuTime \in Time \cup {NoTime}
    /\ gpuNext \in 0 .. NumGpus
    /\ ollamaPc \in {"sleep", "insert", "health"}
    /\ ollamaTime \in Time \cup {NoTime}
    /\ ollamaStatus \in {"ok", "error", "unreachable"}
    /\ messages \in Nat /\ polls \in Nat /\ errors \in Nat /\ crashes \in Nat
    /\ outcome \in {"none", "accepted", "rejected"}
    /\ base \in Database
    /\ torn \in BOOLEAN
    /\ acked \in SUBSET (Gpus \X Time \X Nat)
    /\ txns \in [begun : Nat, durable : SUBSET Nat]

(* The tables that the pipe feeds, out of a whole database. *)
PipeTables(db) == [machine |-> db.machine, bridge |-> db.health[Bridge],
                   catalog |-> db.catalog, samples |-> db.samples]

(* SQLite's transaction and Transaction::active_ agree: a transaction is    *)
(* open only while the pipe thread is inside a store call that opened it,   *)
(* and in autocommit mode the connection shows exactly the file.  A path    *)
(* that returns without COMMIT or ROLLBACK would leave every later write of *)
(* every thread uncommitted.                                                *)
TransactionOwned ==
    /\ inTxn => pc \in {"machine", "collector", "rows", "rollback"}
    /\ ~inTxn => view = committed

(* When a store call returned true, the file holds every row of its         *)
(* message - whatever the other threads executed, or had rolled back, on    *)
(* the shared connection meanwhile.                                         *)
AcceptedIsCommitted ==
    outcome = "accepted" =>
        /\ committed.machine.last >= SeenTime(msg)
        /\ committed.health[Bridge].updated = msg.sent
        /\ committed.health[Bridge].hello >= HelloTime(msg)
        /\ committed.health[Bridge].sample >= SampleTime(msg)
        /\ msg.kind = "catalog_snapshot" =>
              \A s \in RowsOf(msg) : committed.catalog[s].last = msg.sent
        /\ msg.kind = "sample_batch" =>
              \A s \in RowsOf(msg) : IsCatalogued(committed.catalog, s)
                                       => <<s, msg.sampled>> \in committed.samples

(* When a store call returned false, the file holds nothing of its message. *)
RejectedLeavesNothing ==
    outcome = "rejected" => PipeTables(committed) = PipeTables(base)

(* Foreign key of sensor_samples: no sample, in the file or on the          *)
(* connection, belongs to a sensor the catalogue does not list.             *)
SamplesCatalogued ==
    \A db \in {committed, view} : \A p \in db.samples : IsCatalogued(db.catalog, p[1])

(* The freshness the API reports covers what is stored: no stored sample is *)
(* newer than collector_health.last_sample_utc_ms of the bridge, nor than   *)
(* the machine's last_seen_utc_ms.                                          *)
SamplesCovered ==
    \A p \in committed.samples : /\ p[2] <= committed.health[Bridge].sample
                                 /\ p[2] <= committed.machine.last

(* A GPU sample that InsertGpuSample reported as stored is in the file,     *)
(* unless it was executed inside a transaction of the pipe thread that has  *)
(* not committed: no other fate of a message, and no restart, loses it.     *)
AckedIsDurable ==
    \A a \in acked : (a[3] = 0 \/ a[3] \in txns.durable)
                        => <<a[1], a[2]>> \in committed.gpu

(* How a database may follow another: rows are never removed, first_seen    *)
(* never changes, and neither the machine's last_seen nor a collector's     *)
(* last_hello or last_sample goes back.  The last_seen of a catalogue entry *)
(* is exempt: it is that of the latest stored catalogue, whose clock may    *)
(* have been behind (UpsertCatalogSensor).                                  *)
Keeps(old, new) ==
    /\ old.samples \subseteq new.samples
    /\ old.gpu \subseteq new.gpu
    /\ old.ollama \subseteq new.ollama
    /\ old.machine.last <= new.machine.last
    /\ old.machine.first # NoTime => new.machine.first = old.machine.first
    /\ \A c \in Sources : /\ old.health[c].hello <= new.health[c].hello
                          /\ old.health[c].sample <= new.health[c].sample
    /\ \A s \in Sensors : old.catalog[s].first # NoTime
                             => new.catalog[s].first = old.catalog[s].first

(* Whatever is sent, fails, is rolled back or restarts, the file never      *)
(* forgets a row, and stepped clocks and late messages do not move back the *)
(* times of the machine and of the collectors that the API reports.         *)
NeverForgets == [][Keeps(committed, committed')]_vars

(* Every transaction of the pipe thread ends, so that the collectors' rows  *)
(* executed inside it do not stay undecided.                                *)
TransactionEnds == inTxn ~> ~inTxn

(* Every GPU sample that was reported as stored reaches the file, unless a   *)
(* statement fails or the process restarts.                                 *)
AckedReachesFile ==
    \A g \in Gpus, t \in Time :
        (\E a \in acked : a[1] = g /\ a[2] = t)
            ~> (<<g, t>> \in committed.gpu \/ errors > 0 \/ crashes > 0)

-----------------------------------------------------------------------------
(* The store implements all-or-nothing ingestion of whole messages.         *)
Atomic == INSTANCE AtomicIngest WITH tables <- PipeTables(committed)
AtomicSpec == Atomic!Spec
=============================================================================

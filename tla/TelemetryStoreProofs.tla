------------------------- MODULE TelemetryStoreProofs -------------------------
(***************************************************************************)
(* Proofs about TelemetryStore for every number of GPUs, sensors, messages *)
(* and failures.  The connection is touched in five ways only (ConnStep),  *)
(* so an invariant of committed, view and inTxn is proved for those five   *)
(* instead of for every action of every thread.                            *)
(***************************************************************************)
EXTENDS TelemetryStore, TLAPS

(* The times a thread is about to write are there while it is busy. *)
Busy ==
    /\ pc # "idle" => msg \in Incoming
    /\ gpuPc = "insert" => gpuTime \in Time
    /\ ollamaPc # "sleep" => ollamaTime \in Time

-----------------------------------------------------------------------------
(* The single-row upserts, which every statement is built from.             *)

LEMMA SeenTimeIsTime ==
    ASSUME NEW m \in Incoming PROVE SeenTime(m) \in Time /\ m.sent \in Time
  BY IncomingAssumption DEF Message, SeenTime, IncomingAssumption

LEMMA TimesAreNaturals ==
    /\ \A t \in Time \cup {NoTime} : t \in Nat
    /\ \A r \in SeenRow : r.first \in Nat /\ r.last \in Nat
    /\ \A r \in CollectorRow : r.hello \in Nat /\ r.sample \in Nat
  <1>1. \A t \in Time \cup {NoTime} : t \in Nat
    BY TimeAssumption DEF TimeAssumption, NoTime
  <1>2. \A r \in SeenRow : r.first \in Time \cup {NoTime} /\ r.last \in Time \cup {NoTime}
    BY DEF SeenRow, NoSeen
  <1>3. \A r \in CollectorRow : r.hello \in Time \cup {NoTime} /\ r.sample \in Time \cup {NoTime}
    BY DEF CollectorRow
  <1>4. QED BY <1>1, <1>2, <1>3

LEMMA LaterIsMaximum ==
    ASSUME NEW a \in Time \cup {NoTime}, NEW b \in Time \cup {NoTime}
    PROVE  /\ Later(a, b) \in Time \cup {NoTime}
           /\ a <= Later(a, b)
           /\ b <= Later(a, b)
  BY TimesAreNaturals DEF Later

LEMMA UpsertMachineType ==
    ASSUME NEW r \in SeenRow, NEW t \in Time
    PROVE  /\ UpsertMachine(r, t) \in SeenRow
           /\ r.last <= UpsertMachine(r, t).last
           /\ t <= UpsertMachine(r, t).last
           /\ r.first # NoTime => UpsertMachine(r, t).first = r.first
  BY TimeAssumption DEF TimeAssumption, UpsertMachine, SeenRow, NoSeen, NoTime, Later

LEMMA UpsertCatalogSensorType ==
    ASSUME NEW r \in SeenRow, NEW t \in Time
    PROVE  /\ UpsertCatalogSensor(r, t) \in SeenRow
           /\ UpsertCatalogSensor(r, t).first # NoTime
           /\ r.first # NoTime => UpsertCatalogSensor(r, t).first = r.first
  BY TimeAssumption DEF TimeAssumption, UpsertCatalogSensor, SeenRow, NoSeen, NoTime

LEMMA UpsertCollectorType ==
    ASSUME NEW r \in CollectorRow, NEW st \in Statuses, NEW h \in Time \cup {NoTime},
           NEW s \in Time \cup {NoTime}, NEW t \in Time
    PROVE  /\ UpsertCollector(r, st, h, s, t) \in CollectorRow
           /\ r.hello <= UpsertCollector(r, st, h, s, t).hello
           /\ r.sample <= UpsertCollector(r, st, h, s, t).sample
           /\ h <= UpsertCollector(r, st, h, s, t).hello
           /\ s <= UpsertCollector(r, st, h, s, t).sample
  <1>1. r.hello \in Time \cup {NoTime} /\ r.sample \in Time \cup {NoTime}
    BY DEF CollectorRow
  <1>2. QED
    BY <1>1, LaterIsMaximum DEF UpsertCollector, CollectorRow

-----------------------------------------------------------------------------
(* What every statement does to the rows the connection sees.               *)

Catalogued(db) == \A p \in db.samples : IsCatalogued(db.catalog, p[1])

Follows(old, new) ==
    /\ new \in Database
    /\ Keeps(old, new)
    /\ Catalogued(old) => Catalogued(new)

LEMMA DatabaseTimes ==
    ASSUME NEW a \in Database
    PROVE  /\ a.machine.last \in Nat
           /\ \A c \in Sources : a.health[c].hello \in Nat /\ a.health[c].sample \in Nat
  BY TimesAreNaturals DEF Database

LEMMA KeepsRefl == ASSUME NEW a \in Database PROVE Keeps(a, a)
  BY DatabaseTimes DEF Keeps

LEMMA KeepsTrans ==
    ASSUME NEW a \in Database, NEW b \in Database, NEW c \in Database,
           Keeps(a, b), Keeps(b, c)
    PROVE  Keeps(a, c)
  <1>1. /\ a.samples \subseteq c.samples
        /\ a.gpu \subseteq c.gpu
        /\ a.ollama \subseteq c.ollama
    BY DEF Keeps
  <1>2. /\ a.machine.last <= c.machine.last
        /\ a.machine.first # NoTime => c.machine.first = a.machine.first
    BY DatabaseTimes DEF Keeps
  <1>3. \A d \in Sources : /\ a.health[d].hello <= c.health[d].hello
                           /\ a.health[d].sample <= c.health[d].sample
    BY DatabaseTimes DEF Keeps
  <1>4. \A s \in Sensors : a.catalog[s].first # NoTime
                              => c.catalog[s].first = a.catalog[s].first
    BY DEF Keeps
  <1>5. QED BY <1>1, <1>2, <1>3, <1>4 DEF Keeps

LEMMA MachineStmtFollows ==
    ASSUME NEW db \in Database, NEW m \in Incoming
    PROVE  Follows(db, MachineStmt(db, m))
  <1> DEFINE r == UpsertMachine(db.machine, SeenTime(m))
  <1>1. /\ r \in SeenRow
        /\ db.machine.last <= r.last
        /\ db.machine.first # NoTime => r.first = db.machine.first
    BY UpsertMachineType, SeenTimeIsTime DEF Database
  <1>2. MachineStmt(db, m) = [db EXCEPT !.machine = r]
    BY DEF MachineStmt, UpsertMachineFor
  <1> HIDE DEF r
  <1>3. QED
    BY <1>1, <1>2, KeepsRefl DEF Follows, Database, Keeps, Catalogued

LEMMA HealthStmtFollows ==
    ASSUME NEW db \in Database, NEW c \in Sources, NEW st \in Statuses,
           NEW h \in Time \cup {NoTime}, NEW s \in Time \cup {NoTime}, NEW t \in Time
    PROVE  Follows(db, [db EXCEPT !.health[c] = UpsertCollector(@, st, h, s, t)])
  <1> DEFINE r == UpsertCollector(db.health[c], st, h, s, t)
  <1>1. /\ r \in CollectorRow
        /\ db.health[c].hello <= r.hello
        /\ db.health[c].sample <= r.sample
    BY UpsertCollectorType DEF Database
  <1> HIDE DEF r
  <1>2. Follows(db, [db EXCEPT !.health[c] = r])
    BY <1>1, KeepsRefl DEF Follows, Database, Keeps, Catalogued
  <1>3. QED BY <1>2 DEF r

LEMMA CatalogStmtFollows ==
    ASSUME NEW db \in Database, NEW m \in Incoming, NEW s \in Sensors
    PROVE  Follows(db, CatalogSensorStmt(db, m, s))
  <1> DEFINE r == UpsertCatalogSensor(db.catalog[s], m.sent)
  <1>1. /\ r \in SeenRow
        /\ r.first # NoTime
        /\ db.catalog[s].first # NoTime => r.first = db.catalog[s].first
    BY UpsertCatalogSensorType, SeenTimeIsTime DEF Database
  <1>2. CatalogSensorStmt(db, m, s) = [db EXCEPT !.catalog[s] = r]
    BY DEF CatalogSensorStmt
  <1> HIDE DEF r
  <1>3. QED
    BY <1>1, <1>2, KeepsRefl DEF Follows, Database, Keeps, Catalogued, IsCatalogued

LEMMA SampleStmtFollows ==
    ASSUME NEW db \in Database, NEW m \in Incoming, NEW s \in Sensors,
           m.kind = "sample_batch"
    PROVE  Follows(db, SensorSampleStmt(db, m, s))
  <1>1. m.sampled \in Time
    BY IncomingAssumption
  <1>2. QED
    BY <1>1, KeepsRefl DEF Follows, Database, Keeps, Catalogued, IsCatalogued,
                           SensorSampleStmt

LEMMA GpuStmtFollows ==
    ASSUME NEW db \in Database, NEW g \in Gpus, NEW t \in Time
    PROVE  Follows(db, GpuSampleStmt(db, g, t))
  BY KeepsRefl DEF Follows, Database, Keeps, Catalogued, GpuSampleStmt

LEMMA OllamaStmtFollows ==
    ASSUME NEW db \in Database, NEW t \in Time
    PROVE  Follows(db, OllamaSampleStmt(db, t))
  BY KeepsRefl DEF Follows, Database, Keeps, Catalogued, OllamaSampleStmt

-----------------------------------------------------------------------------
(* The five ways in which a step touches the connection.                    *)

ConnStep ==
    \/ UNCHANGED conn
    \/ /\ Follows(view, view')
       /\ committed' = IF inTxn THEN committed ELSE view'
       /\ inTxn' = inTxn
    \/ RolledBack
    \/ ~inTxn /\ inTxn' = TRUE /\ UNCHANGED <<committed, view>>
    \/ inTxn /\ inTxn' = FALSE /\ committed' = view /\ UNCHANGED view

LEMMA SucceedsConnStep ==
    ASSUME NEW db, Follows(view, db), Succeeds(db) PROVE ConnStep
  BY DEF Succeeds, ConnStep

LEMMA FailsConnStep == ASSUME Fails PROVE ConnStep
  BY DEF Fails, ConnStep, RolledBack, conn

LEMMA RowSensor ==
    ASSUME msg \in Incoming, row \in Nat \ {0}, row <= Len(msg.rows)
    PROVE  msg.rows[row] \in Sensors
  BY IncomingAssumption DEF IncomingAssumption, Message

LEMMA MessageFields ==
    ASSUME NEW m \in Incoming
    PROVE  /\ CollectorStatus(m) \in Statuses
           /\ HelloTime(m) \in Time \cup {NoTime}
           /\ SampleTime(m) \in Time \cup {NoTime}
           /\ m.sent \in Time
  BY IncomingAssumption, StatusAssumption
     DEF IncomingAssumption, StatusAssumption, Message, CollectorStatus, HelloTime,
         SampleTime

LEMMA CollectorStmtFollows ==
    ASSUME NEW db \in Database, NEW m \in Incoming
    PROVE  Follows(db, CollectorStmt(db, m))
  BY MessageFields, HealthStmtFollows
     DEF CollectorStmt, UpsertCollectorFor, Sources

LEMMA DirectStmtFollows ==
    ASSUME NEW db \in Database, NEW c \in Sources, NEW t \in Time,
           NEW st \in {"ok", "error", "unreachable"}
    PROVE  Follows(db, HealthDirectStmt(db, c, st, t))
  BY HealthStmtFollows, StatusAssumption DEF HealthDirectStmt, StatusAssumption

LEMMA PipeConnStep ==
    ASSUME TypeOK, Busy, PipeStep PROVE ConnStep
  <1> USE DEF TypeOK, Busy
  <1>1. CASE Begin
    <2>1. CASE Fails BY <2>1, FailsConnStep
    <2>2. CASE ~Fails BY <1>1, <2>2 DEF Begin, ConnStep, conn
    <2>3. QED BY <2>1, <2>2
  <1>2. CASE UpsertMachineStep
    BY <1>2, FailsConnStep, SucceedsConnStep, MachineStmtFollows DEF UpsertMachineStep
  <1>3. CASE UpsertCollectorStep
    BY <1>3, FailsConnStep, SucceedsConnStep, CollectorStmtFollows DEF UpsertCollectorStep
  <1>4. CASE RowStep
    <2>1. CASE Fails BY <2>1, FailsConnStep
    <2>2. CASE ~Fails
      <3>1. msg \in Incoming /\ msg.rows[row] \in Sensors
        BY <1>4, RowSensor DEF RowStep
      <3>2. CASE msg.kind = "catalog_snapshot"
        BY <1>4, <2>2, <3>1, <3>2, SucceedsConnStep, CatalogStmtFollows DEF RowStep
      <3>3. CASE msg.kind = "sample_batch"
        BY <1>4, <2>2, <3>1, <3>3, SucceedsConnStep, SampleStmtFollows DEF RowStep
      <3>4. QED BY <1>4, <3>2, <3>3 DEF RowStep, HasRows
    <2>3. QED BY <2>1, <2>2
  <1>5. CASE Commit
    <2>1. CASE Fails BY <2>1, FailsConnStep
    <2>2. CASE ~Fails BY <1>5, <2>2 DEF Commit, CommitFrame, ConnStep, conn
    <2>3. QED BY <2>1, <2>2
  <1>6. CASE Rollback
    BY <1>6 DEF Rollback, ConnStep
  <1>7. QED
    BY <1>1, <1>2, <1>3, <1>4, <1>5, <1>6 DEF PipeStep

LEMMA NextConnStep ==
    ASSUME TypeOK, Busy, [Next]_vars PROVE ConnStep
  <1> USE DEF TypeOK, Busy
  <1>1. CASE \E m \in Incoming : PipeReceive(m)
    BY <1>1 DEF PipeReceive, ConnStep
  <1>2. CASE PipeStep
    BY <1>2, PipeConnStep
  <1>3. CASE GpuInitialize
    <2>1. CASE UNCHANGED conn BY <2>1 DEF ConnStep
    <2>2. CASE Fails BY <2>2, FailsConnStep
    <2>3. CASE \E now \in Time :
                 Succeeds(HealthDirectStmt(view, "direct_gpu", "error", now))
      BY <2>3, SucceedsConnStep, DirectStmtFollows DEF Sources
    <2>4. QED BY <1>3, <2>1, <2>2, <2>3 DEF GpuInitialize
  <1>4. CASE GpuSample BY <1>4 DEF GpuSample, ConnStep
  <1>5. CASE GpuInsert
    <2>1. CASE Fails BY <2>1, FailsConnStep
    <2>2. CASE Succeeds(GpuSampleStmt(view, gpuNext, gpuTime))
      <3>1. gpuNext \in Gpus /\ gpuTime \in Time
        BY <1>5, StoreAssumption DEF GpuInsert, Gpus, StoreAssumption
      <3>2. QED BY <2>2, <3>1, SucceedsConnStep, GpuStmtFollows
    <2>3. QED BY <1>5, <2>1, <2>2 DEF GpuInsert
  <1>6. CASE GpuHealth
    BY <1>6, FailsConnStep, SucceedsConnStep, DirectStmtFollows DEF GpuHealth, Sources
  <1>7. CASE OllamaPoll BY <1>7 DEF OllamaPoll, ConnStep
  <1>8. CASE OllamaInsert
    BY <1>8, FailsConnStep, SucceedsConnStep, OllamaStmtFollows DEF OllamaInsert
  <1>9. CASE OllamaHealth
    BY <1>9, FailsConnStep, SucceedsConnStep, DirectStmtFollows DEF OllamaHealth, Sources
  <1>10. CASE Restart BY <1>10 DEF Restart, ConnStep
  <1>11. CASE UNCHANGED vars BY <1>11 DEF vars, ConnStep, conn
  <1>12. QED
    BY <1>1, <1>2, <1>3, <1>4, <1>5, <1>6, <1>7, <1>8, <1>9, <1>10, <1>11 DEF Next

-----------------------------------------------------------------------------
(* Type correctness.  Busy is what makes it inductive: a thread that is     *)
(* about to write has a message or a time to write.                         *)

LEMMA EmptyDatabaseType == EmptyDatabase \in Database /\ Keeps(EmptyDatabase, EmptyDatabase)
  <1>1. EmptyDatabase \in Database
    BY DEF EmptyDatabase, Database, SeenRow, NoCollector, CollectorRow
  <1>2. QED BY <1>1, KeepsRefl

LEMMA ConnStepType ==
    ASSUME committed \in Database, view \in Database, inTxn \in BOOLEAN, ConnStep
    PROVE  committed' \in Database /\ view' \in Database /\ inTxn' \in BOOLEAN
  BY DEF ConnStep, Follows, RolledBack, conn

LEMMA ZeroIsGpuIndex == 0 \in 0 .. NumGpus
  BY StoreAssumption DEF StoreAssumption

LEMMA InitType == Init => TypeOK /\ Busy
  <1> SUFFICES ASSUME Init PROVE TypeOK /\ Busy
    OBVIOUS
  <1>1. /\ committed \in Database /\ view \in Database /\ base \in Database
        /\ inTxn \in BOOLEAN /\ torn \in BOOLEAN
    BY EmptyDatabaseType DEF Init
  <1>2. /\ acked \in SUBSET (Gpus \X Time \X Nat)
        /\ txns \in [begun : Nat, durable : SUBSET Nat]
    BY DEF Init
  <1>3. /\ gpuNext \in 0 .. NumGpus /\ row \in Nat \ {0}
        /\ messages \in Nat /\ polls \in Nat /\ errors \in Nat /\ crashes \in Nat
    BY ZeroIsGpuIndex DEF Init
  <1>4. QED BY <1>1, <1>2, <1>3 DEF Init, TypeOK, Busy

LEMMA NextType == TypeOK /\ Busy /\ [Next]_vars => TypeOK' /\ Busy'
  <1> SUFFICES ASSUME TypeOK, Busy, [Next]_vars PROVE TypeOK' /\ Busy'
    OBVIOUS
  <1>1. committed' \in Database /\ view' \in Database /\ inTxn' \in BOOLEAN
    BY NextConnStep, ConnStepType DEF TypeOK
  <1> USE StoreAssumption DEF TypeOK, Busy, StoreAssumption
  <1>2. ASSUME NEW m \in Incoming, PipeReceive(m) PROVE TypeOK' /\ Busy'
    <2>1. base' \in Database /\ row' \in Nat \ {0} /\ messages' \in Nat
      BY <1>2 DEF PipeReceive
    <2>2. UNCHANGED <<committed, view, inTxn, gpuPc, gpuTime, gpuNext, ollamaPc,
                      ollamaTime, ollamaStatus, polls, errors, crashes, acked, txns>>
      BY <1>2 DEF PipeReceive, conn, gpu, ollama
    <2>3. msg' \in Incoming /\ pc' = "begin" /\ outcome' = "none" /\ torn' = FALSE
      BY <1>2 DEF PipeReceive
    <2>4. QED BY <2>1, <2>2, <2>3
  <1>3. CASE Begin
    BY <1>1, <1>3 DEF Begin, Fails, conn, gpu, ollama
  <1>4. CASE UpsertMachineStep
    BY <1>1, <1>4 DEF UpsertMachineStep, Succeeds, Fails, PipeFrame, gpu, ollama
  <1>5. CASE UpsertCollectorStep
    BY <1>1, <1>5 DEF UpsertCollectorStep, Succeeds, Fails, PipeFrame, gpu, ollama
  <1>6. CASE RowStep
    BY SMTT(30), <1>1, <1>6 DEF RowStep, Succeeds, Fails, PipeFrame, gpu, ollama
  <1>7. CASE Commit
    BY SMTT(30), <1>1, <1>7 DEF Commit, CommitFrame, Fails, conn, gpu, ollama
  <1>8. CASE Rollback
    BY <1>1, <1>8 DEF Rollback, gpu, ollama
  <1>9. CASE GpuInitialize
    BY <1>1, <1>9 DEF GpuInitialize, Succeeds, Fails, GpuFrame, conn, pipe, ollama
  <1>10. CASE GpuSample
    BY <1>1, <1>10 DEF GpuSample, GpuFrame, conn, pipe, ollama
  <1>11. CASE GpuInsert
    <2>1. gpuNext \in Gpus /\ gpuTime \in Time /\ gpuNext' \in 0 .. NumGpus
      BY <1>11 DEF GpuInsert, Gpus
    <2>2. acked' \in SUBSET (Gpus \X Time \X Nat)
      BY <1>11, <2>1 DEF GpuInsert
    <2>3. errors' \in Nat /\ torn' \in BOOLEAN
      BY <1>11 DEF GpuInsert, Succeeds, Fails
    <2>4. QED
      BY <1>1, <1>11, <2>1, <2>2, <2>3 DEF GpuInsert, GpuFrame, pipe, ollama
  <1>12. CASE GpuHealth
    BY <1>1, <1>12 DEF GpuHealth, Succeeds, Fails, GpuFrame, pipe, ollama
  <1>13. CASE OllamaPoll
    BY <1>1, <1>13 DEF OllamaPoll, OllamaFrame, conn, pipe, gpu
  <1>14. CASE OllamaInsert
    BY <1>1, <1>14 DEF OllamaInsert, Succeeds, Fails, OllamaFrame, pipe, gpu
  <1>15. CASE OllamaHealth
    BY <1>1, <1>15 DEF OllamaHealth, Succeeds, Fails, OllamaFrame, pipe, gpu
  <1>16. CASE Restart
    <2>1. base' \in Database /\ row' \in Nat \ {0} /\ crashes' \in Nat
      BY <1>16 DEF Restart
    <2>2. gpuNext' \in 0 .. NumGpus
      BY <1>16, ZeroIsGpuIndex DEF Restart
    <2>3. QED BY <1>1, <1>16, <2>1, <2>2 DEF Restart
  <1>17. CASE UNCHANGED vars
    BY <1>1, <1>17 DEF vars
  <1>18. QED
    BY <1>2, <1>3, <1>4, <1>5, <1>6, <1>7, <1>8, <1>9, <1>10, <1>11, <1>12, <1>13,
       <1>14, <1>15, <1>16, <1>17 DEF Next, PipeStep

(* In every reachable state the rows, the threads' local state and the      *)
(* history have the types that the columns and the code give them.          *)
THEOREM TypeCorrect == Spec => [](TypeOK /\ Busy)
  <1>1. Init => TypeOK /\ Busy BY InitType
  <1>2. TypeOK /\ Busy /\ [Next]_vars => TypeOK' /\ Busy' BY NextType
  <1>3. QED BY <1>1, <1>2, PTL DEF Spec

-----------------------------------------------------------------------------
(* Transactions belong to the pipe thread, and end with it.                 *)

LEMMA NextOwned ==
    TypeOK /\ Busy /\ TransactionOwned /\ [Next]_vars => TransactionOwned'
  <1> SUFFICES ASSUME TypeOK, Busy, TransactionOwned, [Next]_vars
               PROVE  TransactionOwned'
    OBVIOUS
  <1>1. ~inTxn' => view' = committed'
    <2>1. ConnStep BY NextConnStep
    <2>2. CASE UNCHANGED conn BY <2>2 DEF TransactionOwned, conn
    <2>3. CASE committed' = (IF inTxn THEN committed ELSE view') /\ inTxn' = inTxn
      BY <2>3
    <2>4. CASE RolledBack BY <2>4 DEF RolledBack
    <2>5. CASE inTxn' = TRUE BY <2>5
    <2>6. CASE committed' = view /\ UNCHANGED view BY <2>6
    <2>7. QED BY <2>1, <2>2, <2>3, <2>4, <2>5, <2>6 DEF ConnStep
  <1>2. inTxn' => pc' \in {"machine", "collector", "rows", "rollback"}
    <2> USE DEF TransactionOwned, TypeOK
    <2>1. CASE PipeStep
      <3>1. CASE Begin BY <3>1 DEF Begin, Fails, RolledBack, conn
      <3>2. CASE UpsertMachineStep
        BY <3>2 DEF UpsertMachineStep, Succeeds, Fails, RolledBack
      <3>3. CASE UpsertCollectorStep
        BY <3>3 DEF UpsertCollectorStep, Succeeds, Fails, RolledBack
      <3>4. CASE RowStep BY <3>4 DEF RowStep, Succeeds, Fails, RolledBack
      <3>5. CASE Commit BY <3>5 DEF Commit, CommitFrame, Fails, RolledBack, conn
      <3>6. CASE Rollback BY <3>6 DEF Rollback, RolledBack
      <3>7. QED BY <2>1, <3>1, <3>2, <3>3, <3>4, <3>5, <3>6 DEF PipeStep
    <2>2. CASE \E m \in Incoming : PipeReceive(m)
      BY <2>2 DEF PipeReceive, conn
    <2>3. CASE GpuInitialize \/ GpuSample \/ GpuInsert \/ GpuHealth
      BY <2>3 DEF GpuInitialize, GpuSample, GpuInsert, GpuHealth, GpuFrame, pipe, conn,
                  Succeeds, Fails, RolledBack
    <2>4. CASE OllamaPoll \/ OllamaInsert \/ OllamaHealth
      BY <2>4 DEF OllamaPoll, OllamaInsert, OllamaHealth, OllamaFrame, pipe, conn,
                  Succeeds, Fails, RolledBack
    <2>5. CASE Restart BY <2>5 DEF Restart, RolledBack
    <2>6. CASE UNCHANGED vars BY <2>6 DEF vars
    <2>7. QED BY <2>1, <2>2, <2>3, <2>4, <2>5, <2>6 DEF Next
  <1>3. QED BY <1>1, <1>2 DEF TransactionOwned

(* Whatever statements fail, are rolled back or are cut off by a restart,   *)
(* sqlite's transaction is open only inside a call of the pipe thread, and  *)
(* outside one the connection shows exactly the file.                       *)
THEOREM TransactionsOwned == Spec => []TransactionOwned
  <1>1. Init => TransactionOwned
    BY DEF Init, TransactionOwned
  <1>2. QED BY <1>1, NextOwned, TypeCorrect, PTL DEF Spec

-----------------------------------------------------------------------------
(* The foreign key of sensor_samples.                                       *)

LEMMA NextCatalogued ==
    TypeOK /\ Busy /\ TransactionOwned /\ SamplesCatalogued /\ [Next]_vars
        => SamplesCatalogued'
  <1> SUFFICES ASSUME TypeOK, Busy, TransactionOwned, SamplesCatalogued, [Next]_vars
               PROVE  Catalogued(committed') /\ Catalogued(view')
    BY DEF SamplesCatalogued, Catalogued
  <1>1. Catalogued(committed) /\ Catalogued(view)
    BY DEF SamplesCatalogued, Catalogued
  <1>2. ConnStep BY NextConnStep
  <1>3. CASE UNCHANGED conn BY <1>1, <1>3 DEF conn
  <1>4. CASE /\ Follows(view, view')
             /\ committed' = IF inTxn THEN committed ELSE view'
    BY <1>1, <1>4 DEF Follows
  <1>5. CASE RolledBack BY <1>1, <1>5 DEF RolledBack
  <1>6. CASE UNCHANGED <<committed, view>> BY <1>1, <1>6
  <1>7. CASE committed' = view /\ UNCHANGED view BY <1>1, <1>7
  <1>8. QED BY <1>2, <1>3, <1>4, <1>5, <1>6, <1>7 DEF ConnStep

(* No sample ever belongs to a sensor that the catalogue does not list,     *)
(* neither in the file nor in an open transaction.                          *)
THEOREM SamplesAreCatalogued == Spec => []SamplesCatalogued
  <1>1. Init => SamplesCatalogued
    BY DEF Init, SamplesCatalogued, EmptyDatabase
  <1>2. QED
    BY <1>1, NextCatalogued, TypeCorrect, TransactionsOwned, PTL DEF Spec

-----------------------------------------------------------------------------
(* The file never forgets.  The connection's view, which a commit makes the *)
(* file, always follows the file: Ahead is the inductive part.              *)

Ahead == Keeps(committed, view)

LEMMA NextAhead ==
    TypeOK /\ Busy /\ TransactionOwned /\ Ahead /\ [Next]_vars
        => Ahead' /\ Keeps(committed, committed')
  <1> SUFFICES ASSUME TypeOK, Busy, TransactionOwned, Ahead, [Next]_vars
               PROVE  Keeps(committed', view') /\ Keeps(committed, committed')
    BY DEF Ahead
  <1>1. /\ committed \in Database /\ view \in Database
        /\ committed' \in Database /\ view' \in Database
    BY NextType DEF TypeOK
  <1>2. ConnStep BY NextConnStep
  <1>3. CASE UNCHANGED conn
    BY <1>1, <1>3, KeepsRefl DEF conn, Ahead
  <1>4. CASE /\ Follows(view, view')
             /\ committed' = IF inTxn THEN committed ELSE view'
    <2>1. Keeps(committed, view')
      BY <1>1, <1>4, KeepsTrans DEF Follows, Ahead
    <2>2. QED BY <1>1, <1>4, <2>1, KeepsRefl
  <1>5. CASE RolledBack BY <1>1, <1>5, KeepsRefl DEF RolledBack
  <1>6. CASE UNCHANGED <<committed, view>> BY <1>1, <1>6, KeepsRefl DEF Ahead
  <1>7. CASE committed' = view /\ UNCHANGED view BY <1>1, <1>7, KeepsRefl DEF Ahead
  <1>8. QED BY <1>2, <1>3, <1>4, <1>5, <1>6, <1>7 DEF ConnStep

(* No step - a late or re-dated message, a failed or rolled back statement, *)
(* a restart - removes a row from the file, or moves back the machine's     *)
(* last_seen or a collector's last_hello or last_sample.  Nothing is said   *)
(* of the last_seen of a catalogue entry, which a late message does move    *)
(* back.                                                                    *)
THEOREM FileNeverForgets == Spec => NeverForgets
  <1>1. Init => Ahead
    BY EmptyDatabaseType DEF Init, Ahead
  <1>2. TypeOK /\ Busy /\ TransactionOwned /\ Ahead /\ [Next]_vars
            => Ahead' /\ [Keeps(committed, committed')]_vars
    BY NextAhead
  <1>3. QED
    BY <1>1, <1>2, TypeCorrect, TransactionsOwned, PTL DEF Spec, NeverForgets

-----------------------------------------------------------------------------
(* Acknowledged collector rows.  The connection's view holds what was       *)
(* acknowledged inside the open transaction, and a transaction's number is  *)
(* durable only once it is closed.                                          *)

Acked ==
    /\ AckedIsDurable
    /\ inTxn => \A a \in acked : a[3] = txns.begun => <<a[1], a[2]>> \in view.gpu
    /\ inTxn => txns.begun \notin txns.durable /\ txns.begun > 0
    /\ \A n \in txns.durable : n <= txns.begun
    /\ \A a \in acked : a[3] <= txns.begun

LEMMA WhoTouchesHistory ==
    ASSUME [Next]_vars
    PROVE  /\ ~inTxn /\ inTxn' => Begin
           /\ txns' # txns => Begin \/ Commit
           /\ acked' # acked => GpuInsert
  <1>1. CASE \E m \in Incoming : PipeReceive(m) BY <1>1 DEF PipeReceive, conn
  <1>2. CASE Begin BY <1>2 DEF Begin
  <1>3. CASE UpsertMachineStep
    BY <1>3 DEF UpsertMachineStep, Succeeds, Fails, RolledBack, PipeFrame
  <1>4. CASE UpsertCollectorStep
    BY <1>4 DEF UpsertCollectorStep, Succeeds, Fails, RolledBack, PipeFrame
  <1>5. CASE RowStep BY <1>5 DEF RowStep, Succeeds, Fails, RolledBack, PipeFrame
  <1>6. CASE Commit BY <1>6 DEF Commit, CommitFrame, Fails, RolledBack, conn
  <1>7. CASE Rollback BY <1>7 DEF Rollback, RolledBack
  <1>8. CASE GpuInitialize \/ GpuSample \/ GpuHealth
    BY <1>8 DEF GpuInitialize, GpuSample, GpuHealth, GpuFrame, conn, Succeeds, Fails,
                RolledBack
  <1>9. CASE GpuInsert BY <1>9 DEF GpuInsert, GpuFrame, Succeeds, Fails, RolledBack
  <1>10. CASE OllamaPoll \/ OllamaInsert \/ OllamaHealth
    BY <1>10 DEF OllamaPoll, OllamaInsert, OllamaHealth, OllamaFrame, conn, Succeeds,
                 Fails, RolledBack
  <1>11. CASE Restart BY <1>11 DEF Restart, RolledBack
  <1>12. CASE UNCHANGED vars BY <1>12 DEF vars
  <1>13. QED
    BY <1>1, <1>2, <1>3, <1>4, <1>5, <1>6, <1>7, <1>8, <1>9, <1>10, <1>11, <1>12
       DEF Next, PipeStep

LEMMA ViewGrowsInTxn ==
    ASSUME ConnStep, inTxn, inTxn' PROVE view.gpu \subseteq view'.gpu
  BY DEF ConnStep, Follows, Keeps, RolledBack, conn

LEMMA NextAcked ==
    TypeOK /\ Busy /\ TransactionOwned /\ Ahead /\ Acked /\ [Next]_vars => Acked'
  <1> SUFFICES ASSUME TypeOK, Busy, TransactionOwned, Ahead, Acked, [Next]_vars
               PROVE  Acked'
    OBVIOUS
  <1>1. committed.gpu \subseteq committed'.gpu
    BY NextAhead DEF Keeps
  <1>2. inTxn /\ inTxn' => view.gpu \subseteq view'.gpu
    BY NextConnStep, ViewGrowsInTxn
  <1>3. CASE Begin
    <2>1. CASE txns' = txns
      <3>1. txns # [txns EXCEPT !.begun = @ + 1]
        BY DEF TypeOK
      <3>2. acked' = acked /\ (inTxn' => inTxn)
        BY <1>3, <2>1, <3>1 DEF Begin, Fails, RolledBack, conn
      <3>3. QED BY <1>1, <1>2, <2>1, <3>2 DEF Acked, AckedIsDurable
    <2>2. CASE txns' # txns
      <3>1. /\ txns' = [txns EXCEPT !.begun = @ + 1]
            /\ acked' = acked /\ committed' = committed
        BY <1>3, <2>2 DEF Begin
      <3>2. txns'.begun = txns.begun + 1 /\ txns'.durable = txns.durable
        BY <3>1 DEF TypeOK
      <3>3. /\ txns.begun \in Nat
            /\ \A n \in txns.durable : n \in Nat
            /\ \A a \in acked : a[3] \in Nat
        BY DEF TypeOK
      <3>4. \A a \in acked : a[3] # txns.begun + 1
        BY <3>3 DEF Acked
      <3>5. txns.begun + 1 \notin txns.durable
        BY <3>3 DEF Acked
      <3>6. /\ \A n \in txns.durable : n <= txns.begun + 1
            /\ \A a \in acked : a[3] <= txns.begun + 1
            /\ txns.begun + 1 > 0
        BY <3>3 DEF Acked
      <3>7. AckedIsDurable' BY <3>1, <3>2 DEF Acked, AckedIsDurable
      <3>8. QED BY <3>1, <3>2, <3>4, <3>5, <3>6, <3>7 DEF Acked
    <2>3. QED BY <2>1, <2>2
  <1>4. CASE Commit
    <2>1. CASE Fails \/ UNCHANGED conn
      <3>1. acked' = acked /\ txns' = txns /\ (inTxn' => inTxn)
        BY <1>4, <2>1 DEF Commit, CommitFrame, Fails, RolledBack, conn, TypeOK
      <3>2. QED BY <1>1, <1>2, <3>1 DEF Acked, AckedIsDurable
    <2>2. CASE ~(Fails \/ UNCHANGED conn)
      <3>1. /\ txns' = [txns EXCEPT !.durable = @ \cup {txns.begun}]
            /\ acked' = acked /\ committed' = view /\ inTxn /\ inTxn' = FALSE
        BY <1>4, <2>2 DEF Commit, CommitFrame, conn
      <3>2. txns'.begun = txns.begun /\ txns'.durable = txns.durable \cup {txns.begun}
        BY <3>1 DEF TypeOK
      <3>3. AckedIsDurable'
        BY <1>1, <3>1, <3>2 DEF Acked, AckedIsDurable
      <3>4. txns.begun \in Nat BY DEF TypeOK
      <3>5. QED BY <3>1, <3>2, <3>3, <3>4 DEF Acked
    <2>3. QED BY <2>1, <2>2
  <1>5. CASE GpuInsert /\ acked' # acked
    <2> DEFINE txn == IF inTxn THEN txns.begun ELSE 0
               new == <<gpuNext, gpuTime, txn>>
    <2>1. /\ Succeeds(GpuSampleStmt(view, gpuNext, gpuTime))
          /\ acked' = acked \cup {new}
          /\ txns' = txns
      BY <1>5 DEF GpuInsert, GpuFrame
    <2>2. <<gpuNext, gpuTime>> \in view'.gpu
      BY <2>1 DEF Succeeds, GpuSampleStmt, TypeOK, Database
    <2>3. ~inTxn => <<gpuNext, gpuTime>> \in committed'.gpu
      BY <2>1, <2>2 DEF Succeeds
    <2>4. inTxn' = inTxn BY <2>1 DEF Succeeds
    <2>5. txns.begun \in Nat BY DEF TypeOK
    <2>6. AckedIsDurable'
      BY <1>1, <2>1, <2>3 DEF Acked, AckedIsDurable
    <2>7. QED
      BY <1>2, <2>1, <2>2, <2>4, <2>5, <2>6 DEF Acked
  <1>6. CASE acked' = acked /\ txns' = txns /\ (inTxn' => inTxn)
    BY <1>1, <1>2, <1>6 DEF Acked, AckedIsDurable
  <1>7. QED
    BY <1>3, <1>4, <1>5, <1>6, WhoTouchesHistory

(* A GPU row that InsertGpuSample reported as stored is in the file as soon *)
(* as the transaction it was executed in, if any, has committed, and stays  *)
(* there: rollbacks of other transactions and restarts do not reach it.     *)
THEOREM AckedRowsAreDurable == Spec => []AckedIsDurable
  <1>1. Init => Ahead /\ Acked
    BY EmptyDatabaseType DEF Init, Ahead, Acked, AckedIsDurable
  <1>2. TypeOK /\ Busy /\ TransactionOwned /\ Ahead /\ [Next]_vars => Ahead'
    BY NextAhead
  <1>3. Spec => [](Ahead /\ Acked)
    BY <1>1, <1>2, NextAcked, TypeCorrect, TransactionsOwned, PTL DEF Spec
  <1>4. Acked => AckedIsDurable BY DEF Acked
  <1>5. QED BY <1>3, <1>4, PTL
-----------------------------------------------------------------------------
(* TelemetryStore ingests whole messages.  While the pipe thread's           *)
(* transaction is open, the pipe's tables on the connection are those of the *)
(* file with the message applied as far as the thread has come (InFlight),   *)
(* so that a successful COMMIT applies exactly one message.  That part needs *)
(* nothing of SQLite's errors; that nothing else changes the pipe's tables   *)
(* in the file needs AutoRollback = FALSE.                                   *)

Done == {msg.rows[i] : i \in 1 .. row - 1}

InFlight ==
    LET t == PipeTables(committed) IN
    inTxn =>
      /\ pc = "machine" => PipeTables(view) = t /\ row = 1
      /\ pc = "collector" =>
           PipeTables(view) = [t EXCEPT !.machine = UpsertMachineFor(@, msg)] /\ row = 1
      /\ pc = "rows" =>
           /\ PipeTables(view) = [machine |-> UpsertMachineFor(t.machine, msg),
                                  bridge  |-> UpsertCollectorFor(t.bridge, msg),
                                  catalog |-> Atomic!CatalogWith(t, msg, Done),
                                  samples |-> Atomic!SamplesWith(t, msg, Done)]
           /\ HasRows => row <= Len(msg.rows) + 1

(* Where the row counter of a new message starts. *)
FirstRow == pc \in {"begin", "machine", "collector"} => row = 1

-----------------------------------------------------------------------------
(* The threads of the collectors do not touch the pipe's tables.            *)

CollectorStep == \/ GpuInitialize \/ GpuSample \/ GpuInsert \/ GpuHealth
                 \/ OllamaPoll \/ OllamaInsert \/ OllamaHealth

LEMMA CollectorStmtFrame ==
    ASSUME NEW db \in Database, NEW t, NEW g, NEW st,
           NEW c \in {"direct_gpu", "ollama"}
    PROVE  /\ PipeTables(GpuSampleStmt(db, g, t)) = PipeTables(db)
           /\ PipeTables(OllamaSampleStmt(db, t)) = PipeTables(db)
           /\ PipeTables(HealthDirectStmt(db, c, st, t)) = PipeTables(db)
  BY DEF Database, PipeTables, GpuSampleStmt, OllamaSampleStmt, HealthDirectStmt,
         Sources, Bridge

LEMMA SucceedsFrame ==
    ASSUME TransactionOwned, NEW db, Succeeds(db), PipeTables(db) = PipeTables(view)
    PROVE  /\ PipeTables(view') = PipeTables(view)
           /\ PipeTables(committed') = PipeTables(committed)
           /\ inTxn' = inTxn
  BY DEF Succeeds, TransactionOwned

LEMMA CollectorFrame ==
    ASSUME TypeOK, TransactionOwned, CollectorStep
    PROVE  /\ UNCHANGED <<pc, msg, row, outcome, base>>
           /\ PipeTables(committed') = PipeTables(committed)
           /\ \/ PipeTables(view') = PipeTables(view) /\ inTxn' = inTxn
              \/ inTxn' = FALSE /\ AutoRollback
  <1>1. UNCHANGED <<pc, msg, row, outcome, base>>
    BY DEF CollectorStep, GpuInitialize, GpuSample, GpuInsert, GpuHealth, GpuFrame,
           OllamaPoll, OllamaInsert, OllamaHealth, OllamaFrame, pipe
  <1>2. CASE Fails
    BY <1>1, <1>2 DEF Fails, RolledBack
  <1>3. CASE UNCHANGED conn
    BY <1>1, <1>3 DEF conn
  <1>4. CASE \E db : Succeeds(db) /\ PipeTables(db) = PipeTables(view)
    BY <1>1, <1>4, SucceedsFrame
  <1> USE DEF TypeOK
  <1>5. GpuInitialize => Fails \/ UNCHANGED conn
                       \/ \E db : Succeeds(db) /\ PipeTables(db) = PipeTables(view)
    BY CollectorStmtFrame DEF GpuInitialize
  <1>6. GpuInsert \/ GpuHealth
          => Fails \/ \E db : Succeeds(db) /\ PipeTables(db) = PipeTables(view)
    BY CollectorStmtFrame DEF GpuInsert, GpuHealth
  <1>7. OllamaInsert \/ OllamaHealth
          => Fails \/ \E db : Succeeds(db) /\ PipeTables(db) = PipeTables(view)
    BY CollectorStmtFrame DEF OllamaInsert, OllamaHealth
  <1>8. GpuSample \/ OllamaPoll => UNCHANGED conn
    BY DEF GpuSample, OllamaPoll
  <1>9. QED
    BY <1>2, <1>3, <1>4, <1>5, <1>6, <1>7, <1>8 DEF CollectorStep

-----------------------------------------------------------------------------
(* AtomicIngest reads the same row operators through its own copy.          *)

LEMMA SameRowOperators ==
    /\ \A r, t : Atomic!UpsertCatalogSensor(r, t) = UpsertCatalogSensor(r, t)
    /\ \A c, s : Atomic!IsCatalogued(c, s) = IsCatalogued(c, s)
    /\ \A r, m : Atomic!UpsertMachineFor(r, m) = UpsertMachineFor(r, m)
    /\ \A r, m : Atomic!UpsertCollectorFor(r, m) = UpsertCollectorFor(r, m)
    /\ \A m : Atomic!RowsOf(m) = RowsOf(m)
  BY DEF Atomic!UpsertCatalogSensor, UpsertCatalogSensor, Atomic!NoTime, NoTime,
         Atomic!IsCatalogued, IsCatalogued, Atomic!UpsertMachineFor, UpsertMachineFor,
         Atomic!UpsertMachine, UpsertMachine, Atomic!SeenTime, SeenTime,
         Atomic!Later, Later, Atomic!UpsertCollectorFor, UpsertCollectorFor,
         Atomic!UpsertCollector, UpsertCollector, Atomic!CollectorStatus,
         CollectorStatus, Atomic!HelloTime, HelloTime, Atomic!SampleTime, SampleTime,
         Atomic!RowsOf, RowsOf

-----------------------------------------------------------------------------
(* One more row of the message.                                             *)

LEMMA DoneGrows ==
    ASSUME TypeOK, row' = row + 1, msg' = msg
    PROVE  Done' = Done \cup {msg.rows[row]}
  <1>1. 1 .. row' - 1 = (1 .. row - 1) \cup {row}
    BY DEF TypeOK
  <1>2. QED BY <1>1 DEF Done

LEMMA AllDone ==
    ASSUME msg \in Incoming, row \in Nat, row > Len(msg.rows), row <= Len(msg.rows) + 1
    PROVE  Done = RowsOf(msg)
  <1>1. Len(msg.rows) \in Nat
    BY IncomingAssumption DEF IncomingAssumption, Message
  <1>2. row - 1 = Len(msg.rows) BY <1>1
  <1>3. QED BY <1>2 DEF Done, RowsOf

LEMMA OneMoreSensor ==
    ASSUME NEW t, NEW m, NEW d, NEW s \in Sensors, m.kind = "catalog_snapshot",
           NEW db \in Database, db.catalog = Atomic!CatalogWith(t, m, d),
           t.catalog \in [Sensors -> SeenRow], m \in Incoming
    PROVE  CatalogSensorStmt(db, m, s).catalog = Atomic!CatalogWith(t, m, d \cup {s})
  <1> DEFINE u(x) == UpsertCatalogSensor(x, m.sent)
  <1>1. m.sent \in Time /\ m.sent # NoTime
    BY SeenTimeIsTime, TimeAssumption DEF TimeAssumption
  <1>2. \A x \in SeenRow : u(u(x)) = u(x)
    BY <1>1 DEF UpsertCatalogSensor, NoTime, SeenRow, NoSeen
  <1>3. CatalogSensorStmt(db, m, s).catalog = [db.catalog EXCEPT ![s] = u(@)]
    BY DEF CatalogSensorStmt, Database
  <1>4. db.catalog = [x \in Sensors |-> IF x \in d THEN u(t.catalog[x]) ELSE t.catalog[x]]
    BY SameRowOperators DEF Atomic!CatalogWith
  <1>5. Atomic!CatalogWith(t, m, d \cup {s}) =
          [x \in Sensors |-> IF x \in d \cup {s} THEN u(t.catalog[x]) ELSE t.catalog[x]]
    BY SameRowOperators DEF Atomic!CatalogWith
  <1> HIDE DEF u
  <1>6. u(db.catalog[s]) = u(t.catalog[s])
    BY <1>2, <1>4
  <1>7. [db.catalog EXCEPT ![s] = u(@)]
          = [x \in Sensors |-> IF x = s THEN u(t.catalog[s]) ELSE db.catalog[x]]
    BY <1>6 DEF Database
  <1>8. QED BY <1>3, <1>4, <1>5, <1>7

LEMMA OneMoreSample ==
    ASSUME NEW t, NEW m, NEW d, NEW s \in Sensors, m.kind = "sample_batch",
           NEW db \in Database, db.catalog = t.catalog,
           db.samples = Atomic!SamplesWith(t, m, d)
    PROVE  SensorSampleStmt(db, m, s).samples = Atomic!SamplesWith(t, m, d \cup {s})
  <1>1. CASE IsCatalogued(t.catalog, s)
    <2>1. SensorSampleStmt(db, m, s).samples = db.samples \cup {<<s, m.sampled>>}
      BY <1>1 DEF SensorSampleStmt, Database, IsCatalogued
    <2>2. {x \in d \cup {s} : IsCatalogued(t.catalog, x)}
            = {x \in d : IsCatalogued(t.catalog, x)} \cup {s}
      BY <1>1
    <2>3. QED 
      BY <1>1, <2>1, <2>2, SameRowOperators
         DEF Atomic!SamplesWith, SensorSampleStmt, Database
  <1>2. CASE ~IsCatalogued(t.catalog, s)
    <2>1. SensorSampleStmt(db, m, s) = db
      BY <1>2 DEF SensorSampleStmt, IsCatalogued
    <2>2. {x \in d \cup {s} : IsCatalogued(t.catalog, x)}
            = {x \in d : IsCatalogued(t.catalog, x)}
      BY <1>2
    <2>3. QED BY <2>1, <2>2, SameRowOperators DEF Atomic!SamplesWith
  <1>3. QED BY <1>1, <1>2

-----------------------------------------------------------------------------
(* InFlight, whatever errors SQLite reports.                                *)

LEMMA DbFields ==
    ASSUME NEW db \in Database
    PROVE  /\ PipeTables(db).machine = db.machine
           /\ PipeTables(db).bridge = db.health[Bridge]
           /\ PipeTables(db).catalog = db.catalog
           /\ PipeTables(db).samples = db.samples
  BY DEF PipeTables

LEMMA FailsInFlight ==
    ASSUME TypeOK, Fails, pc' = "rollback" \/ pc' = "idle" PROVE InFlight'
  BY DEF InFlight

LEMMA RowInFlight ==
    ASSUME TypeOK, Busy, InFlight, RowStep PROVE InFlight'
  <1>1. CASE pc' = "rollback" BY <1>1 DEF InFlight
  <1>2. CASE ~inTxn'  BY <1>2 DEF InFlight
  <1>3. CASE pc' # "rollback" /\ inTxn'
    <2> DEFINE t == PipeTables(committed)
               s == msg.rows[row]
               db == IF msg.kind = "catalog_snapshot" THEN CatalogSensorStmt(view, msg, s)
                                                      ELSE SensorSampleStmt(view, msg, s)
    <2>1. /\ pc = "rows" /\ HasRows /\ row <= Len(msg.rows) /\ row' = row + 1
          /\ pc' = pc /\ msg' = msg /\ Succeeds(db)
      BY <1>3 DEF RowStep, PipeFrame
    <2>2. inTxn /\ view' = db /\ committed' = committed
      BY <1>3, <2>1 DEF Succeeds
    <2>3. msg \in Incoming /\ s \in Sensors /\ row \in Nat /\ view \in Database
          /\ committed \in Database
      BY <2>1, RowSensor DEF Busy, TypeOK
    <2>4. /\ view.machine = UpsertMachineFor(t.machine, msg)
          /\ view.health[Bridge] = UpsertCollectorFor(t.bridge, msg)
          /\ view.catalog = Atomic!CatalogWith(t, msg, Done)
          /\ view.samples = Atomic!SamplesWith(t, msg, Done)
      BY <2>1, <2>2, <2>3, DbFields DEF InFlight
    <2>5. Done' = Done \cup {s}
      BY <2>1, DoneGrows
    <2>6. t.catalog \in [Sensors -> SeenRow]
      BY <2>3 DEF PipeTables, Database
    <2>7. /\ db.machine = view.machine /\ db.health = view.health
      BY <2>3 DEF CatalogSensorStmt, SensorSampleStmt, Database
    <2>8. /\ db.catalog = Atomic!CatalogWith(t, msg, Done \cup {s})
          /\ db.samples = Atomic!SamplesWith(t, msg, Done \cup {s})
      <3>1. CASE msg.kind = "catalog_snapshot"
        <4>1. db.catalog = Atomic!CatalogWith(t, msg, Done \cup {s})
          BY <2>3, <2>4, <2>6, <3>1, OneMoreSensor
        <4>2. db.samples = view.samples
          BY <2>3, <3>1 DEF CatalogSensorStmt, Database
        <4>3. QED BY <2>4, <3>1, <4>1, <4>2 DEF Atomic!SamplesWith
      <3>2. CASE msg.kind = "sample_batch"
        <4>1. \A d : Atomic!CatalogWith(t, msg, d) = t.catalog
          BY <2>6, <3>2 DEF Atomic!CatalogWith
        <4>2. view.catalog = t.catalog BY <2>4, <4>1
        <4>3. db = SensorSampleStmt(view, msg, s) BY <3>2
        <4>4. /\ db.samples = Atomic!SamplesWith(t, msg, Done \cup {s})
              /\ db.catalog = view.catalog
          <5>1. SensorSampleStmt(view, msg, s).samples
                  = Atomic!SamplesWith(t, msg, Done \cup {s})
            BY <2>3, <2>4, <3>2, <4>2, OneMoreSample
          <5>2. SensorSampleStmt(view, msg, s).catalog = view.catalog
            BY <2>3 DEF SensorSampleStmt, Database
          <5>3. QED BY <4>3, <5>1, <5>2
        <4>5. QED BY <4>1, <4>2, <4>4
      <3>3. QED BY <2>1, <3>1, <3>2 DEF HasRows
    <2>9. row' <= Len(msg'.rows) + 1
      <3>1. Len(msg.rows) \in Nat
        BY <2>3, IncomingAssumption DEF IncomingAssumption, Message
      <3>2. QED BY <2>1, <2>3, <3>1
    <2> HIDE DEF db, s
    <2>10. PipeTables(view') = [machine |-> UpsertMachineFor(t.machine, msg),
                                bridge  |-> UpsertCollectorFor(t.bridge, msg),
                                catalog |-> Atomic!CatalogWith(t, msg, Done'),
                                samples |-> Atomic!SamplesWith(t, msg, Done')]
      BY <2>2, <2>4, <2>5, <2>7, <2>8 DEF PipeTables
    <2>11. QED BY <2>1, <2>2, <2>9, <2>10 DEF InFlight
  <1>4. QED BY <1>1, <1>2, <1>3

LEMMA NextInFlight ==
    /\ TypeOK /\ Busy /\ TransactionOwned /\ FirstRow /\ InFlight /\ [Next]_vars
    => FirstRow' /\ InFlight'
  <1> SUFFICES ASSUME TypeOK, Busy, TransactionOwned, FirstRow, InFlight, [Next]_vars
               PROVE  FirstRow' /\ InFlight'
    OBVIOUS
  <1>1. CASE \E m \in Incoming : PipeReceive(m)
    BY <1>1 DEF PipeReceive, FirstRow, InFlight
  <1>2. CASE Begin
    <2>1. CASE pc' = "idle" BY <2>1 DEF InFlight, FirstRow
    <2>2. CASE pc' # "idle"
      BY <1>2, <2>2 DEF Begin, InFlight, FirstRow, TransactionOwned, TypeOK
    <2>3. QED BY <2>1, <2>2
  <1>3. CASE UpsertMachineStep
    <2>1. CASE pc' = "rollback" BY <2>1 DEF InFlight, FirstRow
    <2>2. CASE pc' # "rollback"
      <3>1. /\ pc = "machine" /\ pc' = "collector" /\ msg' = msg /\ row' = row
            /\ Succeeds(MachineStmt(view, msg))
        BY <1>3, <2>2 DEF UpsertMachineStep, PipeFrame
      <3>2. PipeTables(MachineStmt(view, msg))
              = [PipeTables(view) EXCEPT !.machine = UpsertMachineFor(@, msg)]
        BY DEF TypeOK, Database, PipeTables, MachineStmt
      <3>3. inTxn => committed' = committed /\ view' = MachineStmt(view, msg)
        BY <3>1 DEF Succeeds
      <3>4. inTxn' = inTxn BY <3>1 DEF Succeeds
      <3>5. QED BY <3>1, <3>2, <3>3, <3>4 DEF InFlight, FirstRow
    <2>3. QED BY <2>1, <2>2
  <1>4. CASE UpsertCollectorStep
    <2>1. CASE pc' = "rollback" BY <2>1 DEF InFlight, FirstRow
    <2>2. CASE pc' # "rollback"
      <3> DEFINE t == PipeTables(committed)
      <3>1. /\ pc = "collector" /\ pc' = "rows" /\ msg' = msg /\ row' = row
            /\ Succeeds(CollectorStmt(view, msg))
        BY <1>4, <2>2 DEF UpsertCollectorStep, PipeFrame
      <3>2. PipeTables(CollectorStmt(view, msg))
              = [PipeTables(view) EXCEPT !.bridge = UpsertCollectorFor(@, msg)]
        BY DEF TypeOK, Database, PipeTables, CollectorStmt, Sources
      <3>3. inTxn => committed' = committed /\ view' = CollectorStmt(view, msg)
        BY <3>1 DEF Succeeds
      <3>4. inTxn' = inTxn BY <3>1 DEF Succeeds
      <3>5. row = 1 BY <3>1 DEF FirstRow
      <3>6. Done' = {} BY <3>1, <3>5 DEF Done
      <3>7. /\ Atomic!CatalogWith(t, msg, {}) = t.catalog
            /\ Atomic!SamplesWith(t, msg, {}) = t.samples
        BY DEF Atomic!CatalogWith, Atomic!SamplesWith, TypeOK, Database, PipeTables
      <3>8. Len(msg.rows) \in Nat
        BY <3>1, IncomingAssumption DEF Busy, IncomingAssumption, Message
      <3>9. CASE inTxn
        <4>1. PipeTables(view) = [t EXCEPT !.machine = UpsertMachineFor(@, msg)]
          BY <3>1, <3>9 DEF InFlight
        <4>2. PipeTables(view') = [machine |-> UpsertMachineFor(t.machine, msg),
                                   bridge  |-> UpsertCollectorFor(t.bridge, msg),
                                   catalog |-> t.catalog,
                                   samples |-> t.samples]
          BY <3>2, <3>3, <3>9, <4>1 DEF PipeTables
        <4>3. row' <= Len(msg'.rows) + 1 BY <3>1, <3>5, <3>8
        <4>4. QED
          BY <3>1, <3>3, <3>6, <3>7, <3>9, <4>2, <4>3 DEF InFlight, FirstRow
      <3>10. QED BY <3>1, <3>4, <3>9 DEF InFlight, FirstRow
    <2>3. QED BY <2>1, <2>2
  <1>5. CASE RowStep
    BY <1>5, RowInFlight DEF FirstRow, RowStep
  <1>6. CASE Commit BY <1>6 DEF Commit, CommitFrame, InFlight, FirstRow
  <1>7. CASE Rollback BY <1>7 DEF Rollback, InFlight, FirstRow
  <1>8. CASE CollectorStep
    <2>1. /\ UNCHANGED <<pc, msg, row>>
          /\ PipeTables(committed') = PipeTables(committed)
          /\ \/ PipeTables(view') = PipeTables(view) /\ inTxn' = inTxn
             \/ inTxn' = FALSE
      BY <1>8, CollectorFrame
    <2>2. FirstRow' BY <2>1 DEF FirstRow
    <2>3. Done' = Done /\ HasRows' = HasRows BY <2>1 DEF Done, HasRows
    <2>4. QED BY <2>1, <2>2, <2>3 DEF InFlight
  <1>9. CASE Restart BY <1>9 DEF Restart, RolledBack, InFlight, FirstRow
  <1>10. CASE UNCHANGED vars
    BY <1>10 DEF vars, InFlight, FirstRow, Done, HasRows
  <1>11. QED
    BY <1>1, <1>2, <1>3, <1>4, <1>5, <1>6, <1>7, <1>8, <1>9, <1>10
       DEF Next, PipeStep, CollectorStep

LEMMA InFlightInvariant ==
    Spec => [](TypeOK /\ Busy /\ TransactionOwned /\ FirstRow /\ InFlight)
  <1>1. Init => FirstRow /\ InFlight
    BY DEF Init, FirstRow, InFlight
  <1>2. QED
    BY <1>1, NextInFlight, TypeCorrect, TransactionsOwned, PTL DEF Spec

(* A COMMIT that succeeds applies the message, whole, to the file.          *)
LEMMA CommitIngests ==
    ASSUME TypeOK, Busy, InFlight, Commit, outcome' = "accepted", outcome # "accepted"
    PROVE  PipeTables(committed') = Atomic!Ingested(PipeTables(committed), msg)
  <1> DEFINE t == PipeTables(committed)
  <1>1. inTxn /\ committed' = view /\ pc = "rows" /\ (HasRows => row > Len(msg.rows))
    BY DEF Commit, CommitFrame
  <1>2. msg \in Incoming /\ row \in Nat /\ committed \in Database
    BY <1>1 DEF TypeOK, Busy
  <1>3. PipeTables(view) = [machine |-> UpsertMachineFor(t.machine, msg),
                            bridge  |-> UpsertCollectorFor(t.bridge, msg),
                            catalog |-> Atomic!CatalogWith(t, msg, Done),
                            samples |-> Atomic!SamplesWith(t, msg, Done)]
    BY <1>1 DEF InFlight
  <1>4. CASE HasRows
    <2>1. Done = RowsOf(msg)
      BY <1>1, <1>2, <1>4, AllDone DEF InFlight
    <2>2. QED BY <1>1, <1>3, <2>1, SameRowOperators DEF Atomic!Ingested
  <1>5. CASE ~HasRows
    <2>1. /\ Atomic!CatalogWith(t, msg, Done) = Atomic!CatalogWith(t, msg, RowsOf(msg))
          /\ Atomic!SamplesWith(t, msg, Done) = Atomic!SamplesWith(t, msg, RowsOf(msg))
      BY <1>5 DEF HasRows, Atomic!CatalogWith, Atomic!SamplesWith
    <2>2. QED BY <1>1, <1>3, <2>1, SameRowOperators DEF Atomic!Ingested
  <1>6. QED BY <1>4, <1>5

-----------------------------------------------------------------------------
(* An accepted message is in the file.                                      *)

(* What the file holds of m, read off the pipe's tables alone. *)
Holds(t, m) ==
    /\ t.machine.last >= SeenTime(m)
    /\ t.bridge.updated = m.sent
    /\ t.bridge.hello >= HelloTime(m)
    /\ t.bridge.sample >= SampleTime(m)
    /\ m.kind = "catalog_snapshot" => \A s \in RowsOf(m) : t.catalog[s].last = m.sent
    /\ m.kind = "sample_batch" =>
          \A s \in RowsOf(m) : IsCatalogued(t.catalog, s) => <<s, m.sampled>> \in t.samples

LEMMA RowsAreSensors ==
    ASSUME NEW m \in Incoming PROVE RowsOf(m) \subseteq Sensors
  BY IncomingAssumption DEF IncomingAssumption, Message, RowsOf

LEMMA IngestedHolds ==
    ASSUME NEW db \in Database, NEW m \in Incoming
    PROVE  Holds(Atomic!Ingested(PipeTables(db), m), m)
  <1> DEFINE t == PipeTables(db)
             u == Atomic!Ingested(t, m)
  <1>1. /\ t.machine \in SeenRow /\ t.bridge \in CollectorRow
        /\ t.catalog \in [Sensors -> SeenRow]
    BY DEF Database, PipeTables, Sources, Bridge
  <1>2. /\ u.machine = UpsertMachine(t.machine, SeenTime(m))
        /\ u.bridge = UpsertCollector(t.bridge, CollectorStatus(m), HelloTime(m),
                                      SampleTime(m), m.sent)
    BY SameRowOperators DEF Atomic!Ingested, UpsertMachineFor, UpsertCollectorFor
  <1>3. u.machine.last >= SeenTime(m)
    <2>1. SeenTime(m) <= u.machine.last /\ u.machine \in SeenRow
      BY <1>1, <1>2, UpsertMachineType, SeenTimeIsTime
    <2>2. QED BY <2>1, TimesAreNaturals, SeenTimeIsTime
  <1>4. /\ u.bridge.updated = m.sent
        /\ u.bridge.hello >= HelloTime(m)
        /\ u.bridge.sample >= SampleTime(m)
    <2>1. /\ HelloTime(m) <= u.bridge.hello /\ SampleTime(m) <= u.bridge.sample
          /\ u.bridge \in CollectorRow
      BY <1>1, <1>2, UpsertCollectorType, MessageFields
    <2>2. u.bridge.updated = m.sent BY <1>2 DEF UpsertCollector
    <2>3. QED BY <2>1, <2>2, TimesAreNaturals, MessageFields
  <1>5. ASSUME m.kind = "catalog_snapshot", NEW s \in RowsOf(m)
        PROVE  u.catalog[s].last = m.sent
    <2>1. s \in Sensors BY <1>5, RowsAreSensors
    <2>2. u.catalog[s] = UpsertCatalogSensor(t.catalog[s], m.sent)
      BY <1>5, <2>1, SameRowOperators DEF Atomic!Ingested, Atomic!CatalogWith
    <2>3. QED BY <2>2 DEF UpsertCatalogSensor
  <1>6. ASSUME m.kind = "sample_batch", NEW s \in RowsOf(m), IsCatalogued(u.catalog, s)
        PROVE  <<s, m.sampled>> \in u.samples
    <2>1. u.catalog = t.catalog
      BY <1>1, <1>6 DEF Atomic!Ingested, Atomic!CatalogWith
    <2>2. QED
      BY <1>6, <2>1, SameRowOperators DEF Atomic!Ingested, Atomic!SamplesWith
  <1>7. m.kind = "catalog_snapshot" => \A s \in RowsOf(m) : u.catalog[s].last = m.sent
    BY <1>5
  <1>8. m.kind = "sample_batch" =>
          \A s \in RowsOf(m) : IsCatalogued(u.catalog, s) => <<s, m.sampled>> \in u.samples
    BY <1>6
  <1> HIDE DEF u
  <1>9. Holds(u, m) BY <1>3, <1>4, <1>7, <1>8 DEF Holds
  <1>10. QED BY <1>9 DEF u

LEMMA HoldsIsAccepted ==
    ASSUME TypeOK PROVE AcceptedIsCommitted <=> (outcome = "accepted"
                                                   => Holds(PipeTables(committed), msg))
  BY DEF AcceptedIsCommitted, Holds, PipeTables

(* Between messages the pipe's tables in the file change for nobody else.   *)
LEMMA QuietSteps ==
    ASSUME TypeOK, TransactionOwned, [Next]_vars, ~PipeStep
    PROVE  PipeTables(committed') = PipeTables(committed)
  <1>1. CASE \E m \in Incoming : PipeReceive(m) BY <1>1 DEF PipeReceive, conn
  <1>2. CASE CollectorStep BY <1>2, CollectorFrame
  <1>3. CASE Restart BY <1>3 DEF Restart, RolledBack
  <1>4. CASE UNCHANGED vars BY <1>4 DEF vars
  <1>5. QED BY <1>1, <1>2, <1>3, <1>4 DEF Next, CollectorStep

(* What the pipe thread last reported is about the message it still has.    *)
Settled ==
    /\ outcome = "accepted" => pc = "idle" /\ msg \in Incoming
    /\ outcome # "none" => pc = "idle"

LEMMA NextSettled ==
    ASSUME TypeOK, Busy, TransactionOwned, Settled, [Next]_vars
    PROVE  Settled'
  <1> USE DEF Settled, Busy
  <1>1. CASE \E m \in Incoming : PipeReceive(m) BY <1>1 DEF PipeReceive
  <1>2. CASE Begin BY <1>2 DEF Begin
  <1>3. CASE UpsertMachineStep BY <1>3 DEF UpsertMachineStep, PipeFrame
  <1>4. CASE UpsertCollectorStep BY <1>4 DEF UpsertCollectorStep, PipeFrame
  <1>5. CASE RowStep BY <1>5 DEF RowStep, PipeFrame
  <1>6. CASE Commit BY <1>6 DEF Commit, CommitFrame
  <1>7. CASE Rollback BY <1>7 DEF Rollback
  <1>8. CASE CollectorStep BY <1>8, CollectorFrame
  <1>9. CASE Restart BY <1>9 DEF Restart
  <1>10. CASE UNCHANGED vars BY <1>10 DEF vars
  <1>11. QED
    BY <1>1, <1>2, <1>3, <1>4, <1>5, <1>6, <1>7, <1>8, <1>9, <1>10
       DEF Next, PipeStep, CollectorStep

(* Only a successful COMMIT makes an accepted message.                      *)
LEMMA BecomesAccepted ==
    ASSUME TypeOK, Busy, TransactionOwned, Settled, [Next]_vars,
           outcome' = "accepted", outcome # "accepted"
    PROVE  Commit /\ msg' = msg
  <1>1. CASE \E m \in Incoming : PipeReceive(m) BY <1>1 DEF PipeReceive
  <1>2. CASE Begin BY <1>2 DEF Begin
  <1>3. CASE UpsertMachineStep \/ UpsertCollectorStep \/ RowStep
    BY <1>3 DEF UpsertMachineStep, UpsertCollectorStep, RowStep, PipeFrame
  <1>4. CASE Commit BY <1>4 DEF Commit, CommitFrame
  <1>5. CASE Rollback BY <1>5 DEF Rollback
  <1>6. CASE CollectorStep BY <1>6, CollectorFrame
  <1>7. CASE Restart BY <1>7 DEF Restart
  <1>8. CASE UNCHANGED vars BY <1>8 DEF vars
  <1>9. QED
    BY <1>1, <1>2, <1>3, <1>4, <1>5, <1>6, <1>7, <1>8 DEF Next, PipeStep, CollectorStep

(* While it is the last thing reported, the pipe thread is idle and nobody  *)
(* else touches the pipe's tables.                                          *)
LEMMA StaysReported ==
    ASSUME TypeOK, Busy, TransactionOwned, Settled, [Next]_vars,
           outcome # "none", outcome' = outcome
    PROVE  /\ msg' = msg /\ base' = base
           /\ PipeTables(committed') = PipeTables(committed)
  <1>1. pc = "idle" BY DEF Settled
  <1>2. ~PipeStep
    BY <1>1 DEF PipeStep, Begin, UpsertMachineStep, UpsertCollectorStep, RowStep, Commit, CommitFrame,
                Rollback
  <1>3. PipeTables(committed') = PipeTables(committed)
    BY <1>2, QuietSteps
  <1>4. msg' = msg /\ base' = base
    <2>1. CASE \E m \in Incoming : PipeReceive(m) BY <2>1 DEF PipeReceive
    <2>2. CASE CollectorStep BY <2>2, CollectorFrame
    <2>3. CASE Restart BY <2>3 DEF Restart
    <2>4. CASE UNCHANGED vars BY <2>4 DEF vars
    <2>5. QED BY <1>2, <2>1, <2>2, <2>3, <2>4 DEF Next, CollectorStep
  <1>5. QED BY <1>3, <1>4

LEMMA NextAccepted ==
    ASSUME TypeOK, Busy, TransactionOwned, InFlight, Settled, AcceptedIsCommitted,
           [Next]_vars
    PROVE  AcceptedIsCommitted'
  <1>1. TypeOK' BY NextType
  <1>2. SUFFICES ASSUME outcome' = "accepted"
                 PROVE  Holds(PipeTables(committed'), msg')
    BY <1>1, HoldsIsAccepted DEF AcceptedIsCommitted, Holds, PipeTables
  <1>3. CASE outcome = "accepted"
    <2>1. msg' = msg /\ PipeTables(committed') = PipeTables(committed)
      BY <1>2, <1>3, StaysReported
    <2>2. Holds(PipeTables(committed), msg)
      BY <1>3, HoldsIsAccepted
    <2>3. QED BY <2>1, <2>2
  <1>4. CASE outcome # "accepted"
    <2>1. Commit /\ msg' = msg
      BY <1>2, <1>4, BecomesAccepted
    <2>2. PipeTables(committed') = Atomic!Ingested(PipeTables(committed), msg)
      BY <1>2, <1>4, <2>1, CommitIngests
    <2>3. msg \in Incoming /\ committed \in Database
      BY <2>1 DEF Busy, TypeOK, Commit
    <2>4. QED BY <2>1, <2>2, <2>3, IngestedHolds
  <1>5. QED BY <1>3, <1>4

(* Whatever fails or is rolled back on the shared connection, when a store  *)
(* call has returned true every row of its message is in the file.          *)
THEOREM AcceptedMessagesAreCommitted == Spec => []AcceptedIsCommitted
  <1>1. Init => Settled /\ AcceptedIsCommitted
    BY DEF Init, Settled, AcceptedIsCommitted
  <1>2. /\ TypeOK /\ Busy /\ TransactionOwned /\ FirstRow /\ InFlight
        /\ Settled /\ AcceptedIsCommitted /\ [Next]_vars
        => Settled' /\ AcceptedIsCommitted'
    BY NextSettled, NextAccepted
  <1>3. QED BY <1>1, <1>2, InFlightInvariant, PTL DEF Spec

-----------------------------------------------------------------------------
(* From here on SQLite's errors are statement errors: no failing statement  *)
(* rolls back the transaction it is in.  Then the transaction is open at    *)
(* every statement of a message, and only its COMMIT reaches the file.      *)

Intact == pc \in {"machine", "collector", "rows"} => inTxn

LEMMA StatementKeepsTxn ==
    ASSUME AutoRollback = FALSE, NEW db, Succeeds(db) \/ Fails, inTxn
    PROVE  inTxn' = inTxn /\ committed' = committed
  BY DEF Succeeds, Fails

LEMMA NextIntact ==
    ASSUME AutoRollback = FALSE, TypeOK, TransactionOwned, Intact, [Next]_vars
    PROVE  Intact'
  <1> USE DEF Intact
  <1>1. CASE \E m \in Incoming : PipeReceive(m) BY <1>1 DEF PipeReceive
  <1>2. CASE Begin BY <1>2 DEF Begin
  <1>3. CASE UpsertMachineStep
    BY <1>3, StatementKeepsTxn DEF UpsertMachineStep
  <1>4. CASE UpsertCollectorStep
    BY <1>4, StatementKeepsTxn DEF UpsertCollectorStep
  <1>5. CASE RowStep BY <1>5, StatementKeepsTxn DEF RowStep
  <1>6. CASE Commit BY <1>6 DEF Commit, CommitFrame
  <1>7. CASE Rollback BY <1>7 DEF Rollback
  <1>8. CASE CollectorStep BY <1>8, CollectorFrame
  <1>9. CASE Restart BY <1>9 DEF Restart
  <1>10. CASE UNCHANGED vars BY <1>10 DEF vars
  <1>11. QED
    BY <1>1, <1>2, <1>3, <1>4, <1>5, <1>6, <1>7, <1>8, <1>9, <1>10
       DEF Next, PipeStep, CollectorStep

(* A step of the store is a whole message, or nothing, to the pipe's tables *)
(* in the file.                                                             *)
LEMMA WholeOrNothing ==
    ASSUME AutoRollback = FALSE, TypeOK, Busy, TransactionOwned, InFlight, Settled,
           Intact, [Next]_vars
    PROVE  \/ PipeTables(committed') = PipeTables(committed)
           \/ /\ outcome' = "accepted"
              /\ \E m \in Incoming :
                   PipeTables(committed') = Atomic!Ingested(PipeTables(committed), m)
  <1>1. CASE ~PipeStep BY <1>1, QuietSteps
  <1>2. CASE Begin BY <1>2 DEF Begin, Fails, conn
  <1>3. CASE UpsertMachineStep
    BY <1>3, StatementKeepsTxn DEF UpsertMachineStep, Intact
  <1>4. CASE UpsertCollectorStep
    BY <1>4, StatementKeepsTxn DEF UpsertCollectorStep, Intact
  <1>5. CASE RowStep BY <1>5, StatementKeepsTxn DEF RowStep, Intact
  <1>6. CASE Commit
    <2>1. CASE outcome' = "accepted"
      <3>1. outcome # "accepted" /\ msg \in Incoming
        BY <1>6 DEF Commit, CommitFrame, Settled, Busy
      <3>2. PipeTables(committed') = Atomic!Ingested(PipeTables(committed), msg)
        BY <1>6, <2>1, <3>1, CommitIngests
      <3>3. QED BY <2>1, <3>1, <3>2
    <2>2. CASE outcome' # "accepted" BY <1>6, <2>2 DEF Commit, CommitFrame, Fails, conn
    <2>3. QED BY <2>1, <2>2
  <1>7. CASE Rollback BY <1>7 DEF Rollback, RolledBack
  <1>8. QED BY <1>1, <1>2, <1>3, <1>4, <1>5, <1>6, <1>7 DEF PipeStep

LEMMA WholeInvariant ==
    ASSUME AutoRollback = FALSE
    PROVE  Spec => [](/\ TypeOK /\ Busy /\ TransactionOwned
                      /\ InFlight /\ Settled /\ Intact)
  <1>1. Init => Settled /\ Intact BY DEF Init, Settled, Intact
  <1>2. /\ TypeOK /\ Busy /\ TransactionOwned /\ FirstRow /\ InFlight
        /\ Settled /\ Intact /\ [Next]_vars
        => Settled' /\ Intact'
    BY NextSettled, NextIntact
  <1>3. QED BY <1>1, <1>2, InFlightInvariant, PTL DEF Spec

LEMMA EmptyPipeTables == PipeTables(EmptyDatabase) = Atomic!EmptyTables
  BY DEF PipeTables, EmptyDatabase, Atomic!EmptyTables, NoSeen, Atomic!NoSeen,
         NoCollector, Atomic!NoCollector, NoTime, Atomic!NoTime, Sources, Bridge

(* While failing statements leave the transaction open, the tables that the *)
(* pipe feeds change in the file by whole messages alone, however the       *)
(* collectors' statements fall between those of a message and whenever the  *)
(* process is restarted.                                                    *)
THEOREM IngestIsAtomic ==
    ASSUME AutoRollback = FALSE PROVE Spec => AtomicSpec
  <1>1. Init => Atomic!Init
    BY EmptyPipeTables DEF Init, Atomic!Init
  <1>2. /\ TypeOK /\ Busy /\ TransactionOwned /\ InFlight /\ Settled /\ Intact
        /\ [Next]_vars
        => [Atomic!Next]_(PipeTables(committed))
    BY WholeOrNothing DEF Atomic!Next, Atomic!Ingest
  <1>3. QED
    BY <1>1, <1>2, WholeInvariant, PTL DEF Spec, AtomicSpec, Atomic!Spec

-----------------------------------------------------------------------------
(* A rejected message leaves nothing.                                       *)

BaseIsFile == pc # "idle" => PipeTables(committed) = PipeTables(base)

LEMMA NextBase ==
    ASSUME AutoRollback = FALSE, TypeOK, Busy, TransactionOwned, InFlight, Settled,
           Intact, BaseIsFile, RejectedLeavesNothing, [Next]_vars
    PROVE  BaseIsFile' /\ RejectedLeavesNothing'
  <1>1. CASE \E m \in Incoming : PipeReceive(m)
    BY <1>1 DEF PipeReceive, conn, BaseIsFile, RejectedLeavesNothing
  <1>2. CASE PipeStep
    <2>1. base' = base /\ pc # "idle"
      BY <1>2 DEF PipeStep, Begin, UpsertMachineStep, UpsertCollectorStep, RowStep,
                  Commit, CommitFrame, Rollback, PipeFrame
    <2>2. CASE PipeTables(committed') = PipeTables(committed)
      BY <2>1, <2>2 DEF BaseIsFile, RejectedLeavesNothing, PipeTables
    <2>3. CASE outcome' = "accepted"
      <3>1. pc' = "idle"
        BY <2>3, NextSettled DEF Settled
      <3>2. QED BY <2>3, <3>1 DEF BaseIsFile, RejectedLeavesNothing
    <2>4. QED BY <2>2, <2>3, WholeOrNothing
  <1>3. CASE CollectorStep
    BY <1>3, CollectorFrame DEF BaseIsFile, RejectedLeavesNothing, PipeTables
  <1>4. CASE Restart
    BY <1>4 DEF Restart, RolledBack, BaseIsFile, RejectedLeavesNothing
  <1>5. CASE UNCHANGED vars
    BY <1>5 DEF vars, BaseIsFile, RejectedLeavesNothing
  <1>6. QED BY <1>1, <1>2, <1>3, <1>4, <1>5 DEF Next, CollectorStep

(* While failing statements leave the transaction open, a store call that   *)
(* returned false has changed nothing of the pipe's tables in the file.     *)
THEOREM RejectedMessagesLeaveNothing ==
    ASSUME AutoRollback = FALSE PROVE Spec => []RejectedLeavesNothing
  <1>1. Init => BaseIsFile /\ RejectedLeavesNothing
    BY DEF Init, BaseIsFile, RejectedLeavesNothing
  <1>2. /\ TypeOK /\ Busy /\ TransactionOwned /\ InFlight /\ Settled /\ Intact
        /\ BaseIsFile /\ RejectedLeavesNothing /\ [Next]_vars
        => BaseIsFile' /\ RejectedLeavesNothing'
    BY NextBase
  <1>3. QED BY <1>1, <1>2, WholeInvariant, PTL DEF Spec

-----------------------------------------------------------------------------
(* The freshness that the API reports covers what is stored.                *)

Covered(t) == \A p \in t.samples : p[2] <= t.bridge.sample /\ p[2] <= t.machine.last

LEMMA IngestedCovered ==
    ASSUME NEW db \in Database, NEW m \in Incoming, Covered(PipeTables(db))
    PROVE  Covered(Atomic!Ingested(PipeTables(db), m))
  <1> DEFINE t == PipeTables(db)
             u == Atomic!Ingested(t, m)
  <1>1. /\ t.machine \in SeenRow /\ t.bridge \in CollectorRow
        /\ t.samples \subseteq Sensors \X Time
    BY DEF Database, PipeTables, Sources, Bridge
  <1>2. /\ u.machine = UpsertMachine(t.machine, SeenTime(m))
        /\ u.bridge = UpsertCollector(t.bridge, CollectorStatus(m), HelloTime(m),
                                      SampleTime(m), m.sent)
    BY SameRowOperators DEF Atomic!Ingested, UpsertMachineFor, UpsertCollectorFor
  <1>3. /\ t.machine.last <= u.machine.last /\ SeenTime(m) <= u.machine.last
        /\ u.machine \in SeenRow
    BY <1>1, <1>2, UpsertMachineType, SeenTimeIsTime
  <1>4. /\ t.bridge.sample <= u.bridge.sample /\ SampleTime(m) <= u.bridge.sample
        /\ u.bridge \in CollectorRow
    BY <1>1, <1>2, UpsertCollectorType, MessageFields
  <1>5. ASSUME NEW p \in u.samples
        PROVE  p[2] <= u.bridge.sample /\ p[2] <= u.machine.last
    <2>1. CASE p \in t.samples
      <3>1. p[2] <= t.bridge.sample /\ p[2] <= t.machine.last
        BY <2>1 DEF Covered
      <3>2. p[2] \in Nat
        BY <1>1, <2>1, TimesAreNaturals
      <3>3. QED BY <1>1, <1>3, <1>4, <3>1, <3>2, TimesAreNaturals
    <2>2. CASE p \notin t.samples
      <3>1. m.kind = "sample_batch" /\ p[2] = m.sampled
        BY <1>5, <2>2 DEF Atomic!Ingested, Atomic!SamplesWith
      <3>2. SeenTime(m) = p[2] /\ SampleTime(m) = p[2]
        BY <3>1 DEF SeenTime, SampleTime
      <3>3. QED BY <1>3, <1>4, <3>2
    <2>3. QED BY <2>1, <2>2
  <1> HIDE DEF u
  <1>6. Covered(u) BY <1>5 DEF Covered
  <1>7. QED BY <1>6 DEF u

LEMMA CoveredIsSamplesCovered == SamplesCovered <=> Covered(PipeTables(committed))
  BY DEF SamplesCovered, Covered, PipeTables

LEMMA NextCovered ==
    ASSUME AutoRollback = FALSE, TypeOK, Busy, TransactionOwned, InFlight, Settled,
           Intact, SamplesCovered, [Next]_vars
    PROVE  SamplesCovered'
  <1>1. Covered(PipeTables(committed)) BY CoveredIsSamplesCovered
  <1>2. CASE PipeTables(committed') = PipeTables(committed)
    BY <1>1, <1>2 DEF SamplesCovered, Covered, PipeTables
  <1>3. CASE \E m \in Incoming :
               PipeTables(committed') = Atomic!Ingested(PipeTables(committed), m)
    <2>1. Covered(PipeTables(committed'))
      BY <1>1, <1>3, IngestedCovered DEF TypeOK
    <2>2. QED BY <2>1 DEF SamplesCovered, Covered, PipeTables
  <1>4. QED BY <1>2, <1>3, WholeOrNothing

(* While failing statements leave the transaction open, no stored sample is *)
(* newer than the last_sample and last_seen times that the API reports.     *)
THEOREM SamplesAreCovered ==
    ASSUME AutoRollback = FALSE PROVE Spec => []SamplesCovered
  <1>1. Init => SamplesCovered
    BY DEF Init, SamplesCovered, EmptyDatabase
  <1>2. /\ TypeOK /\ Busy /\ TransactionOwned /\ InFlight /\ Settled /\ Intact
        /\ SamplesCovered /\ [Next]_vars
        => SamplesCovered'
    BY NextCovered
  <1>3. QED BY <1>1, <1>2, WholeInvariant, PTL DEF Spec
=============================================================================

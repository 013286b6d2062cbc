----------------------------- MODULE ApiReadsProofs -----------------------------
(***************************************************************************)
(* What the answers of the HTTP API show, for every catalogue, every       *)
(* request and every order of the pipe thread's statements with those of a *)
(* handler.                                                                *)
(***************************************************************************)
EXTENDS ApiReads, TelemetryStoreProofs, FoldFacts

(* The steps in which a handler takes something up or puts it down.         *)
LEMMA SnapshotIsRequest == [path |-> "snapshot"] \in Requests
  BY DEF Requests

LEMMA ApiSteps ==
    ASSUME [ApiNext]_apiVars
    PROVE  \/ PipeThread
           \/ Handler
           \/ \E r \in Requests : Receive(r)
           \/ Forget /\ UNCHANGED vars
           \/ UNCHANGED <<vars, reader>>
  <1>1. CASE Caller BY <1>1 DEF Caller
  <1>2. CASE Pusher
    BY <1>2, SnapshotIsRequest DEF Pusher, PushGet, PushGot, PushPost
  <1>3. CASE LatePost \/ RemoteGoes \/ RemoteComes
    BY <1>3 DEF LatePost, RemoteGoes, RemoteComes
  <1>4. CASE UNCHANGED apiVars
    BY <1>4 DEF apiVars
  <1>5. QED BY <1>1, <1>2, <1>3, <1>4 DEF ApiNext

(* A handler's statement, seen from the store.                              *)
HandlerFails ==
    Fails /\ UNCHANGED <<pipe, gpu, ollama, messages, polls, crashes, outcome, base,
                         acked, txns>>

LEMMA HandlerFrame ==
    ASSUME Handler
    PROVE  /\ \/ UNCHANGED <<vars, spoilt>>
              \/ HandlerFails /\ spoilt' = TRUE /\ answer' = answer
           /\ rolled' = (rolled \/ ~Keeps(view, view'))
           /\ UNCHANGED <<request, known, push>>
  <1> USE DEF Handler, QueryCollectorHealth, QueryMachineCatalog, QuerySensorCatalog,
              QuerySensorHistory, QueryLatestSystem, QueryLatestGpu, QueryLatestOllama,
              Statement, Step
  <1>1. rolled' = (rolled \/ ~Keeps(view, view'))
    BY Zenon
  <1>2. UNCHANGED <<request, known, push>>
    BY Zenon
  <1>3. QED BY <1>1, <1>2, Zenon DEF Reads, HandlerFails
-----------------------------------------------------------------------------
(* The store, when only the pipe thread writes and a reading statement may  *)
(* fail, and with it the transaction it is in.                              *)
StoreOK == TypeOK /\ Busy /\ TransactionOwned /\ Ahead

LEMMA StoreSteps ==
    ASSUME [ApiNext]_apiVars
    PROVE  [Next]_vars \/ HandlerFails
  <1>1. CASE PipeThread BY <1>1 DEF PipeThread, Next
  <1>2. CASE Handler BY <1>2, HandlerFrame
  <1>3. CASE \E r \in Requests : Receive(r) BY <1>3 DEF Receive
  <1>4. QED BY <1>1, <1>2, <1>3, ApiSteps

LEMMA FailingReader ==
    ASSUME StoreOK, HandlerFails
    PROVE  StoreOK' /\ Keeps(committed, committed')
  <1> USE DEF StoreOK, HandlerFails, Fails
  <1>1. /\ committed' \in Database /\ view' \in Database /\ inTxn' \in BOOLEAN
    BY FailsConnStep, ConnStepType DEF TypeOK
  <1>2. errors' \in Nat /\ torn' \in BOOLEAN
    BY DEF TypeOK
  <1>3. TypeOK'
    BY <1>1, <1>2 DEF TypeOK, pipe, gpu, ollama
  <1>4. Busy'
    BY DEF Busy, pipe, gpu, ollama
  <1>5. TransactionOwned'
    BY DEF TransactionOwned, RolledBack, pipe
  <1>6. committed' = committed
    BY DEF RolledBack
  <1>7. Ahead'
    BY <1>6, KeepsRefl DEF TypeOK, Ahead, RolledBack
  <1>8. QED BY <1>3, <1>4, <1>5, <1>6, <1>7, KeepsRefl DEF TypeOK

LEMMA NextStoreOK ==
    ASSUME StoreOK, [ApiNext]_apiVars
    PROVE  StoreOK' /\ Keeps(committed, committed')
  <1>1. CASE [Next]_vars
    BY <1>1, NextType, NextOwned, NextAhead DEF StoreOK
  <1>2. CASE HandlerFails
    BY <1>2, FailingReader
  <1>3. QED BY <1>1, <1>2, StoreSteps
-----------------------------------------------------------------------------
(* Which statement follows which.                                           *)
Place ==
    /\ at = "idle" <=> request = NoRequest
    /\ at # "idle" => request \in Requests
    /\ at = "machine" => request.path = "status"
    /\ at = "health" => request.path \in {"status", "snapshot"}
    /\ at \in {"system", "gpu", "ollama"} => request.path = "snapshot"
    /\ at = "catalog" => request.path = "catalog"
    /\ at = "history" => request.path = "history"
    /\ at \in {"idle", "done", "health", "machine", "catalog", "history", "system", "gpu",
              "ollama"}

LEMMA MinOfOne == ASSUME NEW x \in Int PROVE Min({x}) = x
  BY DEF Min

LEMMA AfterOfOne ==
    ASSUME NEW c, Statements(request.path) = <<c>> PROVE After(c) = "done"
  <1>1. {i \in 1 .. Len(<<c>>) : <<c>>[i] = c} = {1}
    OBVIOUS
  <1>2. SelectInSeq(<<c>>, LAMBDA x : x = c) = 1
    BY <1>1, MinOfOne DEF SelectInSeq
  <1>3. QED BY <1>2 DEF After

LEMMA AfterOfStatus ==
    ASSUME request.path = "status"
    PROVE  After("health") = "machine" /\ After("machine") = "done"
  <1> DEFINE s == <<"health", "machine">>
  <1>1. Statements(request.path) = s
    BY DEF Statements
  <1>2. /\ {i \in 1 .. Len(s) : s[i] = "health"} = {1}
        /\ {i \in 1 .. Len(s) : s[i] = "machine"} = {2}
    OBVIOUS
  <1>3. /\ SelectInSeq(s, LAMBDA x : x = "health") = 1
        /\ SelectInSeq(s, LAMBDA x : x = "machine") = 2
    BY <1>2, MinOfOne DEF SelectInSeq
  <1>4. QED BY <1>1, <1>3 DEF After

LEMMA AfterOfSnapshot ==
    ASSUME request.path = "snapshot"
    PROVE  /\ After("system") = "gpu" /\ After("gpu") = "ollama"
           /\ After("ollama") = "health" /\ After("health") = "done"
  <1> DEFINE s == <<"system", "gpu", "ollama", "health">>
  <1>1. Statements(request.path) = s
    BY DEF Statements
  <1>2. /\ {i \in 1 .. Len(s) : s[i] = "system"} = {1}
        /\ {i \in 1 .. Len(s) : s[i] = "gpu"} = {2}
        /\ {i \in 1 .. Len(s) : s[i] = "ollama"} = {3}
        /\ {i \in 1 .. Len(s) : s[i] = "health"} = {4}
    OBVIOUS
  <1>3. /\ SelectInSeq(s, LAMBDA x : x = "system") = 1
        /\ SelectInSeq(s, LAMBDA x : x = "gpu") = 2
        /\ SelectInSeq(s, LAMBDA x : x = "ollama") = 3
        /\ SelectInSeq(s, LAMBDA x : x = "health") = 4
    BY <1>2, MinOfOne DEF SelectInSeq
  <1>4. QED BY <1>1, <1>3 DEF After

LEMMA AfterPlace ==
    ASSUME Place
    PROVE  /\ at = "machine" => After(at) = "done"
           /\ at = "health" => After(at) = IF request.path = "status" THEN "machine" ELSE "done"
           /\ at = "system" => After(at) = "gpu"
           /\ at = "gpu" => After(at) = "ollama"
           /\ at = "ollama" => After(at) = "health"
           /\ at \in {"catalog", "history"} => After(at) = "done"
  <1>1. at \in {"catalog", "history"} => Statements(request.path) = <<at>>
    BY DEF Place, Statements
  <1>2. QED
    BY <1>1, AfterOfOne, AfterOfStatus, AfterOfSnapshot DEF Place

LEMMA HandlerMoves ==
    ASSUME Handler
    PROVE  \/ at' = After(at)
           \/ at' = at /\ at \in {"history", "system"}
  <1> USE DEF Statement, Step
  <1>1. QueryCollectorHealth => at' = After(at)
    BY Zenon DEF QueryCollectorHealth
  <1>2. QueryMachineCatalog => at' = After(at)
    BY Zenon DEF QueryMachineCatalog
  <1>3. QuerySensorCatalog => at' = After(at)
    BY Zenon DEF QuerySensorCatalog
  <1>4. QueryLatestGpu => at' = After(at)
    BY Zenon DEF QueryLatestGpu
  <1>5. QueryLatestOllama => at' = After(at)
    BY Zenon DEF QueryLatestOllama
  <1>6. QuerySensorHistory => at' = After(at) \/ (at = "history" /\ at' = "history")
    BY Zenon DEF QuerySensorHistory
  <1>7. QueryLatestSystem => at' = After(at) \/ (at = "system" /\ at' = "system")
    BY Zenon DEF QueryLatestSystem
  <1>8. QED BY <1>1, <1>2, <1>3, <1>4, <1>5, <1>6, <1>7 DEF Handler

LEMMA HandlerIsBusy == ASSUME Handler PROVE at # "idle" /\ at # "done"
  BY Zenon DEF Handler, QueryCollectorHealth, QueryMachineCatalog, QuerySensorCatalog,
     QuerySensorHistory, QueryLatestSystem, QueryLatestGpu, QueryLatestOllama, Statement,
     Step

LEMMA FirstStatement ==
    ASSUME NEW r \in Requests
    PROVE  /\ r.path = "status" => Statements(r.path)[1] = "health"
           /\ r.path = "snapshot" => Statements(r.path)[1] = "system"
           /\ r.path \notin {"status", "snapshot"} => Statements(r.path)[1] = r.path
           /\ r.path \in {"status", "snapshot", "history", "catalog"}
           /\ r # NoRequest
  <1>1. r.path \in {"status", "snapshot", "history", "catalog"}
    BY DEF Requests
  <1>2. QED BY <1>1 DEF Statements, NoRequest

LEMMA NextPlace ==
    ASSUME Place, [ApiNext]_apiVars
    PROVE  Place'
  <1>1. CASE PipeThread BY <1>1 DEF PipeThread, Place
  <1>2. CASE Handler
    <2>1. request' = request
      BY <1>2, HandlerFrame
    <2>2. at # "idle" /\ at # "done"
      BY <1>2, HandlerIsBusy
    <2>3. QED BY <1>2, <2>1, <2>2, HandlerMoves, AfterPlace DEF Place
  <1>3. CASE \E r \in Requests : Receive(r)
    BY <1>3, FirstStatement DEF Receive, Place
  <1>4. CASE Forget BY <1>4 DEF Forget, Place, NoRequest
  <1>5. CASE UNCHANGED reader BY <1>5 DEF reader, Place
  <1>6. QED BY <1>1, <1>2, <1>3, <1>4, <1>5, ApiSteps

-----------------------------------------------------------------------------
(* The latest sample of a sensor is one of them, as the samples there ever  *)
(* are have a latest.                                                       *)
BoundedRows(db) == \E b \in Nat : \A p \in db.samples : p[2] <= b

RowsBounded == BoundedRows(view) /\ BoundedRows(committed)

LEMMA PipeRows ==
    ASSUME TypeOK, Busy, PipeThread
    PROVE  /\ \/ view'.samples = view.samples
              \/ view' = committed
              \/ \E s \in Sensors :
                   /\ pc = "rows" /\ msg \in Incoming /\ msg.kind = "sample_batch"
                   /\ view'.samples = view.samples \cup {<<s, msg.sampled>>}
           /\ committed' \in {committed, view, view'}
  <1> USE DEF TypeOK, Database, Fails, Succeeds, RolledBack, conn
  <1>1. CASE \E m \in Incoming : PipeReceive(m) BY <1>1 DEF PipeReceive
  <1>2. CASE Begin BY <1>2 DEF Begin
  <1>3. CASE UpsertMachineStep BY <1>3 DEF UpsertMachineStep, MachineStmt
  <1>4. CASE UpsertCollectorStep BY <1>4 DEF UpsertCollectorStep, CollectorStmt
  <1>5. CASE RowStep
    <2>1. CASE Fails BY <2>1
    <2>2. CASE ~Fails
      <3>1. pc = "rows" /\ msg \in Incoming /\ msg.rows[row] \in Sensors
        BY <1>5, RowSensor DEF RowStep, Busy
      <3>2. CASE msg.kind = "catalog_snapshot"
        BY <1>5, <2>2, <3>1, <3>2 DEF RowStep, CatalogSensorStmt
      <3>3. CASE msg.kind = "sample_batch"
        BY <1>5, <2>2, <3>1, <3>3 DEF RowStep, SensorSampleStmt
      <3>4. QED BY <1>5, <3>2, <3>3 DEF RowStep, HasRows
    <2>3. QED BY <2>1, <2>2
  <1>6. CASE Commit BY <1>6 DEF Commit, CommitFrame
  <1>7. CASE Rollback BY <1>7 DEF Rollback
  <1>8. QED
    BY <1>1, <1>2, <1>3, <1>4, <1>5, <1>6, <1>7 DEF PipeThread, PipeStep

LEMMA OneMoreBounded ==
    ASSUME NEW a, NEW b, BoundedRows(a), NEW s, NEW t \in Nat,
           a.samples \subseteq Sensors \X Time,
           b.samples = a.samples \cup {<<s, t>>}
    PROVE  BoundedRows(b)
  <1>1. PICK n \in Nat : \A p \in a.samples : p[2] <= n
    BY DEF BoundedRows
  <1>2. PICK k \in Nat : k >= n /\ k >= t
    <2>1. CASE n <= t BY <2>1
    <2>2. CASE ~(n <= t) BY <2>2
    <2>3. QED BY <2>1, <2>2
  <1>3. \A p \in a.samples : p[2] \in Nat
    BY TimesAreNaturals
  <1>4. \A p \in b.samples : p[2] <= k
    BY <1>1, <1>2, <1>3
  <1>5. QED BY <1>4 DEF BoundedRows

LEMMA NextRowsBounded ==
    ASSUME StoreOK, RowsBounded, [ApiNext]_apiVars
    PROVE  RowsBounded'
  <1>1. CASE PipeThread
    <2>1. BoundedRows(view')
      <3>1. CASE view'.samples = view.samples \/ view' = committed
        BY <3>1 DEF RowsBounded, BoundedRows
      <3>2. ASSUME NEW s \in Sensors, msg \in Incoming, msg.kind = "sample_batch",
                   view'.samples = view.samples \cup {<<s, msg.sampled>>}
            PROVE  BoundedRows(view')
        <4>1. msg.sampled \in Nat
          BY <3>2, IncomingAssumption, TimesAreNaturals DEF IncomingAssumption
        <4>2. view.samples \subseteq Sensors \X Time
          BY DEF StoreOK, TypeOK, Database
        <4>3. QED BY <3>2, <4>1, <4>2, OneMoreBounded DEF RowsBounded
      <3>3. QED BY <1>1, <3>1, <3>2, PipeRows DEF StoreOK
    <2>2. QED BY <1>1, <2>1, PipeRows DEF StoreOK, RowsBounded, BoundedRows
  <1>2. CASE HandlerFails
    BY <1>2 DEF HandlerFails, Fails, RolledBack, RowsBounded, BoundedRows
  <1>3. CASE UNCHANGED vars
    BY <1>3 DEF vars, RowsBounded, BoundedRows
  <1>4. QED
    BY <1>1, <1>2, <1>3, ApiSteps, HandlerFrame DEF Receive

LEMMA LatestIsThere ==
    ASSUME view \in Database, BoundedRows(view), NEW s
    PROVE  /\ Latest(s) \in Time \cup {NoTime}
           /\ Latest(s) # NoTime => <<s, Latest(s)>> \in view.samples
  <1> DEFINE F == {p[2] : p \in {q \in view.samples : q[1] = s}} \cup {NoTime}
  <1>1. view.samples \subseteq Sensors \X Time
    BY DEF Database
  <1>2. F \subseteq Nat /\ NoTime \in F
    BY <1>1, TimesAreNaturals
  <1>3. PICK b \in Nat : \A x \in F : x <= b
    BY DEF BoundedRows, NoTime
  <1>4. \A x \in F : x # NoTime => x \in Time /\ <<s, x>> \in view.samples
    BY <1>1
  <1>5. Latest(s) = Max(F)
    BY DEF Latest
  <1> HIDE DEF F
  <1>6. Max(F) \in F
    BY <1>2, <1>3, MaxIsIn
  <1>7. QED BY <1>4, <1>5, <1>6

-----------------------------------------------------------------------------
(* Type correctness of the readers.                                         *)
Answers == [health : Time \cup {NoTime}, machine : Time \cup {NoTime},
            sensors : SUBSET Sensors, samples : Seq(Time), system : Readings,
            rest : SUBSET Sensors]

ReaderType ==
    /\ answer \in Answers
    /\ known \in [sensors : SUBSET Sensors, samples : SUBSET (Sensors \X Time)]
    /\ rolled \in BOOLEAN /\ spoilt \in BOOLEAN

PushType ==
    /\ {body, remote, late} \subseteq Readings
    /\ pushPc \in {"wait", "get", "post"}
    /\ remoteUp \in BOOLEAN
    /\ faults \in 0 .. MaxFaults

LEMMA NoReadingsType == NoReadings \in Readings
  BY DEF NoReadings, Readings

LEMMA NoAnswerType == NoAnswer \in Answers
  BY NoReadingsType DEF NoAnswer, Answers

LEMMA SystemRowFields ==
    ASSUME answer \in Answers, NEW s \in Sensors
    PROVE  LET k == Metric(s)
               taken == k = "cpu_package_c" /\ answer.system[k] # NoTime
               there == k # "none" /\ Latest(s) # NoTime /\ IsCatalogued(view.catalog, s)
           IN SystemRow(s) = [answer EXCEPT
                !.rest = answer.rest \ {s},
                !.system = IF there /\ ~taken THEN [answer.system EXCEPT ![k] = Latest(s)]
                           ELSE answer.system]
  BY DEF SystemRow, Answers

LEMMA TwoFields ==
    ASSUME answer \in Answers, NEW r \in SUBSET Sensors, NEW y \in Readings
    PROVE  /\ [answer EXCEPT !.rest = r, !.system = y] \in Answers
           /\ [answer EXCEPT !.rest = r, !.system = y].system = y
  BY DEF Answers

LEMMA MetricType == ASSUME NEW s PROVE Metric(s) \in Metrics \cup {"none"}
  BY DEF Metric, Metrics

LEMMA SystemRowType ==
    ASSUME answer \in Answers, NEW s \in Sensors, view \in Database, BoundedRows(view)
    PROVE  /\ SystemRow(s) \in Answers
           /\ \A k \in Metrics : \/ SystemRow(s).system[k] = answer.system[k]
                                 \/ <<s, SystemRow(s).system[k]>> \in view.samples
  <1> DEFINE k == Metric(s)
             taken == k = "cpu_package_c" /\ answer.system[k] # NoTime
             there == k # "none" /\ Latest(s) # NoTime /\ IsCatalogued(view.catalog, s)
             y == IF there /\ ~taken THEN [answer.system EXCEPT ![k] = Latest(s)]
                  ELSE answer.system
             r == answer.rest \ {s}
  <1>1. SystemRow(s) = [answer EXCEPT !.rest = r, !.system = y]
    BY SystemRowFields
  <1>2. /\ Latest(s) \in Time \cup {NoTime}
        /\ Latest(s) # NoTime => <<s, Latest(s)>> \in view.samples
    BY LatestIsThere
  <1>3. answer.system \in Readings /\ r \in SUBSET Sensors
    BY DEF Answers
  <1>4. /\ y \in Readings
        /\ \A m \in Metrics : y[m] = answer.system[m] \/ <<s, y[m]>> \in view.samples
    <2>1. CASE there /\ ~taken
      <3>1. k \in Metrics /\ y = [answer.system EXCEPT ![k] = Latest(s)]
        BY <2>1, MetricType
      <3>2. <<s, Latest(s)>> \in view.samples
        BY <1>2, <2>1
      <3> HIDE DEF y, k, there, taken
      <3>3. QED BY <1>2, <1>3, <3>1, <3>2 DEF Readings
    <2>2. CASE ~(there /\ ~taken)
      <3>1. y = answer.system
        BY <2>2
      <3>2. QED BY <1>3, <3>1
    <2>3. QED BY <2>1, <2>2
  <1> HIDE DEF y, r
  <1>5. SystemRow(s) \in Answers /\ SystemRow(s).system = y
    BY <1>1, <1>3, <1>4, TwoFields
  <1>6. QED BY <1>4, <1>5

LEMMA FirstIsThere ==
    ASSUME Place, at = "history", HistoryRows # {}
    PROVE  /\ First(HistoryRows) \in HistoryRows
           /\ \A t \in HistoryRows : t <= First(HistoryRows)
  <1>1. HistoryRows \subseteq Nat
    BY TimesAreNaturals DEF HistoryRows
  <1>2. request.to \in Nat
    BY TimesAreNaturals DEF Place, Requests
  <1>3. \A t \in HistoryRows : t <= request.to
    BY DEF HistoryRows
  <1> HIDE DEF HistoryRows
  <1>4. QED BY <1>1, <1>2, <1>3, MaxIsIn DEF First

LEMMA HandlerAnswer ==
    ASSUME StoreOK, RowsBounded, Place, answer \in Answers, Handler
    PROVE  answer' \in Answers
  <1> USE DEF Statement, Step, Reads
  <1>1. CASE answer' = answer
    BY <1>1
  <1>2. CASE QueryCollectorHealth
    <2>1. \/ answer' = answer
          \/ answer' = [answer EXCEPT !.health = view.health[Bridge].sample]
      BY <1>2, Zenon DEF QueryCollectorHealth
    <2>2. view.health[Bridge].sample \in Time \cup {NoTime}
      BY DEF StoreOK, TypeOK, Database, CollectorRow, Sources
    <2>3. QED BY <2>1, <2>2 DEF Answers
  <1>3. CASE QueryMachineCatalog
    <2>1. \/ answer' = answer
          \/ answer' = [answer EXCEPT !.machine = view.machine.last]
      BY <1>3, Zenon DEF QueryMachineCatalog
    <2>2. view.machine.last \in Time \cup {NoTime}
      BY DEF StoreOK, TypeOK, Database, SeenRow, NoSeen
    <2>3. QED BY <2>1, <2>2 DEF Answers
  <1>4. CASE QuerySensorCatalog
    <2>1. \/ answer' = answer
          \/ \E S \in SUBSET Sensors : answer' = [answer EXCEPT !.sensors = S]
      BY <1>4 DEF QuerySensorCatalog
    <2>2. QED BY <2>1 DEF Answers
  <1>5. CASE QuerySensorHistory
    <2>1. CASE answer' # answer
      <3>1. /\ at = "history" /\ HistoryRows # {}
            /\ answer' = [answer EXCEPT !.samples = Append(@, First(HistoryRows))]
        BY <1>5, <2>1, Zenon DEF QuerySensorHistory
      <3>2. First(HistoryRows) \in Time
        BY <3>1, FirstIsThere DEF HistoryRows
      <3> HIDE DEF HistoryRows
      <3>3. Append(answer.samples, First(HistoryRows)) \in Seq(Time)
        BY <3>2 DEF Answers
      <3>4. QED BY <3>1, <3>3 DEF Answers
    <2>2. QED BY <1>1, <2>1
  <1>6. CASE QueryLatestSystem
    <2>1. CASE answer' # answer
      <3>1. PICK s \in answer.rest : answer' = SystemRow(s)
        BY <1>6, <2>1, Zenon DEF QueryLatestSystem
      <3>2. s \in Sensors
        BY DEF Answers
      <3>3. QED BY <3>1, <3>2, SystemRowType DEF StoreOK, TypeOK, RowsBounded
    <2>2. QED BY <1>1, <2>1
  <1>7. CASE QueryLatestGpu \/ QueryLatestOllama
    <2>1. answer' = answer
      BY <1>7, Zenon DEF QueryLatestGpu, QueryLatestOllama
    <2>2. QED BY <2>1
  <1>8. QED
    BY <1>2, <1>3, <1>4, <1>5, <1>6, <1>7 DEF Handler

LEMMA NextReaderType ==
    ASSUME StoreOK, RowsBounded, Place, ReaderType, [ApiNext]_apiVars
    PROVE  ReaderType'
  <1>1. CASE PipeThread
    <2>1. rolled' \in BOOLEAN
      BY <1>1 DEF PipeThread
    <2>2. QED BY <1>1, <2>1 DEF PipeThread, ReaderType
  <1>2. CASE Handler
    <2>1. answer' \in Answers
      BY <1>2, HandlerAnswer DEF ReaderType
    <2>2. known' = known
      BY <1>2, HandlerFrame
    <2>3. rolled' \in BOOLEAN
      BY <1>2, HandlerFrame
    <2>4. spoilt' = spoilt \/ spoilt' = TRUE
      BY <1>2, HandlerFrame
    <2>5. QED BY <2>1, <2>2, <2>3, <2>4 DEF ReaderType
  <1>3. CASE \E r \in Requests : Receive(r)
    <2>1. answer' \in Answers /\ rolled' = FALSE /\ spoilt' = FALSE
      BY <1>3, NoAnswerType DEF Receive
    <2>2. known' \in [sensors : SUBSET Sensors, samples : SUBSET (Sensors \X Time)]
      BY <1>3 DEF Receive, Nothing, StoreOK, TypeOK, Database
    <2>3. QED BY <2>1, <2>2 DEF ReaderType
  <1>4. CASE Forget
    BY <1>4, NoAnswerType DEF Forget, ReaderType, Nothing
  <1>5. CASE UNCHANGED reader
    BY <1>5 DEF reader, ReaderType
  <1>6. QED BY <1>1, <1>2, <1>3, <1>4, <1>5, ApiSteps

LEMMA NextPushType ==
    ASSUME ReaderType, PushType, [ApiNext]_apiVars
    PROVE  PushType'
  <1> USE DEF PushType
  <1>1. CASE PipeThread BY <1>1 DEF PipeThread, push
  <1>2. CASE Handler BY <1>2, HandlerFrame DEF push
  <1>3. CASE Caller BY <1>3 DEF Caller, push
  <1>4. CASE PushGet BY <1>4 DEF PushGet
  <1>5. ASSUME Fault PROVE faults' \in 0 .. MaxFaults
    BY <1>5, ApiAssumption DEF Fault, ApiAssumption
  <1>6. CASE PushGot
    <2>1. answer.system \in Readings
      BY DEF ReaderType, Answers
    <2>2. faults' \in 0 .. MaxFaults
      BY <1>5, <1>6 DEF PushGot
    <2>3. QED BY <1>6, <2>1, <2>2 DEF PushGot
  <1>7. CASE PushPost
    <2>1. faults' \in 0 .. MaxFaults
      BY <1>5, <1>7 DEF PushPost
    <2>2. QED BY <1>7, <2>1, NoReadingsType DEF PushPost
  <1>8. CASE LatePost BY <1>8, NoReadingsType DEF LatePost
  <1>9. CASE RemoteGoes BY <1>5, <1>9 DEF RemoteGoes
  <1>10. CASE RemoteComes BY <1>10 DEF RemoteComes
  <1>11. CASE UNCHANGED apiVars BY <1>11 DEF apiVars, push
  <1>12. QED
    BY <1>1, <1>2, <1>3, <1>4, <1>6, <1>7, <1>8, <1>9, <1>10, <1>11 DEF ApiNext, Pusher

Typed == StoreOK /\ RowsBounded /\ Place /\ ReaderType /\ PushType

LEMMA InitTyped == ApiInit => Typed
  <1> SUFFICES ASSUME ApiInit PROVE Typed
    OBVIOUS
  <1>1. StoreOK
    BY InitType, EmptyDatabaseType DEF ApiInit, Init, StoreOK, TransactionOwned, Ahead
  <1>2. RowsBounded
    BY DEF ApiInit, Init, EmptyDatabase, RowsBounded, BoundedRows
  <1>3. Place
    BY DEF ApiInit, Place
  <1>4. ReaderType
    BY NoAnswerType DEF ApiInit, ReaderType, Nothing
  <1>5. PushType
    BY NoReadingsType, ApiAssumption DEF ApiInit, PushType, ApiAssumption
  <1>6. QED BY <1>1, <1>2, <1>3, <1>4, <1>5 DEF Typed

LEMMA NextTyped == Typed /\ [ApiNext]_apiVars => Typed'
  BY NextStoreOK, NextRowsBounded, NextPlace, NextReaderType, NextPushType DEF Typed

LEMMA TypedInvariant == ApiSpec => []Typed
  BY InitTyped, NextTyped, PTL DEF ApiSpec

(* Whatever is asked for, stored, taken back or posted meanwhile, requests,  *)
(* answers and pushes have the types that http_server.cpp and                *)
(* SnapshotPusher give them, and the store keeps its own: a statement of a   *)
(* handler never leaves it in a state that the pipe thread could not.        *)
THEOREM ApiTypes == ApiSpec => []ApiTypeOK
  <1>1. Typed => ApiTypeOK
    <2> SUFFICES ASSUME Typed PROVE ApiTypeOK
      OBVIOUS
    <2> USE DEF Typed
    <2>1. TypeOK BY DEF StoreOK
    <2>2. /\ request \in Requests \cup {NoRequest}
          /\ at \in {"idle", "done", "health", "machine", "catalog", "history", "system",
                     "gpu", "ollama"}
      BY DEF Place
    <2>3. answer.samples \in Seq(Time) /\ answer.sensors \subseteq Sensors
      BY DEF ReaderType, Answers
    <2>4. {answer.system, body, remote, late} \subseteq Readings
      BY DEF ReaderType, PushType, Answers
    <2>5. QED BY <2>1, <2>2, <2>3, <2>4 DEF ReaderType, PushType, ApiTypeOK
  <1>2. QED BY <1>1, TypedInvariant, PTL

-----------------------------------------------------------------------------
(* What was in the file when a request came is there while it is answered.  *)
StillThere ==
    /\ known.samples \subseteq committed.samples
    /\ \A s \in known.sensors : IsCatalogued(committed.catalog, s)

LEMMA NextStillThere ==
    ASSUME Typed, StillThere, [ApiNext]_apiVars
    PROVE  StillThere'
  <1>1. Keeps(committed, committed')
    BY NextStoreOK DEF Typed
  <1>2. known \in [sensors : SUBSET Sensors, samples : SUBSET (Sensors \X Time)]
    BY DEF Typed, ReaderType
  <1>3. CASE known' = known
    BY <1>1, <1>2, <1>3 DEF StillThere, Keeps, IsCatalogued
  <1>4. CASE \E r \in Requests : Receive(r)
    <2>1. committed' = committed
      BY <1>4 DEF Receive, vars
    <2>2. \/ known' = Nothing
          \/ known' = [sensors |-> {s \in Sensors : IsCatalogued(committed.catalog, s)},
                       samples |-> committed.samples]
      BY <1>4 DEF Receive
    <2>3. QED BY <2>1, <2>2 DEF StillThere, Nothing
  <1>5. CASE Forget
    BY <1>5 DEF Forget, Nothing, StillThere
  <1>6. CASE PipeThread BY <1>3, <1>6 DEF PipeThread
  <1>7. QED BY <1>3, <1>4, <1>5, <1>6, ApiSteps, HandlerFrame DEF reader

LEMMA KnownIsSeen ==
    ASSUME Typed, StillThere
    PROVE  /\ known.samples \subseteq view.samples
           /\ \A s \in known.sensors : IsCatalogued(view.catalog, s)
  <1>1. Keeps(committed, view)
    BY DEF Typed, StoreOK, Ahead
  <1>2. known.sensors \subseteq Sensors
    BY DEF Typed, ReaderType
  <1>3. QED BY <1>1, <1>2 DEF StillThere, Keeps, IsCatalogued

-----------------------------------------------------------------------------
(* The catalogue.                                                           *)
Fitting(s) == /\ request.hardware_type \in {AnyType, HardwareType[s]}
              /\ request.sensor_type \in {AnyType, SensorType[s]}

CatalogDone ==
    (~spoilt /\ Answered("catalog")) =>
        /\ \A s \in answer.sensors : Fitting(s)
        /\ \A s \in Sensors : s \in known.sensors /\ Fitting(s) => s \in answer.sensors

LEMMA TwoJoined ==
    ASSUME NEW x, NEW y
    PROVE  /\ DOMAIN (<<x>> \o <<>>) = {1} /\ (<<x>> \o <<>>)[1] = x
           /\ DOMAIN (<<>> \o <<y>>) = {1} /\ (<<>> \o <<y>>)[1] = y
           /\ DOMAIN (<<x>> \o <<y>>) = {1, 2}
           /\ (<<x>> \o <<y>>)[1] = x /\ (<<x>> \o <<y>>)[2] = y
  <1>1. <<x>> \in Seq({x, y}) /\ <<y>> \in Seq({x, y}) /\ <<>> \in Seq({x, y})
    OBVIOUS
  <1>2. QED BY <1>1

LEMMA ConditionsFit ==
    ASSUME NEW s \in Sensors
    PROVE  (\A i \in DOMAIN Conditions :
               [hardware_type |-> HardwareType[s], sensor_type |-> SensorType[s]][Conditions[i]]
                   = Bound[i]) <=> Fitting(s)
  <1> DEFINE h == request.hardware_type
             k == request.sensor_type
             Column == [hardware_type |-> HardwareType[s], sensor_type |-> SensorType[s]]
  <1>1. \A i \in DOMAIN Conditions : Bound[i] = request[Conditions[i]]
    BY DEF Bound
  <1>2. CASE h = AnyType /\ k = AnyType
    <2>1. Conditions = <<>>
      BY <1>2 DEF Conditions, Given
    <2>2. QED BY <1>2, <2>1 DEF Fitting
  <1>3. CASE h # AnyType /\ k = AnyType
    <2>1. Given("hardware_type") = <<"hardware_type">> /\ Given("sensor_type") = <<>>
      BY <1>3 DEF Given
    <2>2. DOMAIN Conditions = {1} /\ Conditions[1] = "hardware_type"
      BY <2>1, TwoJoined DEF Conditions
    <2>3. QED BY <1>1, <1>3, <2>2 DEF Fitting
  <1>4. CASE h = AnyType /\ k # AnyType
    <2>1. Given("hardware_type") = <<>> /\ Given("sensor_type") = <<"sensor_type">>
      BY <1>4 DEF Given
    <2>2. DOMAIN Conditions = {1} /\ Conditions[1] = "sensor_type"
      BY <2>1, TwoJoined DEF Conditions
    <2>3. QED BY <1>1, <1>4, <2>2 DEF Fitting
  <1>5. CASE h # AnyType /\ k # AnyType
    <2>1. /\ Given("hardware_type") = <<"hardware_type">>
          /\ Given("sensor_type") = <<"sensor_type">>
      BY <1>5 DEF Given
    <2>2. /\ DOMAIN Conditions = {1, 2}
          /\ Conditions[1] = "hardware_type" /\ Conditions[2] = "sensor_type"
      BY <2>1, TwoJoined DEF Conditions
    <2>3. QED BY <1>1, <1>5, <2>2 DEF Fitting
  <1>6. QED BY <1>2, <1>3, <1>4, <1>5

LEMMA CatalogStep ==
    ASSUME Typed, QuerySensorCatalog, ~spoilt'
    PROVE  /\ answer'.sensors = {s \in Sensors : IsCatalogued(view.catalog, s) /\ Fitting(s)}
           /\ known' = known /\ request' = request
  <1>1. known' = known /\ request' = request
    BY DEF QuerySensorCatalog, Statement, Step
  <1>2. answer' = [answer EXCEPT !.sensors = {s \in Sensors :
                      IsCatalogued(view.catalog, s) /\ Fitting(s)}]
    <2> DEFINE Match(s) == \A i \in DOMAIN Conditions :
                  [hardware_type |-> HardwareType[s], sensor_type |-> SensorType[s]][Conditions[i]]
                      = Bound[i]
    <2>1. answer' = [answer EXCEPT !.sensors = {s \in Sensors :
                       IsCatalogued(view.catalog, s) /\ Match(s)}]
      BY DEF QuerySensorCatalog, Statement, Step, Reads
    <2>2. {s \in Sensors : IsCatalogued(view.catalog, s) /\ Match(s)}
            = {s \in Sensors : IsCatalogued(view.catalog, s) /\ Fitting(s)}
      BY ConditionsFit
    <2> HIDE DEF Match
    <2>3. QED BY <2>1, <2>2
  <1>3. answer \in Answers
    BY DEF Typed, ReaderType
  <1>4. QED BY <1>1, <1>2, <1>3 DEF Answers

(* The answer is complete once a handler's last statement has been made, and *)
(* then nothing of it changes.                                              *)
LEMMA OnceDone ==
    ASSUME Typed, [ApiNext]_apiVars, at' = "done"
    PROVE  \/ Handler /\ at # "done"
           \/ UNCHANGED <<at, request, answer, known, spoilt>>
  <1>1. CASE PipeThread BY <1>1 DEF PipeThread
  <1>2. CASE Handler
    BY <1>2, HandlerIsBusy
  <1>3. CASE \E r \in Requests : Receive(r)
    BY <1>3, FirstStatement DEF Receive
  <1>4. CASE Forget BY <1>4 DEF Forget
  <1>5. CASE UNCHANGED reader BY <1>5 DEF reader
  <1>6. QED BY <1>1, <1>2, <1>3, <1>4, <1>5, ApiSteps

LEMMA NextCatalogDone ==
    ASSUME Typed, StillThere, CatalogDone, [ApiNext]_apiVars
    PROVE  CatalogDone'
  <1> SUFFICES ASSUME (~spoilt /\ Answered("catalog"))' PROVE CatalogDone'
    BY DEF CatalogDone
  <1>1. at' = "done" /\ request'.path = "catalog" /\ ~spoilt'
    BY DEF Answered
  <1>2. CASE UNCHANGED <<at, request, answer, known, spoilt>>
    BY <1>2 DEF CatalogDone, Answered, Fitting
  <1>3. CASE Handler /\ at # "done"
    <2>1. request' = request
      BY <1>3, HandlerFrame
    <2>2. at = "catalog"
      BY <1>1, <1>3, <2>1 DEF Typed, Place, NoRequest
    <2>3. QuerySensorCatalog
      BY <1>3, <2>2 DEF Handler, QueryCollectorHealth, QueryMachineCatalog,
         QuerySensorHistory, QueryLatestSystem, QueryLatestGpu, QueryLatestOllama,
         Statement, Step
    <2>4. /\ answer'.sensors = {s \in Sensors : IsCatalogued(view.catalog, s) /\ Fitting(s)}
          /\ known' = known
      BY <1>1, <2>3, CatalogStep
    <2>5. QED BY <2>1, <2>4, KnownIsSeen DEF CatalogDone, Fitting
  <1>4. QED BY <1>1, <1>2, <1>3, OnceDone

-----------------------------------------------------------------------------
(* The history.  While rows are still asked for, a row that was there when  *)
(* the request came has been shown, or is older than all that were.         *)
Shown == {answer.samples[i] : i \in DOMAIN answer.samples}
OlderThanShown(t) == \A u \in Shown : t < u

HistorySoFar ==
    request.path = "history" =>
      /\ Len(answer.samples) <= request.limit
      /\ ~spoilt => \A t \in request.from .. request.to :
            <<request.sensor, t>> \in known.samples =>
               \/ t \in Shown
               \/ /\ OlderThanShown(t)
                  /\ at = "done" => Len(answer.samples) = request.limit

LEMMA ShownGrows ==
    ASSUME answer \in Answers, NEW t \in Time,
           answer' = [answer EXCEPT !.samples = Append(@, t)]
    PROVE  /\ Shown' = Shown \cup {t}
           /\ Len(answer'.samples) = Len(answer.samples) + 1
           /\ Len(answer.samples) \in Nat
  <1>1. answer.samples \in Seq(Time) /\ answer'.samples = Append(answer.samples, t)
    BY DEF Answers
  <1> DEFINE q == answer.samples
  <1>2. /\ DOMAIN Append(q, t) = DOMAIN q \cup {Len(q) + 1}
        /\ \A i \in DOMAIN q : Append(q, t)[i] = q[i]
        /\ Append(q, t)[Len(q) + 1] = t
        /\ Len(Append(q, t)) = Len(q) + 1 /\ Len(q) \in Nat
    BY <1>1
  <1>3. QED BY <1>1, <1>2 DEF Shown

LEMMA LimitIsNat == ASSUME NEW r \in Requests, r.path = "history"
                    PROVE  /\ r.limit \in Nat /\ r.from \in Nat /\ r.to \in Nat
                           /\ r.sensor \in Sensors
  BY ApiAssumption, TimesAreNaturals DEF Requests, ApiAssumption, Limit

LEMMA HistoryRowsAre ==
    ASSUME Typed, StillThere, request.path = "history",
           NEW t \in request.from .. request.to, <<request.sensor, t>> \in known.samples,
           OlderThanShown(t)
    PROVE  t \in HistoryRows
  <1>1. <<request.sensor, t>> \in view.samples
    BY KnownIsSeen
  <1>2. t \in Time
    BY DEF Typed, ReaderType
  <1>3. request.from <= t /\ t <= request.to
    OBVIOUS
  <1>4. \A i \in DOMAIN answer.samples : t < answer.samples[i]
    BY DEF OlderThanShown, Shown
  <1>5. QED BY <1>1, <1>2, <1>3, <1>4 DEF HistoryRows

LEMMA OneMoreRow ==
    ASSUME Typed, StillThere, HistorySoFar, at = "history", at' = "history",
           Len(answer.samples) < request.limit, HistoryRows # {},
           answer' = [answer EXCEPT !.samples = Append(@, First(HistoryRows))],
           UNCHANGED <<request, known, spoilt>>
    PROVE  HistorySoFar'
  <1> DEFINE m == First(HistoryRows)
  <1>1. /\ request.path = "history" /\ request \in Requests /\ answer \in Answers
    BY DEF Typed, Place, ReaderType
  <1>2. m \in HistoryRows /\ m \in Time /\ \A t \in HistoryRows : t <= m
    BY FirstIsThere DEF Typed, HistoryRows
  <1>3. /\ Shown' = Shown \cup {m}
        /\ Len(answer'.samples) = Len(answer.samples) + 1
        /\ Len(answer.samples) \in Nat
    BY <1>1, <1>2, ShownGrows
  <1>4. Len(answer'.samples) <= request.limit
    BY <1>1, <1>3, LimitIsNat
  <1>5. ASSUME ~spoilt, NEW t \in request.from .. request.to,
               <<request.sensor, t>> \in known.samples
        PROVE  t \in Shown' \/ \A u \in Shown' : t < u
    <2>1. CASE t \in Shown
      BY <1>3, <2>1
    <2>2. CASE OlderThanShown(t)
      <3>1. t <= m
        BY <1>1, <1>2, <1>5, <2>2, HistoryRowsAre
      <3>2. t \in Int /\ m \in Int
        BY <1>2, TimesAreNaturals
      <3>3. t = m \/ t < m
        BY <3>1, <3>2
      <3>4. QED BY <1>3, <2>2, <3>3 DEF OlderThanShown
    <2>3. QED BY <1>1, <1>5, <2>1, <2>2 DEF HistorySoFar
  <1> HIDE DEF m
  <1>6. QED BY <1>4, <1>5 DEF HistorySoFar, OlderThanShown

LEMMA LastRow ==
    ASSUME Typed, StillThere, HistorySoFar, at = "history", at' = "done",
           spoilt' \/ HistoryRows = {} \/ ~(Len(answer.samples) < request.limit),
           UNCHANGED <<request, known, answer>>, ~spoilt' => ~spoilt
    PROVE  HistorySoFar'
  <1>1. /\ request.path = "history" /\ request \in Requests /\ answer \in Answers
    BY DEF Typed, Place, ReaderType
  <1>2. Len(answer.samples) \in Nat /\ request.limit \in Nat
    BY <1>1, LimitIsNat DEF Answers
  <1>3. ASSUME ~spoilt', NEW t \in request.from .. request.to,
               <<request.sensor, t>> \in known.samples, ~(t \in Shown)
        PROVE  OlderThanShown(t) /\ Len(answer.samples) = request.limit
    <2>1. OlderThanShown(t)
      BY <1>1, <1>3 DEF HistorySoFar
    <2>2. t \in HistoryRows
      BY <1>1, <1>3, <2>1, HistoryRowsAre
    <2>3. ~(Len(answer.samples) < request.limit)
      BY <1>3, <2>2
    <2>4. Len(answer.samples) <= request.limit
      BY <1>1 DEF HistorySoFar
    <2>5. QED BY <1>2, <2>1, <2>3, <2>4
  <1>4. Shown' = Shown /\ \A t : OlderThanShown(t)' <=> OlderThanShown(t)
    BY DEF Shown, OlderThanShown
  <1>5. Len(answer.samples) <= request.limit
    BY <1>1 DEF HistorySoFar
  <1>6. QED BY <1>3, <1>4, <1>5 DEF HistorySoFar

LEMMA OnlyHistory ==
    ASSUME Handler, at = "history" PROVE QuerySensorHistory
  BY Zenon DEF Handler, QueryCollectorHealth, QueryMachineCatalog, QuerySensorCatalog,
     QueryLatestSystem, QueryLatestGpu, QueryLatestOllama, Statement, Step

LEMMA HistoryStep ==
    ASSUME Typed, StillThere, HistorySoFar, Handler, at = "history"
    PROVE  HistorySoFar'
  <1>1. QuerySensorHistory
    BY OnlyHistory
  <1>2. UNCHANGED <<request, known>>
    BY HandlerFrame
  <1>3. After("history") = "done"
    BY AfterPlace DEF Typed
  <1> DEFINE more == HistoryRows # {} /\ Len(answer.samples) < request.limit
             grown == [answer EXCEPT !.samples = Append(@, First(HistoryRows))]
  <1>4. \/ /\ more /\ at' = "history"
           /\ answer' = grown /\ spoilt' = spoilt
        \/ /\ at' = "done" /\ answer' = answer
           /\ spoilt' = TRUE \/ (~more /\ spoilt' = spoilt)
    BY <1>1, <1>3, Zenon DEF QuerySensorHistory, Statement, Step, Reads
  <1>5. QED BY <1>2, <1>4, OneMoreRow, LastRow

LEMMA NextHistorySoFar ==
    ASSUME Typed, StillThere, HistorySoFar, [ApiNext]_apiVars
    PROVE  HistorySoFar'
  <1>1. CASE UNCHANGED <<at, request, answer, known, spoilt>>
    BY <1>1 DEF HistorySoFar, Shown, OlderThanShown
  <1>2. CASE PipeThread BY <1>1, <1>2 DEF PipeThread
  <1>3. CASE Handler
    <2>1. CASE at = "history" BY <1>3, <2>1, HistoryStep
    <2>2. CASE at # "history"
      <3>1. request' = request
        BY <1>3, HandlerFrame
      <3>2. at # "idle" /\ at # "done"
        BY <1>3, HandlerIsBusy
      <3>3. request.path # "history"
        BY <2>2, <3>2 DEF Typed, Place
      <3>4. QED BY <3>1, <3>3 DEF HistorySoFar
    <2>3. QED BY <2>1, <2>2
  <1>4. ASSUME NEW r \in Requests, Receive(r) PROVE HistorySoFar'
    <2>1. at' # "done" /\ request' = r /\ answer'.samples = <<>>
      BY <1>4, FirstStatement DEF Receive, NoAnswer
    <2>2. /\ Len(answer'.samples) = 0 /\ Shown' = {}
      BY <2>1 DEF Shown
    <2>3. \A t : OlderThanShown(t)'
      BY <2>2 DEF OlderThanShown
    <2>4. r.path = "history" => 0 <= r.limit
      BY LimitIsNat
    <2>5. QED BY <2>1, <2>2, <2>3, <2>4 DEF HistorySoFar
  <1>5. CASE Forget
    BY <1>5 DEF Forget, NoRequest, HistorySoFar
  <1>6. QED BY <1>1, <1>2, <1>3, <1>4, <1>5, ApiSteps DEF reader

Complete == StillThere /\ CatalogDone /\ HistorySoFar

LEMMA CompleteInvariant == ApiSpec => []Complete
  <1>1. ApiInit => Complete
    BY DEF ApiInit, Complete, StillThere, CatalogDone, HistorySoFar, Answered, Nothing,
           NoRequest
  <1>2. Typed /\ Complete /\ [ApiNext]_apiVars => Complete'
    BY NextStillThere, NextCatalogDone, NextHistorySoFar DEF Complete
  <1>3. QED BY <1>1, <1>2, TypedInvariant, PTL DEF ApiSpec

(* However the pipe thread's statements, commits and rollbacks fall between  *)
(* the statements of a handler and between the rows of one, and whatever     *)
(* failing statements take back: a catalogue that is answered has every      *)
(* sensor of the kind asked for that the file had when the request came and  *)
(* no other kind, and a history every sample, or all those down to the       *)
(* oldest it has if it is as long as the limit.                              *)
THEOREM AnswersHaveWhatWasThere == ApiSpec => []AnswersAreComplete
  <1>1. Complete => AnswersAreComplete
    <2> SUFFICES ASSUME Complete, ~spoilt
                 PROVE  /\ Answered("catalog") => CatalogDone
                        /\ Answered("history") =>
                             \A t \in request.from .. request.to :
                               <<request.sensor, t>> \in known.samples =>
                                 \/ t \in Shown
                                 \/ /\ Len(answer.samples) = request.limit
                                    /\ \A u \in Shown : t < u
      BY DEF AnswersAreComplete, CatalogDone, Fitting, Shown, Complete
    <2>1. QED BY DEF Complete, HistorySoFar, Answered, OlderThanShown
  <1>2. QED BY <1>1, CompleteInvariant, PTL

-----------------------------------------------------------------------------
(* What a history shows is on the connection, unless it was taken back.     *)
ShownIsSeen ==
    (request.path = "history" /\ ~rolled) =>
        \A i \in DOMAIN answer.samples : <<request.sensor, answer.samples[i]>> \in view.samples

LEMMA ShownIsSeenOf ==
    ShownIsSeen <=> ((request.path = "history" /\ ~rolled) =>
                        \A t \in Shown : <<request.sensor, t>> \in view.samples)
  BY DEF ShownIsSeen, Shown

LEMMA NextShownIsSeen ==
    ASSUME Typed, ShownIsSeen, [ApiNext]_apiVars
    PROVE  ShownIsSeen'
  <1>1. CASE PipeThread
    <2>1. /\ UNCHANGED <<request, answer, at>>
          /\ rolled' = (at # "idle" /\ (rolled \/ ~Keeps(view, view')))
      BY <1>1, Zenon DEF PipeThread
    <2>2. at = "idle" => request.path # "history"
      BY DEF Typed, Place, NoRequest
    <2>3. QED BY <2>1, <2>2 DEF ShownIsSeen, Keeps
  <1>2. CASE Handler
    <2>1. /\ request' = request
          /\ ~rolled' => ~rolled /\ Keeps(view, view')
      BY <1>2, HandlerFrame
    <2>2. CASE answer' = answer
      BY <2>1, <2>2 DEF ShownIsSeen, Keeps
    <2>3. CASE answer' # answer /\ request.path = "history"
      <3>1. at = "history"
        <4>1. at # "idle" /\ at # "done"
          BY <1>2, HandlerIsBusy
        <4>2. QED BY <2>3, <4>1 DEF Typed, Place
      <3>2. /\ HistoryRows # {}
            /\ answer' = [answer EXCEPT !.samples = Append(@, First(HistoryRows))]
        <4>1. QuerySensorHistory
          BY <1>2, <3>1, OnlyHistory
        <4>2. QED BY <2>3, <4>1, Zenon DEF QuerySensorHistory, Statement, Step, Reads
      <3>3. First(HistoryRows) \in Time /\ <<request.sensor, First(HistoryRows)>> \in view.samples
        BY <3>1, <3>2, FirstIsThere DEF Typed, HistoryRows
      <3>4. Shown' = Shown \cup {First(HistoryRows)}
        BY <3>2, <3>3, ShownGrows DEF Typed, ReaderType
      <3>5. ~rolled' => \A t \in Shown' : <<request.sensor, t>> \in view.samples
        BY <2>1, <2>3, <3>3, <3>4, ShownIsSeenOf
      <3>6. ~rolled' => \A i \in DOMAIN answer'.samples :
                            <<request.sensor, answer'.samples[i]>> \in view.samples
        BY <3>5 DEF Shown
      <3>7. QED BY <2>1, <3>6 DEF ShownIsSeen, Keeps
    <2>4. QED BY <2>1, <2>2, <2>3 DEF ShownIsSeen
  <1>3. CASE \E r \in Requests : Receive(r)
    BY <1>3 DEF Receive, NoAnswer, ShownIsSeen
  <1>4. CASE Forget
    BY <1>4 DEF Forget, NoRequest, ShownIsSeen
  <1>5. CASE UNCHANGED <<vars, reader>>
    BY <1>5 DEF vars, reader, ShownIsSeen
  <1>6. QED BY <1>1, <1>2, <1>3, <1>4, <1>5, ApiSteps

(* Rows of a message that is still being stored may be shown; unless they   *)
(* were rolled back they are in the file once no transaction is open,       *)
(* whatever failed meanwhile.                                               *)
THEOREM ShownRowsAreStored == ApiSpec => []ShownIsStored
  <1>1. ApiInit => ShownIsSeen
    BY DEF ApiInit, NoRequest, ShownIsSeen
  <1>2. ApiSpec => []ShownIsSeen
    BY <1>1, NextShownIsSeen, TypedInvariant, PTL DEF ApiSpec
  <1>3. Typed /\ ShownIsSeen => ShownIsStored
    BY DEF Typed, StoreOK, TransactionOwned, ShownIsSeen, ShownIsStored
  <1>4. QED BY <1>2, <1>3, TypedInvariant, PTL

-----------------------------------------------------------------------------
(* The order in which a message is stored dates it: the machine first, then *)
(* the bridge's last sample, then the samples.                              *)
Dated(db) ==
    /\ db.health[Bridge].sample <= db.machine.last
    /\ \A p \in db.samples : p[2] <= db.health[Bridge].sample

StoreDated ==
    /\ Dated(view) /\ Dated(committed)
    /\ pc = "collector" => SampleTime(msg) <= view.machine.last
    /\ pc = "rows" => SampleTime(msg) <= view.health[Bridge].sample

LEMMA SampleIsSeen ==
    ASSUME NEW m \in Incoming
    PROVE  /\ SampleTime(m) <= SeenTime(m)
           /\ SampleTime(m) \in Nat /\ SeenTime(m) \in Nat
           /\ m.kind = "sample_batch" => SampleTime(m) = m.sampled
  <1>1. SampleTime(m) = NoTime \/ SampleTime(m) = SeenTime(m)
    BY DEF SampleTime, SeenTime
  <1>2. SampleTime(m) \in Nat /\ SeenTime(m) \in Nat
    BY MessageFields, SeenTimeIsTime, TimesAreNaturals
  <1>3. QED BY <1>1, <1>2 DEF SampleTime, NoTime

LEMMA MachineStmtDated ==
    ASSUME NEW db \in Database, NEW m \in Incoming, Dated(db)
    PROVE  Dated(MachineStmt(db, m)) /\ SampleTime(m) <= MachineStmt(db, m).machine.last
  <1> DEFINE r == UpsertMachine(db.machine, SeenTime(m))
  <1>1. db.machine.last <= r.last /\ SeenTime(m) <= r.last /\ r \in SeenRow
    BY UpsertMachineType, SeenTimeIsTime DEF Database
  <1>2. MachineStmt(db, m) = [db EXCEPT !.machine = r]
    BY DEF MachineStmt, UpsertMachineFor
  <1> HIDE DEF r
  <1>3. /\ MachineStmt(db, m).machine = r /\ MachineStmt(db, m).health = db.health
        /\ MachineStmt(db, m).samples = db.samples
    BY <1>2 DEF Database
  <1>4. /\ db.health[Bridge].sample \in Nat /\ db.machine.last \in Nat /\ r.last \in Nat
    BY <1>1, DatabaseTimes, TimesAreNaturals DEF Sources
  <1>5. QED BY <1>1, <1>3, <1>4, SampleIsSeen DEF Dated

LEMMA CollectorStmtDated ==
    ASSUME NEW db \in Database, NEW m \in Incoming, Dated(db),
           SampleTime(m) <= db.machine.last
    PROVE  /\ Dated(CollectorStmt(db, m))
           /\ SampleTime(m) <= CollectorStmt(db, m).health[Bridge].sample
  <1> DEFINE r == UpsertCollectorFor(db.health[Bridge], m)
             new == CollectorStmt(db, m)
  <1>1. new.health[Bridge] = r /\ new.machine = db.machine /\ new.samples = db.samples
    BY DEF CollectorStmt, Database, Sources
  <1>2. r.sample = Later(db.health[Bridge].sample, SampleTime(m))
    BY DEF UpsertCollectorFor, UpsertCollector
  <1>3. /\ db.health[Bridge].sample \in Nat /\ db.machine.last \in Nat
        /\ SampleTime(m) \in Nat /\ \A p \in db.samples : p[2] \in Nat
    BY DatabaseTimes, TimesAreNaturals, SampleIsSeen DEF Sources, Database
  <1> HIDE DEF new, r
  <1>4. QED BY <1>1, <1>2, <1>3 DEF Dated, Later, new

LEMMA RowStmtDated ==
    ASSUME NEW db \in Database, NEW m \in Incoming, NEW s \in Sensors, Dated(db),
           SampleTime(m) <= db.health[Bridge].sample
    PROVE  /\ m.kind = "sample_batch" => /\ Dated(SensorSampleStmt(db, m, s))
                                         /\ SensorSampleStmt(db, m, s).health = db.health
           /\ /\ Dated(CatalogSensorStmt(db, m, s))
              /\ CatalogSensorStmt(db, m, s).health = db.health
  <1>1. /\ CatalogSensorStmt(db, m, s).health = db.health
        /\ Dated(CatalogSensorStmt(db, m, s))
    BY DEF CatalogSensorStmt, Database, Dated
  <1>2. ASSUME m.kind = "sample_batch"
        PROVE  /\ Dated(SensorSampleStmt(db, m, s))
               /\ SensorSampleStmt(db, m, s).health = db.health
    <2>1. m.sampled <= db.health[Bridge].sample
      BY <1>2, SampleIsSeen
    <2>2. QED BY <2>1 DEF SensorSampleStmt, Database, Dated
  <1>3. QED BY <1>1, <1>2

LEMMA NextStoreDated ==
    ASSUME AutoRollback = FALSE, StoreOK, StoreDated, [ApiNext]_apiVars
    PROVE  StoreDated'
  <1> USE DEF StoreOK, TypeOK, Busy
  <1>1. CASE UNCHANGED <<committed, view>> /\ pc' \notin {"collector", "rows"}
    BY <1>1 DEF StoreDated, Dated
  <1>2. CASE UNCHANGED <<committed, view, pc, msg>>
    BY <1>2 DEF StoreDated, Dated
  <1>3. CASE HandlerFails
    BY <1>2, <1>3 DEF HandlerFails, Fails, pipe
  <1>4. CASE \E m \in Incoming : PipeReceive(m)
    BY <1>1, <1>4 DEF PipeReceive, conn
  <1>5. CASE Begin
    BY <1>1, <1>5 DEF Begin, Fails, conn
  <1>6. CASE UpsertMachineStep
    <2>1. CASE Fails BY <1>1, <1>6, <2>1 DEF UpsertMachineStep, Fails, Succeeds
    <2>2. CASE ~Fails
      <3>1. /\ pc = "machine" /\ pc' = "collector" /\ msg' = msg
            /\ Succeeds(MachineStmt(view, msg)) /\ msg \in Incoming
        BY <1>6, <2>2 DEF UpsertMachineStep, PipeFrame
      <3>2. Dated(view') /\ SampleTime(msg) <= view'.machine.last
        BY <3>1, MachineStmtDated DEF Succeeds, StoreDated
      <3>3. committed' \in {committed, view'}
        BY <3>1 DEF Succeeds
      <3>4. QED BY <3>1, <3>2, <3>3 DEF StoreDated, Dated
    <2>3. QED BY <2>1, <2>2
  <1>7. CASE UpsertCollectorStep
    <2>1. CASE Fails BY <1>1, <1>7, <2>1 DEF UpsertCollectorStep, Fails, Succeeds
    <2>2. CASE ~Fails
      <3>1. /\ pc = "collector" /\ pc' = "rows" /\ msg' = msg
            /\ Succeeds(CollectorStmt(view, msg)) /\ msg \in Incoming
        BY <1>7, <2>2 DEF UpsertCollectorStep, PipeFrame
      <3>2. Dated(view') /\ SampleTime(msg) <= view'.health[Bridge].sample
        BY <3>1, CollectorStmtDated DEF Succeeds, StoreDated
      <3>3. committed' \in {committed, view'}
        BY <3>1 DEF Succeeds
      <3>4. QED BY <3>1, <3>2, <3>3 DEF StoreDated, Dated
    <2>3. QED BY <2>1, <2>2
  <1>8. CASE RowStep
    <2>1. CASE Fails BY <1>1, <1>8, <2>1 DEF RowStep, Fails, Succeeds
    <2>2. CASE ~Fails
      <3> DEFINE db == IF msg.kind = "catalog_snapshot"
                         THEN CatalogSensorStmt(view, msg, msg.rows[row])
                         ELSE SensorSampleStmt(view, msg, msg.rows[row])
      <3>1. /\ pc = "rows" /\ pc' = "rows" /\ msg' = msg /\ HasRows
            /\ Succeeds(db) /\ msg \in Incoming /\ msg.rows[row] \in Sensors
        BY <1>8, <2>2, RowSensor DEF RowStep, PipeFrame
      <3>2. Dated(db) /\ db.health = view.health
        BY <3>1, RowStmtDated DEF StoreDated, HasRows
      <3> HIDE DEF db
      <3>3. /\ Dated(view') /\ view'.health = view.health
            /\ committed' \in {committed, view'}
        BY <3>1, <3>2 DEF Succeeds
      <3>4. QED BY <3>1, <3>3 DEF StoreDated, Dated
    <2>3. QED BY <2>1, <2>2
  <1>9. CASE Commit
    <2>1. CASE pc' = "rollback" BY <1>1, <1>9, <2>1 DEF Commit, CommitFrame, Fails, conn
    <2>2. CASE pc' # "rollback"
      <3>1. pc' = "idle" /\ committed' = view /\ view' = view
        BY <1>9, <2>2 DEF Commit, CommitFrame
      <3>2. QED BY <3>1 DEF StoreDated, Dated
    <2>3. QED BY <2>1, <2>2
  <1>10. CASE Rollback
    BY <1>10 DEF Rollback, RolledBack, StoreDated, Dated
  <1>11. CASE UNCHANGED vars
    BY <1>2, <1>11 DEF vars
  <1>12. CASE PipeThread
    BY <1>4, <1>5, <1>6, <1>7, <1>8, <1>9, <1>10, <1>12 DEF PipeThread, PipeStep
  <1>13. QED
    BY <1>3, <1>11, <1>12, ApiSteps, HandlerFrame DEF Receive

(* Each part of an answer is no newer than what the next part is read from. *)
AgreeSoFar ==
    (~spoilt /\ ~rolled) =>
      /\ request.path = "status" =>
           /\ at = "machine" => answer.health <= view.machine.last
           /\ at = "done" => answer.health <= answer.machine
      /\ request.path = "snapshot" =>
           /\ at # "done" => \A k \in Metrics : answer.system[k] <= view.health[Bridge].sample
           /\ at = "done" => \A k \in Metrics : answer.system[k] <= answer.health

LEMMA ReadTimes ==
    ASSUME Typed
    PROVE  /\ answer.health \in Nat /\ answer.machine \in Nat
           /\ \A k \in Metrics : answer.system[k] \in Nat
           /\ view.machine.last \in Nat /\ view.health[Bridge].sample \in Nat
  <1>1. view \in Database
    BY DEF Typed, StoreOK, TypeOK
  <1>2. answer \in Answers
    BY DEF Typed, ReaderType
  <1>3. QED
    BY <1>1, <1>2, DatabaseTimes, TimesAreNaturals DEF Answers, Readings, Sources

LEMMA WhichStatement ==
    ASSUME Handler
    PROVE  /\ at = "health" => QueryCollectorHealth
           /\ at = "machine" => QueryMachineCatalog
           /\ at = "system" => QueryLatestSystem
           /\ at \in {"gpu", "ollama"} => QueryLatestGpu \/ QueryLatestOllama
  <1> USE DEF Handler, QueryCollectorHealth, QueryMachineCatalog, QuerySensorCatalog,
              QuerySensorHistory, QueryLatestSystem, QueryLatestGpu, QueryLatestOllama,
              Statement, Step
  <1>1. at = "health" => QueryCollectorHealth
    BY Zenon
  <1>2. at = "machine" => QueryMachineCatalog
    BY Zenon
  <1>3. at = "system" => QueryLatestSystem
    BY Zenon
  <1>4. at = "gpu" => QueryLatestGpu
    BY Zenon
  <1>5. at = "ollama" => QueryLatestOllama
    BY Zenon
  <1> HIDE DEF QueryCollectorHealth, QueryMachineCatalog, QueryLatestSystem,
               QueryLatestGpu, QueryLatestOllama
  <1>6. QED BY <1>1, <1>2, <1>3, <1>4, <1>5

LEMMA StatusAgrees ==
    ASSUME Typed, StoreDated, AgreeSoFar, Handler, request.path = "status", ~spoilt',
           ~rolled', ~spoilt, ~rolled
    PROVE  AgreeSoFar'
  <1> USE DEF Statement, Step, Reads
  <1>1. request' = request /\ view' = view
    BY HandlerFrame DEF vars
  <1>2. at \in {"health", "machine"}
    BY HandlerIsBusy DEF Typed, Place
  <1>3. answer \in Answers
    BY DEF Typed, ReaderType
  <1>4. CASE at = "health"
    <2>1. at' = "machine"
      BY <1>4, HandlerMoves, AfterPlace DEF Typed
    <2>2. answer' = [answer EXCEPT !.health = view.health[Bridge].sample]
      BY <1>4, WhichStatement, Zenon DEF QueryCollectorHealth
    <2>3. answer'.health = view.health[Bridge].sample
      BY <1>3, <2>2 DEF Answers
    <2>4. QED BY <1>1, <2>1, <2>3 DEF AgreeSoFar, StoreDated, Dated
  <1>5. CASE at = "machine"
    <2>1. at' = "done"
      BY <1>5, HandlerMoves, AfterPlace DEF Typed
    <2>2. answer' = [answer EXCEPT !.machine = view.machine.last]
      BY <1>5, WhichStatement, Zenon DEF QueryMachineCatalog
    <2>3. answer'.machine = view.machine.last /\ answer'.health = answer.health
      BY <1>3, <2>2 DEF Answers
    <2>4. QED BY <1>1, <1>5, <2>1, <2>3 DEF AgreeSoFar
  <1>6. QED BY <1>2, <1>4, <1>5

LEMMA SnapshotAgrees ==
    ASSUME Typed, StoreDated, AgreeSoFar, Handler, request.path = "snapshot", ~spoilt',
           ~rolled', ~spoilt, ~rolled
    PROVE  AgreeSoFar'
  <1> USE DEF Statement, Step, Reads
  <1>1. request' = request /\ view' = view
    BY HandlerFrame DEF vars
  <1>2. at \in {"system", "gpu", "ollama", "health"}
    BY HandlerIsBusy DEF Typed, Place
  <1>3. answer \in Answers
    BY DEF Typed, ReaderType
  <1>4. \A k \in Metrics : answer.system[k] <= view.health[Bridge].sample
    BY <1>2 DEF AgreeSoFar
  <1>5. CASE at = "health"
    <2>1. at' = "done"
      BY <1>5, HandlerMoves, AfterPlace DEF Typed
    <2>2. answer' = [answer EXCEPT !.health = view.health[Bridge].sample]
      BY <1>5, WhichStatement, Zenon DEF QueryCollectorHealth
    <2>3. answer'.health = view.health[Bridge].sample /\ answer'.system = answer.system
      BY <1>3, <2>2 DEF Answers
    <2>4. QED BY <1>1, <1>4, <2>1, <2>3 DEF AgreeSoFar
  <1>6. CASE at \in {"gpu", "ollama"}
    <2>1. at' \in {"ollama", "health"}
      BY <1>6, HandlerMoves, AfterPlace DEF Typed
    <2>2. answer' = answer
      BY <1>6, WhichStatement, Zenon DEF QueryLatestGpu, QueryLatestOllama
    <2>3. QED BY <1>1, <1>4, <2>1, <2>2 DEF AgreeSoFar
  <1>7. CASE at = "system"
    <2>1. at' \in {"system", "gpu"}
      BY <1>7, HandlerMoves, AfterPlace DEF Typed
    <2>2. answer' = answer \/ \E s \in answer.rest : answer' = SystemRow(s)
      BY <1>7, WhichStatement, Zenon DEF QueryLatestSystem
    <2>3. ASSUME NEW s \in answer.rest, answer' = SystemRow(s), NEW k \in Metrics
          PROVE  answer'.system[k] <= view.health[Bridge].sample
      <3>1. s \in Sensors
        BY <1>3 DEF Answers
      <3>2. \/ answer'.system[k] = answer.system[k]
            \/ <<s, answer'.system[k]>> \in view.samples
        BY <1>3, <2>3, <3>1, SystemRowType DEF Typed, StoreOK, TypeOK, RowsBounded
      <3>3. QED BY <1>4, <3>2 DEF StoreDated, Dated
    <2>4. QED BY <1>1, <1>4, <2>1, <2>2, <2>3 DEF AgreeSoFar
  <1>8. QED BY <1>2, <1>5, <1>6, <1>7

LEMMA NextAgreeSoFar ==
    ASSUME Typed, StoreDated, AgreeSoFar, [ApiNext]_apiVars
    PROVE  AgreeSoFar'
  <1>1. CASE PipeThread
    <2>1. /\ UNCHANGED <<at, request, answer, spoilt>>
          /\ rolled' = (at # "idle" /\ (rolled \/ ~Keeps(view, view')))
      BY <1>1, Zenon DEF PipeThread
    <2>2. at = "idle" => request.path = "none"
      BY DEF Typed, Place, NoRequest
    <2>3. Keeps(view, view') => /\ view.machine.last <= view'.machine.last
                                /\ view.health[Bridge].sample <= view'.health[Bridge].sample
      BY DEF Keeps, Sources
    <2>4. view'.machine.last \in Nat /\ view'.health[Bridge].sample \in Nat
      <3>1. view' \in Database
        BY NextStoreOK DEF Typed, StoreOK, TypeOK
      <3>2. QED BY <3>1, DatabaseTimes DEF Sources
    <2>5. CASE spoilt \/ rolled' \/ at = "idle"
      BY <2>1, <2>2, <2>5 DEF AgreeSoFar
    <2>6. CASE ~spoilt /\ ~rolled' /\ at # "idle"
      <3>1. ~rolled /\ Keeps(view, view')
        BY <2>1, <2>6, Zenon
      <3>2. QED BY <2>1, <2>3, <2>4, <2>6, <3>1, ReadTimes DEF AgreeSoFar
    <2>7. QED BY <2>5, <2>6
  <1>2. CASE Handler
    <2>1. request' = request /\ (spoilt' = spoilt \/ spoilt' = TRUE)
      BY <1>2, HandlerFrame
    <2>2. rolled' = (rolled \/ ~Keeps(view, view'))
      BY <1>2, HandlerFrame
    <2>3. ~rolled' => ~rolled
      BY <2>2, Zenon
    <2>4. ~spoilt' => ~spoilt
      BY <2>1
    <2>5. request' = request /\ (~spoilt' => ~spoilt) /\ (~rolled' => ~rolled)
      BY <2>1, <2>3, <2>4, Zenon
    <2>6. CASE spoilt' \/ rolled'
      BY <2>6 DEF AgreeSoFar
    <2>7. CASE request.path \notin {"status", "snapshot"}
      BY <2>5, <2>7 DEF AgreeSoFar
    <2>8. QED BY <1>2, <2>5, <2>6, <2>7, StatusAgrees, SnapshotAgrees
  <1>3. ASSUME NEW r \in Requests, Receive(r) PROVE AgreeSoFar'
    <2>1. /\ at' # "done" /\ request' = r /\ answer' = NoAnswer /\ view' = view
          /\ r.path = "status" => at' = "health"
      BY <1>3, FirstStatement DEF Receive, vars
    <2>2. \A k \in Metrics : answer'.system[k] = 0
      BY <2>1 DEF NoAnswer, NoReadings, NoTime
    <2>3. QED BY <2>1, <2>2, ReadTimes DEF AgreeSoFar
  <1>4. CASE Forget
    BY <1>4 DEF Forget, NoRequest, AgreeSoFar
  <1>5. CASE UNCHANGED <<vars, reader>>
    BY <1>5 DEF vars, reader, AgreeSoFar
  <1>6. QED BY <1>1, <1>2, <1>3, <1>4, <1>5, ApiSteps

(* While failing statements leave the transaction open: the parts of an      *)
(* answer agree, whatever the pipe thread stores between the statements      *)
(* that read them, unless a message is taken back in between.  The machine   *)
(* was last seen no earlier than the last sample beside it, and no reading   *)
(* of a snapshot is newer than the last sample that dates it.                *)
THEOREM PartsOfAnswersAgree ==
    ASSUME AutoRollback = FALSE PROVE ApiSpec => []AnswersAgree
  <1>1. ApiInit => StoreDated /\ AgreeSoFar
    BY DEF ApiInit, Init, StoreDated, Dated, AgreeSoFar, NoRequest, EmptyDatabase,
           NoCollector, NoSeen, Sources, Bridge, NoTime
  <1>2. Typed /\ StoreDated /\ [ApiNext]_apiVars => StoreDated'
    BY NextStoreDated DEF Typed
  <1>3. ApiSpec => [](StoreDated /\ AgreeSoFar)
    BY <1>1, <1>2, NextAgreeSoFar, TypedInvariant, PTL DEF ApiSpec
  <1>4. AgreeSoFar => AnswersAgree
    BY DEF AgreeSoFar, AnswersAgree, Answered
  <1>5. QED BY <1>3, <1>4, PTL
=============================================================================

------------------------------ MODULE ApiReads ------------------------------
(* The GET handlers of http_server.cpp on the connection that the collectors *)
(* and the pipe thread write on, and SnapshotPusher, which gets one of the   *)
(* answers from the agent itself and posts it to another host.               *)
(*                                                                           *)
(* A handler makes several statements, and a statement that SQLite need not  *)
(* sort makes several steps: each is atomic, and any other thread's          *)
(* statements come between them, those inside its transaction included.      *)
(* Requests only read, so one at a time shows all that they can see.         *)
EXTENDS TelemetryStore, SequencesExt

CONSTANTS
    HardwareType, SensorType,   \* of each sensor, from the catalogue
    Named,          \* of each sensor: the word its name has, "Total" or "Used"
    AnyType,            \* a filter that was not given
    Asked,          \* what callers give as limit
    DefaultLimit, LargestLimit,   \* 500 and 10000 rows
    MaxFaults       \* bound: failures of the network and of the remote host

ASSUME ApiAssumption ==
    /\ Asked \subseteq Int
    /\ DefaultLimit \in Nat \ {0} /\ LargestLimit \in Nat \ {0}
    /\ MaxFaults \in Nat

VARIABLES
    at,        \* the next statement of the handler, "idle" or "done"
    request,   \* what was asked for
    answer,    \* the rows and times collected so far
    known,     \* what the file had when the request came
    rolled,    \* something the connection showed was taken back since
    spoilt,    \* a statement of this request failed
    pushing,   \* are the requests those of a SnapshotPusher?
    pushPc, body,        \* its thread and what it got
    remote, late, remoteUp, faults   \* the other host, and a post under way to it

reader == <<at, request, answer, known, rolled, spoilt>>
push == <<pushing, pushPc, body, remote, late, remoteUp, faults>>
apiVars == <<vars, reader, push>>

Metrics == {"cpu_package_c", "cpu_total_load_pct", "memory_used_bytes"}
NoReadings == [k \in Metrics |-> NoTime]
NoAnswer == [health |-> NoTime, machine |-> NoTime, sensors |-> {}, samples |-> <<>>,
             system |-> NoReadings, rest |-> Sensors]
NoRequest == [path |-> "none"]
Nothing == [sensors |-> {}, samples |-> {}]

HardwareTypes == {HardwareType[s] : s \in Sensors} \cup {AnyType}
SensorTypes == {SensorType[s] : s \in Sensors} \cup {AnyType}

(* The limit is set right before the query; a range without a row in it is   *)
(* not asked for here.                                                       *)
Limit(asked) == IF asked <= 0 THEN DefaultLimit
                ELSE IF asked > LargestLimit THEN LargestLimit ELSE asked

Requests == {r \in [path : {"history"}, sensor : Sensors, from : Time, to : Time,
                   limit : {Limit(asked) : asked \in Asked}] : r.from <= r.to}
                \cup [path : {"catalog"}, hardware_type : HardwareTypes,
                     sensor_type : SensorTypes]
                \cup [path : {"status", "snapshot"}]

-----------------------------------------------------------------------------
(* A step of a SELECT changes nothing; one that fails ends the rows without  *)
(* a word to the caller.                                                     *)
Reads(done) ==
    \/ done /\ UNCHANGED <<vars, spoilt>>
    \/ /\ Fails
       /\ UNCHANGED <<pipe, gpu, ollama, messages, polls, crashes, outcome, base,
                      acked, txns, answer>>
       /\ spoilt' = TRUE

(* The statements of each handler, in order; the paths of those with one are *)
(* its name.  Mutant: /v1/status asks for the machine first.                 *)
StatementsSwapped(path) ==
    CASE path = "status"   -> <<"machine", "health">>
      [] path = "snapshot" -> <<"system", "gpu", "ollama", "health">>
      [] OTHER             -> <<path>>

Statements(path) ==
    CASE path = "status"   -> <<"health", "machine">>
      [] path = "snapshot" -> <<"system", "gpu", "ollama", "health">>
      [] OTHER             -> <<path>>

After(statement) ==
    LET rest == SelectInSeq(Statements(request.path), LAMBDA x : x = statement) + 1
    IN IF rest > Len(Statements(request.path)) THEN "done" ELSE Statements(request.path)[rest]

Step(here, next, done) ==
    /\ at = here
    /\ Reads(done)
    /\ at' = next
    /\ rolled' = (rolled \/ ~Keeps(view, view'))
    /\ UNCHANGED <<request, known, push>>

Statement(here, done) == at = here /\ Step(here, After(here), done)

Receive(r) ==
    /\ at = "idle"
    /\ at' = Statements(r.path)[1]
    /\ request' = r
    /\ answer' = NoAnswer
    /\ known' = IF r.path \in {"status", "snapshot"} THEN Nothing ELSE
                [sensors |-> {s \in Sensors : IsCatalogued(committed.catalog, s)},
                 samples |-> committed.samples]
    /\ rolled' = FALSE /\ spoilt' = FALSE
    /\ UNCHANGED vars

(* The answer is out and the caller may ask again.                           *)
Forget == /\ at' = "idle" /\ request' = NoRequest /\ answer' = NoAnswer
          /\ known' = Nothing /\ rolled' = FALSE /\ spoilt' = FALSE

-----------------------------------------------------------------------------
(* collector_health, of whose rows the bridge's is kept.                     *)
QueryCollectorHealth ==
    Statement("health", answer' = [answer EXCEPT !.health = view.health[Bridge].sample])

QueryMachineCatalog ==
    Statement("machine", answer' = [answer EXCEPT !.machine = view.machine.last])

(* One placeholder for each filter that is given, and what is bound to them. *)
Given(c) == IF request[c] # AnyType THEN <<c>> ELSE <<>>

Conditions == Given("hardware_type") \o Given("sensor_type")

Bound == [i \in DOMAIN Conditions |-> request[Conditions[i]]]

(* ORDER BY has SQLite read all rows before it gives the first one.          *)
QuerySensorCatalog ==
    LET Column(s) == [hardware_type |-> HardwareType[s], sensor_type |-> SensorType[s]]
        Match(s) == \A i \in DOMAIN Conditions : Column(s)[Conditions[i]] = Bound[i]
    IN Statement("catalog", answer' = [answer EXCEPT
            !.sensors = {s \in Sensors : IsCatalogued(view.catalog, s) /\ Match(s)}])

(* Mutants: rows of every sensor; oldest rows first.                         *)
HistoryRowsOfAll ==
    {t \in Time : /\ \E s \in Sensors : <<s, t>> \in view.samples
                  /\ request.from <= t /\ t <= request.to
                  /\ \A i \in DOMAIN answer.samples : t < answer.samples[i]}

FirstOldest(rows) == Min(rows)

(* The rows of a sensor in the order of the index, newest first: a step gives *)
(* the next one there is now before the last one given.                      *)
HistoryRows ==
    {t \in Time : /\ <<request.sensor, t>> \in view.samples
                  /\ request.from <= t /\ t <= request.to
                  /\ \A i \in DOMAIN answer.samples : t < answer.samples[i]}

First(rows) == Max(rows)

QuerySensorHistory ==
    /\ at = "history"
    /\ LET more == HistoryRows # {} /\ Len(answer.samples) < request.limit
       IN \/ more /\ Step("history", "history", answer' =
                 [answer EXCEPT !.samples = Append(@, First(HistoryRows))]) /\ ~spoilt'
          \/ Statement("history", ~more /\ UNCHANGED answer)

(* Which figure of the snapshot a sensor of the machine gives, if any.       *)
Metric(s) == CASE HardwareType[s] = "Cpu" /\ SensorType[s] = "Temperature" -> "cpu_package_c"
               [] /\ HardwareType[s] = "Cpu" /\ SensorType[s] = "Load"
                  /\ Named[s] = "Total" -> "cpu_total_load_pct"
               [] /\ HardwareType[s] = "Memory" /\ SensorType[s] = "Data"
                  /\ Named[s] = "Used" -> "memory_used_bytes"
               [] OTHER -> "none"

(* latest_sensor_samples, zero for none.                                     *)
Latest(s) == Max({p[2] : p \in {q \in view.samples : q[1] = s}} \cup {NoTime})

(* The system rows come one by one, the view evaluated as they are asked for; *)
(* which CPU temperature is first is up to the query plan, and the later     *)
(* ones are not taken.                                                       *)
SystemRow(s) ==
    LET k == Metric(s)
        taken == k = "cpu_package_c" /\ answer.system[k] # NoTime
        there == k # "none" /\ Latest(s) # NoTime /\ IsCatalogued(view.catalog, s)
    IN [answer EXCEPT !.rest = @ \ {s},
          !.system = IF there /\ ~taken THEN [@ EXCEPT ![k] = Latest(s)] ELSE @]

QueryLatestSystem ==
    \/ \E s \in answer.rest : Step("system", "system", answer' = SystemRow(s)) /\ ~spoilt'
    \/ Statement("system", answer.rest = {} /\ UNCHANGED answer)

(* gpu_samples and ollama_runtime_samples, whose rows no property here is    *)
(* about.                                                                    *)
QueryLatestGpu == Statement("gpu", UNCHANGED answer)
QueryLatestOllama == Statement("ollama", UNCHANGED answer)

Handler == \/ QueryCollectorHealth \/ QueryMachineCatalog \/ QuerySensorCatalog
           \/ QuerySensorHistory \/ QueryLatestSystem \/ QueryLatestGpu
           \/ QueryLatestOllama

-----------------------------------------------------------------------------
(* SnapshotPusher.  A request to the agent or to the remote host may fail, a *)
(* post may time out and reach the host later, or not at all.                *)
Caller ==
    \/ ~pushing /\ (\E r \in Requests : Receive(r)) /\ UNCHANGED push
    \/ ~pushing /\ at = "done" /\ Forget /\ UNCHANGED <<vars, push>>

PushGet ==
    /\ pushing /\ pushPc = "wait"
    /\ Receive([path |-> "snapshot"])
    /\ pushPc' = "get"
    /\ UNCHANGED <<pushing, body, remote, late, remoteUp, faults>>

Fault == faults < MaxFaults /\ faults' = faults + 1

(* Mutant: the answer is not looked at, and may be another page.              *)
PushGotAnything ==
    /\ pushPc = "get"
    /\ \/ at = "done" /\ body' = answer.system /\ UNCHANGED faults
       \/ Fault /\ body' = AnyType
    /\ pushPc' = "post"
    /\ Forget
    /\ UNCHANGED <<vars, pushing, remote, late, remoteUp>>

PushGot ==
    /\ pushPc = "get"
    /\ \/ /\ at = "done"
          /\ body' = answer.system
          /\ pushPc' = "post"
          /\ UNCHANGED faults
       \/ /\ Fault
          /\ pushPc' = "wait"
          /\ UNCHANGED body
    /\ Forget
    /\ UNCHANGED <<vars, pushing, remote, late, remoteUp>>

(* Mutant: the loop ends with the first push that fails.                     *)
PushPostOnce ==
    /\ pushPc = "post"
    /\ \/ remoteUp /\ remote' = body /\ pushPc' = "wait" /\ UNCHANGED <<late, faults>>
       \/ ~remoteUp /\ pushPc' = "end" /\ UNCHANGED <<remote, late, faults>>
       \/ Fault /\ late' = body /\ pushPc' = "end" /\ UNCHANGED remote
    /\ body' = NoReadings
    /\ UNCHANGED <<vars, reader, pushing, remoteUp>>

(* PushOnce's result is not read: whatever came of it, the loop sleeps until *)
(* the interval is over and pushes what there is then.                       *)
PushPost ==
    /\ pushPc = "post"
    /\ \/ remoteUp /\ remote' = body /\ UNCHANGED <<late, faults>>
       \/ ~remoteUp /\ UNCHANGED <<remote, late, faults>>
       \/ Fault /\ late' = body /\ UNCHANGED remote
    /\ pushPc' = "wait"
    /\ body' = NoReadings
    /\ UNCHANGED <<vars, reader, pushing, remoteUp>>

LatePost ==
    /\ late # NoReadings
    /\ late' = NoReadings
    /\ remote' \in {late, remote}
    /\ UNCHANGED <<vars, reader, pushing, pushPc, body, remoteUp, faults>>

RemoteGoes == pushing /\ remoteUp /\ Fault /\ remoteUp' = FALSE
                /\ UNCHANGED <<vars, reader, pushing, pushPc, body, remote, late>>
RemoteComes == ~remoteUp /\ remoteUp' = TRUE
                /\ UNCHANGED <<vars, reader, pushing, pushPc, body, remote, late, faults>>

-----------------------------------------------------------------------------
(* The pipe thread: a statement, or a rollback that takes rows back.  The    *)
(* collectors write tables that no answer here shows; a restart, which ends  *)
(* the request and the push with the process, is left to TelemetryStore.     *)
PipeThread ==
    /\ (\E m \in Incoming : PipeReceive(m)) \/ PipeStep
    /\ rolled' = (at # "idle" /\ (rolled \/ ~Keeps(view, view')))
    /\ UNCHANGED <<at, request, answer, known, spoilt, push>>

ApiInit ==
    /\ Init
    /\ at = "idle" /\ request = NoRequest /\ answer = NoAnswer
    /\ known = Nothing /\ rolled = FALSE /\ spoilt = FALSE
    /\ pushing \in BOOLEAN /\ pushPc = "wait" /\ body = NoReadings
    /\ remote = NoReadings /\ late = NoReadings /\ remoteUp = TRUE /\ faults = 0

Pusher == PushGet \/ PushGot \/ PushPost

ApiNext == \/ PipeThread \/ Handler \/ Caller \/ Pusher \/ LatePost
           \/ RemoteGoes \/ RemoteComes

(* The threads of the server and of the pusher wait for nothing but the      *)
(* mutex and the time-outs of their own requests, and the remote host is not *)
(* left down for ever.                                                       *)
ApiSpec == ApiInit /\ [][ApiNext]_apiVars
             /\ WF_apiVars(Handler) /\ WF_apiVars(Pusher) /\ WF_apiVars(RemoteComes)

-----------------------------------------------------------------------------
Readings == [Metrics -> Time \cup {NoTime}]

ApiTypeOK ==
    /\ TypeOK
    /\ at \in {"idle", "done", "health", "machine", "catalog", "history", "system", "gpu", "ollama"}
    /\ request \in Requests \cup {NoRequest}
    /\ answer.samples \in Seq(Time) /\ answer.sensors \subseteq Sensors
    /\ {answer.system, body, remote, late} \subseteq Readings
    /\ known \in [sensors : SUBSET Sensors, samples : SUBSET (Sensors \X Time)] /\ rolled \in BOOLEAN /\ spoilt \in BOOLEAN
    /\ pushPc \in {"wait", "get", "post"} /\ remoteUp \in BOOLEAN /\ faults \in 0 .. MaxFaults

Answered(path) == at = "done" /\ request.path = path

(* What a caller may conclude from an answer, however many rows were stored  *)
(* or taken back while it was made: a catalogue has every sensor of the kind *)
(* asked for that the file had when the request came and no other kind; a    *)
(* history has every sample of the range that the file had, newest first, or *)
(* down to the oldest it has if it is as long as the limit (QuerySensor-      *)
(* Catalog, QuerySensorHistory).  Only a failing step shortens it.            *)
AnswersAreComplete ==
    ~spoilt =>
      /\ Answered("catalog") =>
           LET Fits(s) == /\ request.hardware_type \in {AnyType, HardwareType[s]}
                          /\ request.sensor_type \in {AnyType, SensorType[s]}
           IN /\ \A s \in answer.sensors : Fits(s)
              /\ \A s \in Sensors : s \in known.sensors /\ Fits(s) => s \in answer.sensors
      /\ Answered("history") =>
           LET shown == {answer.samples[i] : i \in DOMAIN answer.samples}
               full == Len(answer.samples) = request.limit
           IN \A t \in request.from .. request.to :
                 <<request.sensor, t>> \in known.samples
                   => \/ t \in shown
                      \/ full /\ \A u \in shown : t < u

(* The parts of an answer agree, although each is read at its own time: the  *)
(* machine was last seen no earlier than the bridge's last sample beside it, *)
(* and no reading of a snapshot is newer than the last sample it is dated    *)
(* by.  Only a message taken back in between makes them differ.               *)
AnswersAgree ==
    (~spoilt /\ ~rolled) =>
      /\ Answered("status") => answer.health <= answer.machine
      /\ Answered("snapshot") => \A k \in Metrics : answer.system[k] <= answer.health

(* An answer may have samples of a message that is still being stored: they  *)
(* are of the sensor and the time asked for, and once the transaction is     *)
(* over they are in the file, unless it was rolled back.                      *)
ShownIsStored ==
    (request.path = "history" /\ ~rolled /\ ~inTxn) =>
        \A i \in DOMAIN answer.samples : <<request.sensor, answer.samples[i]>> \in committed.samples

(* Whatever pushes fail, time out or arrive late, and however long the       *)
(* remote host was away, it gets every reading that is in the file or a      *)
(* newer one, for the figures a single sensor gives: nothing is retried, but *)
(* the loop goes on (PushLoop).                                               *)
PushArrives ==
    \A s \in Sensors, t \in Time :
        (Metric(s) # "none" /\ \A r \in Sensors \ {s} : Metric(r) # Metric(s)) =>
            ((pushing /\ <<s, t>> \in committed.samples) ~> (remote[Metric(s)] >= t))
=============================================================================

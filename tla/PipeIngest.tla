------------------------------ MODULE PipeIngest ------------------------------
(***************************************************************************)
(* librehw_bridge (bridges/librehw_bridge/Program.cs), the named pipe, and *)
(* the pipe thread of host_agent (ipc/named_pipe_server_win32.cpp) down to *)
(* Service::HandlePipeMessage.                                             *)
(*                                                                         *)
(* The pipe is a byte stream: a line is written in pieces, a read returns  *)
(* any number of the bytes that are there, and a process may end between   *)
(* two of them.  A piece is <<m, part>>; a line is the pieces of Line(m),   *)
(* its \r, which the server strips, being part of the lf.                  *)
(* The store is the one AtomicIngest describes, which TelemetryStore       *)
(* implements.                                                             *)
(***************************************************************************)
EXTENDS StoreRows, Integers

CONSTANTS
    HardwareOrder,   \* the order in which LibreHardwareMonitor lists the sensors
    WireCapacity,    \* pieces the pipe buffers before a write blocks
    MaxFaults        \* bound: how many things may happen in all that no loop does

ASSUME PipeAssumption ==
    /\ HardwareOrder \in Seq(Sensors)
    /\ WireCapacity \in Nat \ {0}
    /\ MaxFaults \in Nat

(* What the bridge may build out of the sensors that are there.             *)
Message0(kind, t) == [kind |-> kind, sent |-> t, sampled |-> NoTime, rows |-> <<>>,
                      status |-> "ok"]
Listed(found) == SelectSeq(HardwareOrder, LAMBDA s : s \in found)
CatalogOf(rows, t) == [Message0("catalog_snapshot", t) EXCEPT !.rows = rows]
BatchOf(rows, t, now) == [Message0("sample_batch", t) EXCEPT !.sampled = now, !.rows = rows]

(* The messages that arrive are at least those that the bridge builds.      *)
ASSUME BuiltAssumption ==
    /\ Time # {}
    /\ \A t \in Time :
         /\ {Message0("hello", t), Message0("heartbeat", t)} \subseteq Incoming
         /\ \A found \in SUBSET Sensors :
              /\ CatalogOf(Listed(found), t) \in Incoming
              /\ \A now \in Time : BatchOf(Listed(found), t, now) \in Incoming

VARIABLES
    reading,      \* what LibreHardwareMonitor has for each sensor
    bpc, catalog, unsent,       \* the bridge: Main
    link, wire,                 \* the pipe instance, and the bytes in it
    spc, pending,               \* the server: NamedPipeServer::Run
    tables,                     \* the store
    changes, bridgeDeaths, agentDeaths, rejects, pipeErrors,   \* for the bounds
    announced,    \* history: sensors of the last catalogue sent on this connection
    greeting      \* history: the first two kinds handled on this connection

bridge == <<bpc, catalog, unsent>>
pipe   == <<link, wire>>
server == <<spc, pending>>
MayFault == changes + bridgeDeaths + agentDeaths + rejects + pipeErrors < MaxFaults
counts == <<changes, bridgeDeaths, agentDeaths, rejects, pipeErrors>>
vars   == <<reading, bpc, catalog, unsent, link, wire, spc, pending, tables,
            changes, bridgeDeaths, agentDeaths, rejects, pipeErrors, announced,
            greeting>>

Store == INSTANCE AtomicIngest

Readings == {"absent", "silent", "number", "nan"}
Parts    == {"head", "tail", "lf"}
Pieces   == Incoming \X Parts

Line(m)   == << <<m, "head">>, <<m, "tail">>, <<m, "lf">> >>
IsBreak(x) == x[2] = "lf"

(* ParseBridgeMessage accepts a line when it is one whole JSON object.      *)
IsMessage(line) == \E m \in Incoming : line = << <<m, "head">>, <<m, "tail">> >>
Parsed(line)    == line[1][1]

-----------------------------------------------------------------------------
(* The bridge.                                                              *)

(* LibreHardwareMonitor finds, loses or re-reads a sensor; float readings   *)
(* include NaN.                                                              *)
HardwareChanges ==
    /\ MayFault
    /\ changes' = changes + 1
    /\ \E s \in Sensors, r \in Readings : reading' = [reading EXCEPT ![s] = r]
    /\ UNCHANGED <<bridge, pipe, server, tables, bridgeDeaths, agentDeaths, rejects,
                   pipeErrors, announced, greeting>>

BuildHello(t)           == Message0("hello", t)
BuildHeartbeat(t)       == Message0("heartbeat", t)
BuildCatalogSnapshot(t) == CatalogOf(catalog, t)
BuildSampleBatch(t, now) ==
    BatchOf(Listed({s \in Sensors : reading[s] \in {"number", "nan"}}), t, now)

BuildCatalog == Listed({s \in Sensors : reading[s] # "absent"})

(* JsonSerializer throws on a NaN, before a byte is written. *)
Serializable(m) ==
    m.kind = "sample_batch" => \A s \in RowsOf(m) : reading[s] # "nan"

BridgeFrame == UNCHANGED <<reading, server, tables, counts, greeting>>

(* Accept, BuildCatalog, and Connect: an instance of the pipe is there      *)
(* between CreateNamedPipeW and ConnectNamedPipe, and takes one client.     *)
BridgeScan ==
    /\ bpc = "scan"
    /\ catalog' = BuildCatalog
    /\ bpc' = "connect"
    /\ UNCHANGED <<unsent, pipe, announced>>
    /\ BridgeFrame

BridgeConnect ==
    /\ bpc = "connect"
    /\ \/ /\ spc = "listen" /\ link = "none"
          /\ link' = "open"
          /\ announced' = {}
          /\ bpc' = "hello"
       \/ /\ ~(spc = "listen" /\ link = "none")     \* Connect(5000) times out
          /\ bpc' = "backoff"
          /\ UNCHANGED <<link, announced>>
    /\ UNCHANGED <<catalog, unsent, wire>>
    /\ BridgeFrame

(* What Send does: serialize, or throw into the catch of the outer loop,    *)
(* whose using blocks close the pipe.                                       *)
Hangup == link' = IF link = "open" THEN "closed" ELSE link

SendOrThrow(m) ==
    \/ /\ Serializable(m)
       /\ unsent' = Line(m)
       /\ bpc' = "write"
       /\ UNCHANGED link
    \/ /\ ~Serializable(m)
       /\ Hangup
       /\ bpc' = "backoff"
       /\ UNCHANGED unsent

BridgeSend ==
    /\ bpc \in {"hello", "catalog", "batch", "heartbeat"}
    /\ \E t, now \in Time :
         LET m == CASE bpc = "hello"     -> BuildHello(t)
                    [] bpc = "catalog"   -> BuildCatalogSnapshot(t)
                    [] bpc = "batch"     -> BuildSampleBatch(t, now)
                    [] bpc = "heartbeat" -> BuildHeartbeat(t)
         IN SendOrThrow(m)
    /\ UNCHANGED <<catalog, wire, announced>>
    /\ BridgeFrame

(* Mutant: the catalogue is taken to be known from the last connection. *)
AfterMessageSkipping(kind) ==
    IF kind = "sample_batch" THEN {"heartbeat", "loop"} ELSE {"loop"}

(* After hello comes the catalogue, then batches, some of them followed by  *)
(* a heartbeat.                                                              *)
AfterMessage(kind) ==
    CASE kind = "hello"            -> {"catalog"}
      [] kind = "catalog_snapshot" -> {"loop"}
      [] kind = "sample_batch"     -> {"heartbeat", "loop"}
      [] kind = "heartbeat"        -> {"loop"}

(* Mutant: a pipe that never pushes back. *)
BridgeWriteUnbounded ==
    /\ bpc = "write"
    /\ \/ /\ link = "open"
          /\ wire' = Append(wire, Head(unsent))
          /\ unsent' = Tail(unsent)
          /\ IF unsent' = <<>> THEN bpc' \in AfterMessage(Head(unsent)[1].kind)
                               ELSE UNCHANGED bpc
       \/ /\ link # "open"
          /\ unsent' = <<>>
          /\ bpc' = "backoff"
          /\ UNCHANGED wire
    /\ UNCHANGED <<catalog, link, announced>>
    /\ BridgeFrame

(* One piece of the line; the write throws when the server's end is gone,   *)
(* and blocks while the pipe is full.                                       *)
BridgeWrite ==
    /\ bpc = "write"
    /\ \/ /\ link = "open"
          /\ Len(wire) < WireCapacity
          /\ wire' = Append(wire, Head(unsent))
          /\ unsent' = Tail(unsent)
          /\ LET m == Head(unsent)[1] IN
               /\ IF unsent' = <<>> THEN bpc' \in AfterMessage(m.kind)
                                    ELSE UNCHANGED bpc
               /\ announced' = IF m.kind = "catalog_snapshot" THEN RowsOf(m)
                                                              ELSE announced
       \/ /\ link # "open"
          /\ unsent' = <<>>
          /\ bpc' = "backoff"
          /\ UNCHANGED <<wire, announced>>
    /\ UNCHANGED <<catalog, link>>
    /\ BridgeFrame

(* while (pipe.IsConnected): false ends the connection without a delay.     *)
BridgeLoop ==
    /\ bpc = "loop"
    /\ \/ bpc' = "batch"
       \/ link # "open" /\ bpc' = "scan"
    /\ UNCHANGED <<catalog, unsent, pipe, announced>>
    /\ BridgeFrame

BridgeBackoff ==
    /\ bpc = "backoff"
    /\ bpc' = "scan"
    /\ UNCHANGED <<catalog, unsent, pipe, announced>>
    /\ BridgeFrame

(* The bridge process ends, perhaps in the middle of a line, and is started *)
(* again.                                                                   *)
BridgeDies ==
    /\ MayFault
    /\ bridgeDeaths' = bridgeDeaths + 1
    /\ Hangup
    /\ bpc' = "scan"
    /\ unsent' = <<>>
    /\ UNCHANGED <<reading, catalog, wire, server, tables, changes, agentDeaths,
                   rejects, pipeErrors, announced, greeting>>

BridgeStep == \/ BridgeScan \/ BridgeConnect \/ BridgeSend \/ BridgeWrite
              \/ BridgeLoop \/ BridgeBackoff

-----------------------------------------------------------------------------
(* The server: NamedPipeServer::Run and HandlePipeMessage.                  *)

ServerFrame == UNCHANGED <<reading, bridge, changes, bridgeDeaths, agentDeaths, announced>>

(* The instance is closed with whatever was not read from it.               *)
NoPipe == link' = "none" /\ wire' = <<>>

CreateInstance ==
    /\ spc = "create"
    /\ \/ spc' = "listen" /\ UNCHANGED pipeErrors
       \/ /\ MayFault                    \* Run returns false: no more pipe
          /\ pipeErrors' = pipeErrors + 1
          /\ spc' = "down"
    /\ UNCHANGED <<pipe, pending, tables, rejects, greeting>>
    /\ ServerFrame

(* ConnectNamedPipe: a client that has come and gone is an error.           *)
ConnectInstance ==
    /\ spc = "listen"
    /\ \/ /\ link = "open"
          /\ spc' = "read"
          /\ greeting' = <<>>
          /\ UNCHANGED <<pipe, pipeErrors>>
       \/ /\ \/ link = "closed" /\ UNCHANGED pipeErrors
             \/ MayFault /\ pipeErrors' = pipeErrors + 1
          /\ NoPipe
          /\ spc' = "create"
          /\ UNCHANGED greeting
    /\ UNCHANGED <<pending, tables, rejects>>
    /\ ServerFrame

(* Mutant: a read of no bytes does not end the connection. *)
ReadWithoutEnd ==
    /\ spc = "read"
    /\ \E n \in 1 .. Len(wire) :
         /\ pending' = pending \o SubSeq(wire, 1, n)
         /\ wire' = SubSeq(wire, n + 1, Len(wire))
    /\ spc' = "dispatch"
    /\ UNCHANGED <<link, pipeErrors, tables, rejects, greeting>>
    /\ ServerFrame

(* ReadFile blocks while the pipe is empty and the client is there.         *)
Read ==
    /\ spc = "read"
    /\ \/ \E n \in 1 .. Len(wire) :
            /\ pending' = pending \o SubSeq(wire, 1, n)
            /\ wire' = SubSeq(wire, n + 1, Len(wire))
            /\ spc' = "dispatch"
            /\ UNCHANGED pipeErrors
       \/ /\ \/ wire = <<>> /\ link = "closed" /\ UNCHANGED pipeErrors
             \/ MayFault /\ pipeErrors' = pipeErrors + 1
          /\ spc' = "flush"
          /\ UNCHANGED <<wire, pending>>
    /\ UNCHANGED <<link, tables, rejects, greeting>>
    /\ ServerFrame

(* HandlePipeMessage: an invalid line is discarded; a message is stored, or *)
(* rejected by the store, which nobody repeats.                             *)
Handle(line) ==
    IF IsMessage(line)
      THEN /\ \/ /\ tables' = Store!Ingested(tables, Parsed(line))
                 /\ UNCHANGED rejects
              \/ /\ MayFault
                 /\ rejects' = rejects + 1
                 /\ UNCHANGED tables
           /\ greeting' = IF Len(greeting) < 2 THEN Append(greeting, Parsed(line).kind)
                                               ELSE greeting
      ELSE UNCHANGED <<tables, rejects, greeting>>

FirstBreak == CHOOSE i \in 1 .. Len(pending) :
                 /\ IsBreak(pending[i])
                 /\ \A j \in 1 .. i - 1 : ~IsBreak(pending[j])
HasBreak == \E i \in 1 .. Len(pending) : IsBreak(pending[i])

(* Mutants: one line is handled per read; what follows it is dropped.       *)
DispatchOneLine ==
    /\ spc = "dispatch"
    /\ IF HasBreak
         THEN /\ Handle(SubSeq(pending, 1, FirstBreak - 1))
              /\ pending' = SubSeq(pending, FirstBreak + 1, Len(pending))
         ELSE UNCHANGED <<pending, tables, rejects, greeting>>
    /\ spc' = "read"
    /\ UNCHANGED <<pipe, pipeErrors>>
    /\ ServerFrame

DispatchDiscarding ==
    /\ spc = "dispatch"
    /\ IF HasBreak
         THEN /\ Handle(SubSeq(pending, 1, FirstBreak - 1))
              /\ pending' = <<>>
         ELSE UNCHANGED <<pending, tables, rejects, greeting>>
    /\ spc' = "read"
    /\ UNCHANGED <<pipe, pipeErrors>>
    /\ ServerFrame

(* DispatchCompleteLines, a line at a time.                                 *)
Dispatch ==
    /\ spc = "dispatch"
    /\ \/ /\ HasBreak
          /\ Handle(SubSeq(pending, 1, FirstBreak - 1))
          /\ pending' = SubSeq(pending, FirstBreak + 1, Len(pending))
          /\ UNCHANGED spc
       \/ /\ ~HasBreak
          /\ spc' = "read"
          /\ UNCHANGED <<pending, tables, rejects, greeting>>
    /\ UNCHANGED <<pipe, pipeErrors>>
    /\ ServerFrame

(* Mutant: the buffer outlives its connection. *)
FlushKeeping ==
    /\ spc = "flush"
    /\ Handle(pending)
    /\ NoPipe
    /\ spc' = "create"
    /\ UNCHANGED <<pending, pipeErrors>>
    /\ ServerFrame

(* After the loop of reads: the unfinished line is handled as if it had     *)
(* ended, and the client is disconnected.                                   *)
Flush ==
    /\ spc = "flush"
    /\ Handle(pending)
    /\ pending' = <<>>
    /\ NoPipe
    /\ spc' = "create"
    /\ UNCHANGED pipeErrors
    /\ ServerFrame

ServerStep == CreateInstance \/ ConnectInstance \/ Read \/ Dispatch \/ Flush

(* The agent ends between two steps and is started again: the file and its  *)
(* rows are what is left.                                                   *)
AgentDies ==
    /\ MayFault
    /\ agentDeaths' = agentDeaths + 1
    /\ NoPipe
    /\ pending' = <<>>
    /\ spc' = "create"
    /\ UNCHANGED <<reading, bridge, tables, changes, bridgeDeaths, rejects, pipeErrors,
                   announced, greeting>>

-----------------------------------------------------------------------------
Init ==
    /\ reading \in [Sensors -> Readings]
    /\ bpc = "scan" /\ catalog = <<>> /\ unsent = <<>>
    /\ link = "none" /\ wire = <<>>
    /\ spc = "create" /\ pending = <<>>
    /\ tables = Store!EmptyTables
    /\ changes = 0 /\ bridgeDeaths = 0 /\ agentDeaths = 0 /\ rejects = 0
    /\ pipeErrors = 0
    /\ announced = {} /\ greeting = <<>>

Next == HardwareChanges \/ BridgeStep \/ BridgeDies \/ ServerStep \/ AgentDies

Spec == Init /\ [][Next]_vars

(* Both are loops that wait for each other and for the clock alone.         *)
FairSpec == Spec /\ WF_vars(BridgeStep) /\ WF_vars(ServerStep)

-----------------------------------------------------------------------------
BpcValues == {"scan", "connect", "hello", "catalog", "loop", "batch", "heartbeat",
              "write", "backoff"}

TypeOK ==
    /\ reading \in [Sensors -> Readings]
    /\ bpc \in BpcValues
    /\ catalog \in Seq(Sensors)
    /\ unsent \in Seq(Pieces) /\ wire \in Seq(Pieces) /\ pending \in Seq(Pieces)
    /\ Len(wire) <= WireCapacity
    /\ link \in {"none", "open", "closed"}
    /\ spc \in {"create", "listen", "read", "dispatch", "flush", "down"}
    /\ tables.machine \in SeenRow /\ tables.bridge \in CollectorRow
    /\ tables.catalog \in [Sensors -> SeenRow]
    /\ tables.samples \subseteq Sensors \X Time
    /\ {changes, bridgeDeaths, agentDeaths, rejects, pipeErrors} \subseteq Nat
    /\ announced \subseteq Sensors
    /\ greeting \in Seq(Kinds) /\ Len(greeting) <= 2

(* The messages of this connection that were begun and not yet handled: a  *)
(* line is three pieces.                                                    *)
Stream == pending \o wire
InFlight == [k \in 1 .. (Len(Stream) + 2) \div 3 |-> Stream[3 * k - 2][1]]

(* However the stream is cut into reads and wherever a process or a         *)
(* connection ends, the store is handed the messages of a connection once   *)
(* each and in order, and only the last ones of a connection can be lost.   *)
Delivery == INSTANCE OrderedDelivery WITH queue <- InFlight
DeliverySpec == Delivery!Spec

(* On every connection the agent handles hello first and the catalogue      *)
(* second, so that no batch meets a catalogue older than its connection.    *)
HelloThenCatalog ==
    \A i \in 1 .. Len(greeting) : greeting[i] = <<"hello", "catalog_snapshot">>[i]

(* A reader that waits for more of a line does not hold a whole one, and    *)
(* what it holds begins a line: nothing of an earlier connection or of a    *)
(* line already handled is in front of it.                                  *)
ReaderWaitsForRest ==
    spc = "read" => /\ ~HasBreak
                    /\ pending # <<>> => pending[1][2] = "head"

(* Every sensor in a batch on its way was in the catalogue that its         *)
(* connection announced; InsertSensorSample drops the others.               *)
SampledAreAnnounced ==
    \A i \in 1 .. Len(InFlight) :
        InFlight[i].kind = "sample_batch" => RowsOf(InFlight[i]) \subseteq announced

(* While the hardware stays as it is and no reading is NaN, a sensor with a *)
(* value has a sample in the store in the end - through restarts of either  *)
(* process and broken connections - unless CreateNamedPipeW failed or the   *)
(* store rejected a message, which may have been the catalogue.             *)
Undisturbed == changes = 0 /\ \A x \in Sensors : reading[x] # "nan"

SamplesArrive ==
    \A s \in Sensors :
        (reading[s] = "number" /\ Undisturbed)
            ~> \/ \E t \in Time : <<s, t>> \in tables.samples
               \/ ~Undisturbed \/ spc = "down" \/ rejects > 0

(* After every end of a connection, however it came about, the bridge and   *)
(* the agent are connected again, unless CreateNamedPipeW failed or a NaN   *)
(* makes the bridge hang up itself.                                         *)
ComesBack ==
    link # "open" ~> \/ link = "open" /\ spc = "read"
                     \/ spc = "down" \/ \E x \in Sensors : reading[x] = "nan"
=============================================================================

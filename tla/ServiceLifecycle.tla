--------------------------- MODULE ServiceLifecycle ---------------------------
(***************************************************************************)
(* How host_agent starts and stops: Service::Run on the main thread, the   *)
(* threads it starts, and Service::Stop on the threads Windows makes for   *)
(* console events.  Main and handlers stop the same parts in the same      *)
(* order, each with the same unguarded joinable() / join(): two joins of   *)
(* one std::thread are undefined, and end the process or do nothing.       *)
(*                                                                         *)
(* A poll loop is one step, its end; what the polls do is in               *)
(* TelemetryStore.  early is history: no action's guard reads it.          *)
(***************************************************************************)
EXTENDS Naturals, Sequences

CONSTANTS
    Enabled,      \* the collectors and the pusher that the configuration has
    Handlers,     \* threads for console events
    Main

StartOrder == <<"gpu", "ollama", "pusher">>
StopOrder  == <<"pusher", "gpu", "ollama", "http">>
Workers    == {"gpu", "ollama", "pusher"}
Stoppers   == {Main} \cup Handlers

ASSUME LifecycleAssumption == Enabled \subseteq Workers /\ Main \notin Handlers

VARIABLES
    running,            \* Service::running_
    pc, part,           \* per stopper: what it does, and to which of StopOrder
    begun,              \* main: which of StartOrder is next
    made, flag, thread, \* per worker: object, its running_, its std::thread
    reader,             \* GpuSensorReader::is_initialized
    pipeFlag, pipe,     \* NamedPipeServer::running_, and where its thread is
    client,             \* the client of the pipe: none, open, or gone again
    httpFlag, http,     \* HttpServer::running_, and where its thread is
    early               \* a signal came before all threads were in their loops

workers == <<made, flag, thread, reader>>
pipes   == <<pipeFlag, pipe, client>>
https   == <<httpFlag, http>>
vars == <<running, pc, part, begun, made, flag, thread, reader, pipeFlag, pipe, client,
          httpFlag, http, early>>

Over  == pc[Main] \in {"failed", "exited", "terminated"}
Goto(t, where) == pc' = [pc EXCEPT ![t] = where]

-----------------------------------------------------------------------------
(* Service::Run until its wait.                                             *)
EnsureSchema ==
    /\ pc[Main] = "schema"
    /\ \/ Goto(Main, "http") /\ running' = TRUE
       \/ Goto(Main, "failed") /\ UNCHANGED running
    /\ UNCHANGED <<part, begun, workers, pipes, https, early>>

StartHttp ==
    /\ pc[Main] = "http"
    /\ httpFlag' = TRUE
    /\ http' = "starting"
    /\ Goto(Main, "make")
    /\ UNCHANGED <<running, part, begun, workers, pipes, early>>

(* Mutant: what is not configured is made as well. *)
MakeWorkerAlways ==
    /\ pc[Main] = "make"
    /\ begun <= Len(StartOrder)
    /\ LET w == StartOrder[begun] IN
         /\ made' = made \cup {w}
         /\ reader' = (reader \/ w = "gpu")
    /\ Goto(Main, "start")
    /\ UNCHANGED <<running, part, begun, flag, thread, pipes, https, early>>

(* make_unique and Initialize; what fails to initialise is reset.           *)
MakeWorker ==
    /\ pc[Main] = "make"
    /\ begun <= Len(StartOrder)
    /\ LET w == StartOrder[begun] IN
         \/ /\ w \in Enabled
            /\ made' = made \cup {w}
            /\ reader' = (reader \/ w = "gpu")
            /\ Goto(Main, "start")
            /\ UNCHANGED begun
         \/ /\ w \notin Enabled \/ w \in {"gpu", "ollama"}
            /\ begun' = begun + 1
            /\ UNCHANGED <<pc, made, reader>>
    /\ UNCHANGED <<running, part, flag, thread, pipes, https, early>>

StartWorker ==
    /\ pc[Main] = "start"
    /\ LET w == StartOrder[begun] IN
         /\ flag' = [flag EXCEPT ![w] = TRUE]
         /\ thread' = [thread EXCEPT ![w] = "polling"]
    /\ begun' = begun + 1
    /\ Goto(Main, "make")
    /\ UNCHANGED <<running, part, made, reader, pipes, https, early>>

StartPipe ==
    /\ pc[Main] = "make"
    /\ begun > Len(StartOrder)
    /\ pipe' = "starting"
    /\ Goto(Main, "wait")
    /\ UNCHANGED <<running, part, begun, workers, pipeFlag, client, https, early>>

-----------------------------------------------------------------------------
(* Stopping.  The handler sets two flags and stops the parts; main, once it *)
(* sees the flag, joins the pipe thread first.                              *)
Settled == /\ pc[Main] = "wait"
           /\ pipe # "starting" /\ http # "starting"

ConsoleEvent(h) ==
    /\ pc[h] = "idle"
    /\ Goto(h, "flag")
    /\ early' = (early \/ ~Settled)
    /\ UNCHANGED <<running, part, begun, workers, pipes, https>>

HandlerFlag(h) ==
    /\ pc[h] = "flag"
    /\ running' = FALSE
    /\ Goto(h, "pipe")
    /\ UNCHANGED <<part, begun, workers, pipes, https, early>>

MainSees ==
    /\ pc[Main] = "wait"
    /\ ~running
    /\ Goto(Main, "pipe")
    /\ UNCHANGED <<running, part, begun, workers, pipes, https, early>>

StopPipe(t) ==
    /\ pc[t] = "pipe"
    /\ pipeFlag' = FALSE
    /\ Goto(t, IF t = Main THEN "pipejoin" ELSE "stop")
    /\ UNCHANGED <<running, part, begun, workers, pipe, client, https, early>>

(* Mutant: main does not wait for the pipe thread. *)
JoinPipeDetached ==
    /\ pc[Main] = "pipejoin"
    /\ pipe' = IF pipe = "ended" THEN "joined" ELSE pipe
    /\ Goto(Main, "stop")
    /\ UNCHANGED <<running, part, begun, workers, pipeFlag, client, https, early>>

JoinPipe ==
    /\ pc[Main] = "pipejoin"
    /\ pipe = "ended"
    /\ pipe' = "joined"
    /\ Goto(Main, "stop")
    /\ UNCHANGED <<running, part, begun, workers, pipeFlag, client, https, early>>

Part(t) == StopOrder[part[t]]

(* What follows the parts: a handler is done; main leaves Run and wmain,    *)
(* where ~thread of a thread nobody joined terminates the process.          *)
Joined(state) == state \in {"none", "joined"}
AllJoined(threads, p, h) == (\A w \in Workers : Joined(threads[w])) /\ Joined(p) /\ Joined(h)

StoppedPart(t, threads, h) ==
    /\ part' = [part EXCEPT ![t] = @ + 1]
    /\ IF part[t] < Len(StopOrder) THEN Goto(t, "stop")
       ELSE Goto(t, IF t # Main THEN "done"
                    ELSE IF AllJoined(threads, pipe, h) THEN "exited" ELSE "terminated")

Terminate == /\ Goto(Main, "terminated")
             /\ UNCHANGED part

(* Collector Stop() up to its join: the flag, and joinable().  Without a    *)
(* thread to join, the reader of the GPU collector is shut down at once.    *)
ReaderAfter(w) == reader /\ w # "gpu"

(* Mutant: the reader is shut down before the poll loop has ended. *)
StopWorkerEagerly(t) ==
    /\ pc[t] = "stop" /\ Part(t) \in Workers
    /\ LET w == Part(t) IN
         /\ flag' = [flag EXCEPT ![w] = FALSE]
         /\ reader' = ReaderAfter(w)
         /\ IF Joined(thread[w]) THEN StoppedPart(t, thread, http)
                                 ELSE Goto(t, "join") /\ UNCHANGED part
    /\ UNCHANGED <<running, begun, made, thread, pipes, https, early>>

StopWorker(t) ==
    /\ pc[t] = "stop" /\ Part(t) \in Workers
    /\ LET w == Part(t) IN
         \/ /\ w \notin made
            /\ StoppedPart(t, thread, http)
            /\ UNCHANGED <<flag, reader>>
         \/ /\ w \in made
            /\ flag' = [flag EXCEPT ![w] = FALSE]
            /\ \/ /\ thread[w] \in {"polling", "ended"}
                  /\ Goto(t, "join")
                  /\ UNCHANGED <<part, reader>>
               \/ /\ Joined(thread[w])
                  /\ reader' = ReaderAfter(w)
                  /\ StoppedPart(t, thread, http)
    /\ UNCHANGED <<running, begun, made, thread, pipes, https, early>>

JoinWorker(t) ==
    /\ pc[t] = "join" /\ Part(t) \in Workers
    /\ LET w == Part(t) IN
         \/ /\ thread[w] = "ended"
            /\ thread' = [thread EXCEPT ![w] = "joined"]
            /\ reader' = ReaderAfter(w)
            /\ StoppedPart(t, thread', http)
         \/ /\ thread[w] = "joined"            \* by another stopper, meanwhile
            /\ \/ Terminate /\ UNCHANGED reader
               \/ StoppedPart(t, thread, http) /\ reader' = ReaderAfter(w)
            /\ UNCHANGED thread
    /\ UNCHANGED <<running, begun, made, flag, pipes, https, early>>

(* HttpServer::Stop: httplib's stop() closes the socket of a server that    *)
(* listens, and does nothing to one that does not listen yet.               *)
StopHttp(t) ==
    /\ pc[t] = "stop" /\ Part(t) = "http"
    /\ \/ /\ ~httpFlag
          /\ StoppedPart(t, thread, http)
          /\ UNCHANGED http
       \/ /\ httpFlag
          /\ http' = IF http = "listening" THEN "closing" ELSE http
          /\ Goto(t, "join")
          /\ UNCHANGED part
    /\ UNCHANGED <<running, begun, workers, pipes, httpFlag, early>>

JoinHttp(t) ==
    /\ pc[t] = "join" /\ Part(t) = "http"
    /\ \/ /\ http = "ended"
          /\ http' = "joined"
          /\ httpFlag' = FALSE
          /\ StoppedPart(t, thread, "joined")
       \/ /\ Joined(http)
          /\ \/ Terminate /\ UNCHANGED httpFlag
             \/ StoppedPart(t, thread, http) /\ httpFlag' = FALSE
          /\ UNCHANGED http
    /\ UNCHANGED <<running, begun, workers, pipes, early>>

StopperStep(t) == \/ StopPipe(t) \/ StopWorker(t) \/ JoinWorker(t)
                  \/ StopHttp(t) \/ JoinHttp(t)
MainStep == \/ EnsureSchema \/ StartHttp \/ MakeWorker \/ StartWorker \/ StartPipe
            \/ MainSees \/ JoinPipe \/ StopperStep(Main)
HandlerStep(h) == HandlerFlag(h) \/ StopperStep(h)

-----------------------------------------------------------------------------
(* The threads that are stopped.                                            *)
WorkerEnds(w) ==
    /\ thread[w] = "polling"
    /\ ~flag[w]
    /\ thread' = [thread EXCEPT ![w] = "ended"]
    /\ UNCHANGED <<running, pc, part, begun, made, flag, reader, pipes, https, early>>

PipeFrame == UNCHANGED <<running, pc, part, begun, workers, https, early>>

(* NamedPipeServer::Run sets the flag that Stop clears.                     *)
PipeStarts ==
    /\ pipe = "starting"
    /\ pipeFlag' = TRUE
    /\ pipe' = "loop"
    /\ UNCHANGED client
    /\ PipeFrame

(* CreateNamedPipeW, or the end of the loop: stopped, or no pipe.           *)
PipeLoop ==
    /\ pipe = "loop"
    /\ \/ pipeFlag /\ pipe' = "connecting"
       \/ pipe' = "ended"
    /\ UNCHANGED <<pipeFlag, client>>
    /\ PipeFrame

(* ConnectNamedPipe returns when a client has come; for one that has gone   *)
(* again it returns an error.                                               *)
PipeConnected ==
    /\ pipe = "connecting"
    /\ \/ client = "open" /\ pipe' = "check" /\ UNCHANGED client
       \/ client = "gone" /\ pipe' = "loop" /\ client' = "none"
    /\ UNCHANGED pipeFlag
    /\ PipeFrame

(* Mutant: the loop of reads does not look at the flag. *)
PipeCheckNever ==
    /\ pipe = "check"
    /\ pipe' = "reading"
    /\ UNCHANGED <<pipeFlag, client>>
    /\ PipeFrame

PipeCheck ==
    /\ pipe = "check"
    /\ \/ pipeFlag /\ pipe' = "reading" /\ UNCHANGED client
       \/ ~pipeFlag /\ pipe' = "loop" /\ client' = "none"
    /\ UNCHANGED pipeFlag
    /\ PipeFrame

(* ReadFile returns without bytes when the client has gone.                 *)
PipeBroken ==
    /\ pipe = "reading"
    /\ client = "gone"
    /\ pipe' = "loop"
    /\ client' = "none"
    /\ UNCHANGED pipeFlag
    /\ PipeFrame

PipeStep == PipeStarts \/ PipeLoop \/ PipeConnected \/ PipeCheck \/ PipeBroken

HttpListens ==
    /\ http = "starting"
    /\ \/ http' = "listening" /\ UNCHANGED httpFlag
       \/ http' = "ended" /\ httpFlag' = FALSE      \* the port is taken
    /\ UNCHANGED <<running, pc, part, begun, workers, pipes, early>>

HttpEnds ==
    /\ http = "closing"
    /\ http' = "ended"
    /\ UNCHANGED <<running, pc, part, begun, workers, pipes, httpFlag, early>>

HttpStep == HttpListens \/ HttpEnds

(* The bridge: it connects, writes and leaves when it likes.                *)
ClientConnects ==
    /\ pipe = "connecting" /\ client = "none"
    /\ client' = "open"
    /\ UNCHANGED <<pipeFlag, pipe>>
    /\ PipeFrame

ClientWrites ==
    /\ pipe = "reading" /\ client = "open"
    /\ pipe' = "check"
    /\ UNCHANGED <<pipeFlag, client>>
    /\ PipeFrame

ClientLeaves ==
    /\ client = "open"
    /\ client' = "gone"
    /\ UNCHANGED <<pipeFlag, pipe>>
    /\ PipeFrame

-----------------------------------------------------------------------------
Init ==
    /\ running = FALSE
    /\ pc = [t \in Stoppers |-> IF t = Main THEN "schema" ELSE "idle"]
    /\ part = [t \in Stoppers |-> 1]
    /\ begun = 1
    /\ made = {} /\ flag = [w \in Workers |-> FALSE]
    /\ thread = [w \in Workers |-> "none"] /\ reader = FALSE
    /\ pipeFlag = FALSE /\ pipe = "none" /\ client = "none"
    /\ httpFlag = FALSE /\ http = "none"
    /\ early = FALSE

(* The process ends with main. *)
Next ==
    \/ ~Over /\ MainStep
    \/ ~Over /\ \E h \in Handlers : ConsoleEvent(h) \/ HandlerStep(h)
    \/ ~Over /\ \E w \in Workers : WorkerEnds(w)
    \/ ~Over /\ (PipeStep \/ HttpStep)
    \/ ~Over /\ (ClientConnects \/ ClientWrites \/ ClientLeaves)

Spec == Init /\ [][Next]_vars

(* Every thread of the process is scheduled.                                *)
FairSpec ==
    /\ Spec
    /\ WF_vars(~Over /\ MainStep)
    /\ \A h \in Handlers : WF_vars(~Over /\ HandlerStep(h))
    /\ \A w \in Workers : WF_vars(~Over /\ WorkerEnds(w))
    /\ WF_vars(~Over /\ PipeStep)
    /\ WF_vars(~Over /\ HttpStep)

(* ... and a bridge is running: it connects when it can and keeps writing.  *)
BridgeFairSpec ==
    /\ FairSpec
    /\ WF_vars(~Over /\ ClientConnects)
    /\ WF_vars(~Over /\ ClientWrites)

-----------------------------------------------------------------------------
TypeOK ==
    /\ {running, reader, pipeFlag, httpFlag, early} \subseteq BOOLEAN
    /\ client \in {"none", "open", "gone"}
    /\ pc \in [Stoppers -> {"schema", "http", "make", "start", "wait", "pipejoin",
                            "failed", "exited", "terminated",
                            "idle", "flag", "pipe", "stop", "join", "done"}]
    /\ part \in [Stoppers -> 1 .. Len(StopOrder) + 1]
    /\ begun \in 1 .. Len(StartOrder) + 1
    /\ made \subseteq Enabled
    /\ flag \in [Workers -> BOOLEAN]
    /\ thread \in [Workers -> {"none", "polling", "ended", "joined"}]
    /\ pipe \in {"none", "starting", "loop", "connecting", "check", "reading", "ended",
                 "joined"}
    /\ http \in {"none", "starting", "listening", "closing", "ended", "joined"}

(* When main is past a part - and so when it says "host_agent stopped." -   *)
(* the thread of that part has ended, whoever joined it and whenever the    *)
(* signals came: nothing writes to the store or serves it any more.         *)
Ended(state) == state \in {"none", "ended", "joined"}
StoppedMeansStopped ==
    (pc[Main] \in {"stop", "join", "exited"}) =>
        /\ Ended(pipe)
        /\ \A i \in 1 .. part[Main] - 1 :
              IF StopOrder[i] = "http" THEN Ended(http) ELSE Ended(thread[StopOrder[i]])

(* DirectGpuCollector polls an initialised reader: no stopper shuts it down *)
(* under a running poll loop, unless a signal came before Run was waiting.  *)
ReaderOutlivesPolling == thread["gpu"] = "polling" => (reader \/ early)

(* After Ctrl+C, on an agent that is up, the process ends.                  *)
StopsOnCtrlC == ((\E h \in Handlers : pc[h] # "idle") /\ ~early) ~> Over
=============================================================================

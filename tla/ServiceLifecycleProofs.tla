------------------------ MODULE ServiceLifecycleProofs ------------------------
(***************************************************************************)
(* Proofs about ServiceLifecycle for every configuration and every number  *)
(* of console events: the types, that what main has stopped stays stopped, *)
(* and that no stopper takes the reader from a running poll loop.          *)
(***************************************************************************)
EXTENDS ServiceLifecycle, TLAPS

(* A stopper that has not come to the parts: it is at the first. *)
BeforeParts == {"idle", "flag", "schema", "http", "make", "start", "wait", "pipe", "pipejoin"}

(* Before main is in its wait. *)
Starting == {"schema", "http", "make", "start"}

(* A stopper that stops or joins has a part to stop, and main starts the    *)
(* worker it has just made.                                                 *)
Placed ==
    /\ \A t \in Stoppers : /\ pc[t] \in {"stop", "join"} => part[t] <= Len(StopOrder)
                           /\ pc[t] \in BeforeParts => part[t] = 1
    /\ pc[Main] = "start" => begun <= Len(StartOrder) /\ StartOrder[begun] \in made

(* A thread belongs to an object; an HTTP server whose flag is down is not  *)
(* serving; main stops the parts only after it has joined the pipe thread.  *)
Threads ==
    /\ \A w \in Workers : thread[w] # "none" => w \in made
    /\ ~httpFlag => Ended(http)
    /\ pc[Main] \in {"stop", "join", "exited"} => pipe = "joined"

(* Every part main is past has ended. *)
Past ==
    pc[Main] \in {"stop", "join", "exited"} =>
        \A i \in 1 .. part[Main] - 1 :
            IF StopOrder[i] = "http" THEN Ended(http) ELSE Ended(thread[StopOrder[i]])

(* A handler that acts while main is starting has made that known, and then *)
(* the reader of a GPU collector about to be started may be gone.           *)
Warned ==
    /\ \A h \in Handlers : pc[h] # "idle" => (early \/ pc[Main] \notin Starting)
    /\ (pc[Main] = "start" /\ StartOrder[begun] = "gpu") => (reader \/ early)

IInv == TypeOK /\ Placed /\ Threads /\ Past /\ Warned /\ ReaderOutlivesPolling

-----------------------------------------------------------------------------
(* What the threads that are stopped do, and their client.                  *)
OthersStep ==
    \/ \E w \in Workers : WorkerEnds(w)
    \/ PipeStep \/ HttpStep
    \/ ClientConnects \/ ClientWrites \/ ClientLeaves

LEMMA OthersMoveNoStopper ==
    ASSUME OthersStep
    PROVE  UNCHANGED <<running, pc, part, begun, made, flag, reader, early>>
  BY DEF OthersStep, WorkerEnds, PipeStep, PipeStarts, PipeLoop, PipeConnected, PipeCheck,
         PipeBroken, HttpStep, HttpListens, HttpEnds, ClientConnects, ClientWrites,
         ClientLeaves, PipeFrame, workers, pipes, https

LEMMA OthersOnlyEnd ==
    ASSUME TypeOK, OthersStep
    PROVE  /\ \A w \in Workers : thread'[w] = thread[w]
                                 \/ (thread[w] = "polling" /\ thread'[w] = "ended")
           /\ pipe = "joined" => pipe' = "joined"
           /\ Ended(http) => UNCHANGED https
           /\ (~httpFlag)' => ~httpFlag \/ http' = "ended"
  BY SMTT(30) DEF TypeOK, OthersStep, WorkerEnds, PipeStep, PipeStarts, PipeLoop,
     PipeConnected, PipeCheck,
         PipeBroken, HttpStep, HttpListens, HttpEnds, ClientConnects, ClientWrites,
         ClientLeaves, PipeFrame, workers, pipes, https, Ended

LEMMA OthersType ==
    ASSUME TypeOK, OthersStep PROVE TypeOK'
  <1>1. UNCHANGED <<running, pc, part, begun, made, flag, reader, early>>
    BY OthersMoveNoStopper
  <1>2. thread' \in [Workers -> {"none", "polling", "ended", "joined"}]
    BY SMTT(30) DEF TypeOK, OthersStep, WorkerEnds, PipeStep, PipeStarts, PipeLoop,
       PipeConnected, PipeCheck,
         PipeBroken, HttpStep, HttpListens, HttpEnds, ClientConnects, ClientWrites,
         ClientLeaves, PipeFrame, workers, pipes, https
  <1>3. pipe' \in {"none", "starting", "loop", "connecting", "check", "reading", "ended", "joined"}
        /\ client' \in {"none", "open", "gone"}
        /\ http' \in {"none", "starting", "listening", "closing", "ended", "joined"}
    BY SMTT(30) DEF TypeOK, OthersStep, WorkerEnds, PipeStep, PipeStarts, PipeLoop,
       PipeConnected, PipeCheck,
         PipeBroken, HttpStep, HttpListens, HttpEnds, ClientConnects, ClientWrites,
         ClientLeaves, PipeFrame, workers, pipes, https
  <1>4. pipeFlag' \in BOOLEAN /\ httpFlag' \in BOOLEAN
    BY Zenon DEF TypeOK, OthersStep, WorkerEnds, PipeStep, PipeStarts, PipeLoop,
       PipeConnected, PipeCheck,
         PipeBroken, HttpStep, HttpListens, HttpEnds, ClientConnects, ClientWrites,
         ClientLeaves, PipeFrame, workers, pipes, https
  <1>5. QED BY <1>1, <1>2, <1>3, <1>4 DEF TypeOK

LEMMA PartsAreStopped ==
    ASSUME TypeOK
    PROVE  /\ Len(StopOrder) = 4
           /\ \A i \in 1 .. part[Main] - 1 : StopOrder[i] \in Workers \cup {"http"}
  BY DEF TypeOK, StopOrder, Workers, Stoppers

LEMMA OthersKeep ==
    ASSUME IInv, OthersStep PROVE IInv'
  <1>0. TypeOK' BY OthersType DEF IInv
  <1>1. UNCHANGED <<running, pc, part, begun, made, flag, reader, early>>
    BY OthersMoveNoStopper
  <1>2. Placed' BY <1>1 DEF IInv, Placed
  <1>3. Threads' BY <1>1, OthersOnlyEnd DEF IInv, Threads, https, Ended
  <1>4. Past' BY <1>0, <1>1, OthersOnlyEnd, PartsAreStopped DEF IInv, Past, https, Ended
  <1>5. Warned' BY <1>1 DEF IInv, Warned
  <1>6. ReaderOutlivesPolling'
    BY <1>1, OthersOnlyEnd DEF IInv, ReaderOutlivesPolling, Workers
  <1>7. QED BY <1>0, <1>2, <1>3, <1>4, <1>5, <1>6 DEF IInv

-----------------------------------------------------------------------------
(* Main, until its wait.                                                    *)
StartStep == EnsureSchema \/ StartHttp \/ MakeWorker \/ StartWorker \/ StartPipe

LEMMA StartType ==
    ASSUME IInv, StartStep PROVE TypeOK'
  <1>1. pc' \in [Stoppers -> {"schema", "http", "make", "start", "wait", "pipejoin",
                              "failed", "exited", "terminated",
                              "idle", "flag", "pipe", "stop", "join", "done"}]
    BY DEF IInv, TypeOK, StartStep, EnsureSchema, StartHttp, MakeWorker, StartWorker,
           StartPipe, Goto
  <1>2. begun' \in 1 .. Len(StartOrder) + 1
    BY DEF IInv, TypeOK, Placed, StartStep, EnsureSchema, StartHttp, MakeWorker,
           StartWorker, StartPipe, StartOrder
  <1>3. /\ made' \subseteq Enabled
        /\ flag' \in [Workers -> BOOLEAN]
        /\ thread' \in [Workers -> {"none", "polling", "ended", "joined"}]
    BY DEF IInv, TypeOK, StartStep, EnsureSchema, StartHttp, MakeWorker, StartWorker,
           StartPipe, workers
  <1>4. /\ pipe' \in {"none", "starting", "loop", "connecting", "check", "reading",
                      "ended", "joined"}
        /\ http' \in {"none", "starting", "listening", "closing", "ended", "joined"}
        /\ UNCHANGED <<client, part>>
    BY DEF IInv, TypeOK, StartStep, EnsureSchema, StartHttp, MakeWorker, StartWorker,
           StartPipe, pipes, https
  <1>5. {running', reader', pipeFlag', httpFlag', early'} \subseteq BOOLEAN
    BY Zenon DEF IInv, TypeOK, StartStep, EnsureSchema, StartHttp, MakeWorker,
       StartWorker,
           StartPipe, pipes, https, workers
  <1>6. QED BY <1>1, <1>2, <1>3, <1>4, <1>5 DEF IInv, TypeOK

LEMMA StartKeeps ==
    ASSUME IInv, StartStep PROVE IInv'
  <1>0. TypeOK' BY StartType
  <1>1. Placed' /\ Past'
    BY LifecycleAssumption DEF IInv, TypeOK, Placed, Past, StartStep, EnsureSchema,
       StartHttp, MakeWorker, StartWorker,
           StartPipe, pipes, https, workers, Goto, Stoppers, BeforeParts
  <1>2. Threads'
    BY LifecycleAssumption DEF IInv, TypeOK, Threads, Placed, StartStep, EnsureSchema,
       StartHttp, MakeWorker, StartWorker,
           StartPipe, pipes, https, workers, Goto, Stoppers, BeforeParts
  <1>3. Warned'
    <2>1. CASE EnsureSchema \/ StartHttp \/ StartPipe
      BY <2>1, SMTT(30) DEF IInv, TypeOK, Warned, EnsureSchema, StartHttp, StartPipe,
         pipes, https, workers, Goto, Stoppers, Starting
    <2>2. CASE MakeWorker
      <3>1. /\ UNCHANGED early
            /\ pc[Main] = "make" /\ pc'[Main] \in {"make", "start"}
            /\ pc'[Main] = "start" => begun' = begun
            /\ \A h \in Handlers : pc'[h] = pc[h]
        BY <2>2, LifecycleAssumption DEF IInv, TypeOK, MakeWorker, Goto, Stoppers
      <3>2. pc'[Main] = "start" => reader' = (reader \/ StartOrder[begun] = "gpu")
        BY <2>2, <3>1, Zenon DEF MakeWorker
      <3>3. (pc'[Main] = "start" /\ StartOrder[begun'] = "gpu") => (reader' \/ early')
        BY <3>1, <3>2, Zenon
      <3>4. \A h \in Handlers : pc'[h] # "idle" => (early' \/ pc'[Main] \notin Starting)
        BY <3>1 DEF IInv, Warned, Starting
      <3>5. QED BY <3>3, <3>4 DEF Warned
    <2>3. CASE StartWorker
      BY <2>3, SMTT(30) DEF IInv, TypeOK, Warned, StartWorker,
         pipes, https, workers, Goto, Stoppers, Starting
    <2>4. QED BY <2>1, <2>2, <2>3 DEF StartStep
  <1>4. ReaderOutlivesPolling'
    <2>1. ASSUME StartWorker, thread'["gpu"] = "polling" PROVE (reader \/ early)'
      <3>1. UNCHANGED <<reader, early>>
        BY <2>1 DEF StartWorker
      <3>2. pc[Main] = "start"
            /\ (StartOrder[begun] = "gpu" \/ thread["gpu"] = "polling")
        BY <2>1 DEF StartWorker, IInv, TypeOK, Workers
      <3>3. reader \/ early
        BY <3>2, Zenon DEF IInv, Warned, ReaderOutlivesPolling
      <3>4. QED BY <3>1, <3>3, Zenon
    <2>2. ASSUME ~StartWorker PROVE UNCHANGED <<thread, early>>
      BY <2>2 DEF StartStep, EnsureSchema, StartHttp, MakeWorker, StartPipe, workers
    <2>3. ASSUME ~StartWorker, reader PROVE reader'
      BY <2>3 DEF StartStep, EnsureSchema, StartHttp, MakeWorker, StartPipe, workers
    <2>4. QED BY <2>1, <2>2, <2>3 DEF IInv, ReaderOutlivesPolling
  <1>5. QED BY <1>0, <1>1, <1>2, <1>3, <1>4 DEF IInv

-----------------------------------------------------------------------------
(* The signals, and main's way to the parts.                                *)
SignalStep ==
    \/ \E h \in Handlers : ConsoleEvent(h) \/ HandlerFlag(h)
    \/ MainSees \/ JoinPipe
    \/ \E t \in Stoppers : StopPipe(t)

LEMMA SignalType ==
    ASSUME TypeOK, SignalStep PROVE TypeOK'
  <1>1. pc' \in [Stoppers -> {"schema", "http", "make", "start", "wait", "pipejoin",
                              "failed", "exited", "terminated",
                              "idle", "flag", "pipe", "stop", "join", "done"}]
    BY DEF TypeOK, SignalStep, ConsoleEvent, HandlerFlag, MainSees, JoinPipe, StopPipe,
       Goto
  <1>2. /\ UNCHANGED <<part, begun, made, flag, thread, reader, client, http, httpFlag>>
        /\ pipe' = pipe \/ pipe' = "joined"
    BY DEF SignalStep, ConsoleEvent, HandlerFlag, MainSees, JoinPipe, StopPipe, workers,
           pipes, https
  <1>3. {running', pipeFlag', early'} \subseteq BOOLEAN
    BY Zenon DEF TypeOK, SignalStep, ConsoleEvent, HandlerFlag, MainSees, JoinPipe,
       StopPipe,
           pipes
  <1>4. QED BY <1>1, <1>2, <1>3 DEF TypeOK

LEMMA SignalKeeps ==
    ASSUME IInv, SignalStep PROVE IInv'
  <1>0. TypeOK' BY SignalType DEF IInv
  <1>1. Placed' /\ Past'
    BY LifecycleAssumption DEF IInv, TypeOK, Placed, Past, SignalStep, ConsoleEvent,
       HandlerFlag, MainSees, JoinPipe, StopPipe, pipes, https, workers, Goto, Stoppers,
       BeforeParts, StopOrder
  <1>2. Threads'
    BY LifecycleAssumption DEF IInv, TypeOK, Threads, SignalStep, ConsoleEvent,
       HandlerFlag, MainSees, JoinPipe, StopPipe, pipes, https, workers, Goto, Stoppers
  <1>3. Warned'
    BY LifecycleAssumption DEF IInv, TypeOK, Warned, SignalStep, ConsoleEvent,
       HandlerFlag, MainSees, JoinPipe, StopPipe, pipes, https, workers, Goto, Stoppers,
       Starting, Settled
  <1>4. ReaderOutlivesPolling'
    <2>1. UNCHANGED <<thread, reader>>
      BY DEF SignalStep, ConsoleEvent, HandlerFlag, MainSees, JoinPipe, StopPipe, workers
    <2>2. early => early'
      BY DEF SignalStep, ConsoleEvent, HandlerFlag, MainSees, JoinPipe, StopPipe
    <2>3. QED BY <2>1, <2>2 DEF IInv, ReaderOutlivesPolling
  <1>5. QED BY <1>0, <1>1, <1>2, <1>3, <1>4 DEF IInv

-----------------------------------------------------------------------------
(* The parts, stopped by main and by handlers alike.                        *)
PartStep(t) == StopWorker(t) \/ JoinWorker(t) \/ StopHttp(t) \/ JoinHttp(t)

(* Where a stopper goes from a part.                                        *)
Moves(t) ==
    \/ Goto(t, "join") /\ UNCHANGED part
    \/ Terminate
    \/ /\ part' = [part EXCEPT ![t] = @ + 1]
       /\ \/ part[t] < Len(StopOrder) /\ Goto(t, "stop")
          \/ part[t] = Len(StopOrder) /\ t # Main /\ Goto(t, "done")
          \/ part[t] = Len(StopOrder) /\ t = Main /\ (Goto(t, "exited") \/ Goto(t, "terminated"))

LEMMA PartMoves ==
    ASSUME IInv, NEW t \in Stoppers, PartStep(t)
    PROVE  /\ pc[t] \in {"stop", "join"}
           /\ Moves(t)
           /\ UNCHANGED <<running, begun, made, pipeFlag, pipe, client, early>>
  BY DEF IInv, TypeOK, Placed, PartStep, Moves, StopWorker, JoinWorker, StopHttp,
     JoinHttp, StoppedPart,
         pipes, https, workers, StopOrder

(* What a stopper does to the part itself. *)
LEMMA PartOfWorker ==
    ASSUME IInv, NEW t \in Stoppers, StopWorker(t) \/ JoinWorker(t)
    PROVE  /\ \A w \in Workers : thread'[w] = thread[w]
                                 \/ (thread[w] = "ended" /\ thread'[w] = "joined")
           /\ Part(t) \in Workers
           /\ UNCHANGED https
           /\ part'[t] # part[t] => Ended(thread'[Part(t)])
           /\ flag' \in [Workers -> BOOLEAN]
           /\ thread' \in [Workers -> {"none", "polling", "ended", "joined"}]
  BY LifecycleAssumption DEF IInv, TypeOK, Threads, StopWorker, JoinWorker, StoppedPart,
     Terminate, Goto, Joined, Ended, workers, Stoppers

LEMMA PartOfHttp ==
    ASSUME IInv, NEW t \in Stoppers, StopHttp(t) \/ JoinHttp(t)
    PROVE  /\ UNCHANGED <<flag, thread, reader>>
           /\ Part(t) = "http"
           /\ Ended(http) => Ended(http')
           /\ (~httpFlag)' => Ended(http')
           /\ part'[t] # part[t] => Ended(http')
           /\ http' \in {"none", "starting", "listening", "closing", "ended", "joined"}
  BY LifecycleAssumption DEF IInv, TypeOK, Threads, StopHttp, JoinHttp, StoppedPart,
     Terminate, Goto, Joined, Ended, workers, Stoppers

(* The reader is not taken from a poll loop that runs. *)
LEMMA PartReader ==
    ASSUME IInv, NEW t \in Stoppers, PartStep(t), thread'["gpu"] = "polling", reader
    PROVE  reader'
  <1>1. CASE StopWorker(t)
    BY <1>1 DEF IInv, Threads, StopWorker, ReaderAfter, Joined, Workers
  <1>2. CASE JoinWorker(t)
    BY <1>2 DEF IInv, TypeOK, JoinWorker, ReaderAfter, Workers
  <1>3. CASE StopHttp(t) \/ JoinHttp(t)
    BY <1>3, PartOfHttp
  <1>4. QED BY <1>1, <1>2, <1>3 DEF PartStep

LEMMA PartType ==
    ASSUME IInv, NEW t \in Stoppers, PartStep(t) PROVE TypeOK'
  <1>1. /\ pc' \in [Stoppers -> {"schema", "http", "make", "start", "wait", "pipejoin",
                                 "failed", "exited", "terminated",
                                 "idle", "flag", "pipe", "stop", "join", "done"}]
        /\ part' \in [Stoppers -> 1 .. Len(StopOrder) + 1]
        /\ UNCHANGED <<running, begun, made, pipeFlag, pipe, client, early>>
    BY PartMoves DEF IInv, TypeOK, Placed, Moves, Terminate, Goto, StopOrder
  <1>2. /\ flag' \in [Workers -> BOOLEAN]
        /\ thread' \in [Workers -> {"none", "polling", "ended", "joined"}]
        /\ http' \in {"none", "starting", "listening", "closing", "ended", "joined"}
    BY PartOfWorker, PartOfHttp DEF IInv, TypeOK, PartStep, https
  <1>3. {reader', httpFlag'} \subseteq BOOLEAN
    BY Zenon DEF IInv, TypeOK, PartStep, StopWorker, JoinWorker, StopHttp, JoinHttp,
       ReaderAfter, https, workers
  <1>4. QED BY <1>1, <1>2, <1>3 DEF IInv, TypeOK

LEMMA PartKeeps ==
    ASSUME IInv, NEW t \in Stoppers, PartStep(t) PROVE IInv'
  <1>0. TypeOK' BY PartType
  <1>1. Placed'
    BY PartMoves, LifecycleAssumption DEF IInv, TypeOK, Placed, Moves, Terminate, Goto,
       Stoppers, BeforeParts, StopOrder
  <1>2. Threads'
    <2>1. \A w \in Workers : thread'[w] # "none" => w \in made'
      BY PartMoves, PartOfWorker, PartOfHttp DEF IInv, Threads, PartStep
    <2>2. (~httpFlag)' => Ended(http')
      BY PartOfWorker, PartOfHttp DEF IInv, Threads, PartStep, https
    <2>3. pc'[Main] \in {"stop", "join", "exited"} => pipe' = "joined"
      BY PartMoves DEF IInv, TypeOK, Threads, Moves, Terminate, Goto, Stoppers
    <2>4. QED BY <2>1, <2>2, <2>3 DEF Threads, Ended
  <1>3. Past'
    <2> SUFFICES ASSUME pc'[Main] \in {"stop", "join", "exited"},
                        NEW i \in 1 .. part'[Main] - 1
                 PROVE  IF StopOrder[i] = "http" THEN Ended(http') ELSE Ended(thread'[StopOrder[i]])
      BY DEF Past, Ended
    <2>1. pc[Main] \in {"stop", "join", "exited"}
      BY PartMoves, LifecycleAssumption DEF IInv, TypeOK, Moves, Terminate, Goto, Stoppers
    <2>2. CASE i \in 1 .. part[Main] - 1
      <3>1. /\ IF StopOrder[i] = "http" THEN Ended(http) ELSE Ended(thread[StopOrder[i]])
            /\ StopOrder[i] \in Workers \cup {"http"}
        BY <2>1, <2>2, PartsAreStopped DEF IInv, Past
      <3>2. QED BY <3>1, PartOfWorker, PartOfHttp DEF PartStep, Ended, https
    <2>3. CASE i \notin 1 .. part[Main] - 1
      <3>1. t = Main /\ i = part[Main] /\ part'[t] # part[t] /\ StopOrder[i] = Part(t)
        BY <2>3, PartMoves DEF IInv, TypeOK, Moves, Terminate, Part, Stoppers
      <3>2. QED BY <3>1, PartOfWorker, PartOfHttp DEF PartStep, Workers
    <2>4. QED BY <2>2, <2>3
  <1>4. Warned'
    <2>1. (pc'[Main] = "start") => pc[Main] = "start" /\ t # Main
      BY PartMoves, LifecycleAssumption DEF IInv, TypeOK, Moves, Terminate, Goto, Stoppers
    <2>2. QED BY <2>1, PartMoves, LifecycleAssumption DEF IInv, TypeOK, Warned, Moves,
       Terminate, Goto, Stoppers, Starting
  <1>5. ReaderOutlivesPolling'
    <2>1. ASSUME thread'["gpu"] = "polling" PROVE thread["gpu"] = "polling" /\ UNCHANGED early
      BY <2>1, PartOfWorker, PartOfHttp, PartMoves DEF PartStep, Workers
    <2>2. QED BY <2>1, PartReader DEF IInv, ReaderOutlivesPolling
  <1>6. QED BY <1>0, <1>1, <1>2, <1>3, <1>4, <1>5 DEF IInv

-----------------------------------------------------------------------------
LEMMA InitIsSafe == ASSUME Init PROVE IInv
  <1>1. TypeOK
    <2>1. {running, reader, pipeFlag, httpFlag, early} \subseteq BOOLEAN
      BY Zenon DEF Init
    <2>2. QED BY <2>1 DEF Init, TypeOK, StartOrder, StopOrder
  <1>2. Placed /\ Past /\ Threads /\ Warned /\ ReaderOutlivesPolling
    BY LifecycleAssumption DEF Init, Placed, Past, Threads, Warned, ReaderOutlivesPolling,
       Stoppers, Workers, BeforeParts, StopOrder, Ended
  <1>3. QED BY <1>1, <1>2 DEF IInv

LEMMA NextKeeps == IInv /\ [Next]_vars => IInv'
  <1> SUFFICES ASSUME IInv, [Next]_vars PROVE IInv'
    OBVIOUS
  <1>1. CASE UNCHANGED vars
    BY <1>1 DEF vars, IInv, TypeOK, Placed, Threads, Past, Warned, ReaderOutlivesPolling,
       Ended
  <1>2. ASSUME Next PROVE OthersStep \/ StartStep \/ SignalStep \/ \E t \in Stoppers : PartStep(t)
    BY <1>2 DEF Next, MainStep, HandlerStep, StopperStep, OthersStep, StartStep,
       SignalStep, PartStep, Stoppers
  <1>3. QED BY <1>1, <1>2, OthersKeep, StartKeeps, SignalKeeps, PartKeeps

THEOREM Invariance == Spec => []IInv
  BY InitIsSafe, NextKeeps, PTL DEF Spec

(* The types of every variable of the process that is started and stopped,  *)
(* in every order of signals, failures to start and thread ends.            *)
THEOREM LifecycleTypes == Spec => []TypeOK
  <1>1. IInv => TypeOK BY DEF IInv
  <1>2. QED BY <1>1, Invariance, PTL

(* Service::Run and Service::Stop: what main is past has ended, however     *)
(* many console events come and whenever they come.                         *)
THEOREM PastPartsHaveEnded == Spec => []StoppedMeansStopped
  <1>1. IInv => StoppedMeansStopped BY DEF IInv, Threads, Past, StoppedMeansStopped, Ended
  <1>2. QED BY <1>1, Invariance, PTL

(* DirectGpuCollector::Stop: the reader of a running poll loop is shut down *)
(* only if a signal came while Run was still starting.                      *)
THEOREM ReaderStaysForPolling == Spec => []ReaderOutlivesPolling
  <1>1. IInv => ReaderOutlivesPolling BY DEF IInv
  <1>2. QED BY <1>1, Invariance, PTL
=============================================================================

----------------------------- MODULE GpuClients -----------------------------
(* Those who use the telemetry library: the GPU collector's poll loop, or an *)
(* application that makes a reader and calls it through the C interface      *)
(* (gpu_telemetry_c.cpp) as it likes, or through sample_all.                 *)
EXTENDS GpuPolling

CONSTANT AppNow    \* bound: the application's clock stops here

ASSUME AppNowAssumption == AppNow \in 0 .. MaxNow

VARIABLES
    client,   \* who uses the reader
    handle,   \* is there a reader?
    last,     \* the latest call of gpu_telemetry_reader_sample
    result,   \* what it returned
    out       \* the readings in *out_snapshot

app == <<client, handle, last, result, out>>
clientVars == <<pollVars, app>>

(* over: the call has returned; before: when its GPU's tiers had been read.  *)
NoCall == [gpu |-> None, mode |-> None, before |-> NeverPolled, over |-> FALSE]

Free == last = NoCall \/ last.over
NoResult == last' = NoCall /\ result' = 0 /\ out' = {}

-----------------------------------------------------------------------------
Create ==
    /\ ~handle /\ handle' = TRUE
    /\ NoResult /\ UNCHANGED <<pollVars, client>>

(* delete: ~GpuSensorReader, which shuts down what is initialized, and then  *)
(* the loaders, which do so for themselves.                                  *)
Destroy ==
    /\ handle /\ Idle /\ Free
    /\ handle' = FALSE
    /\ ready' = FALSE /\ contexts' = <<>> /\ found' = NothingFound
    /\ nvapi' = LoaderShutdown(nvapi) /\ nvml' = LoaderShutdown(nvml)
    /\ refused' = {} /\ snaps' = Blank
    /\ asked' = [i \in Gpus |-> NeverPolled]
    /\ NoResult /\ UNCHANGED <<now, todo, start, wake, client>>

InitOrShutdown ==
    /\ handle /\ Free
    /\ InitSucceeds \/ InitFails \/ Shutdown
    /\ NoResult /\ UNCHANGED <<start, wake, client, handle>>

(* gpu_telemetry_reader_sample with any index and mode; out_snapshot is      *)
(* zeroed first of all.                                                      *)
SampleCall ==
    /\ Free /\ Idle
    /\ out' = {} /\ result' = 0
    /\ \E i \in 0 .. NumGpus + 1, mode \in Modes \cup {None} :
          \/ /\ ~handle \/ mode = None \/ ~ready \/ i \notin Gpus
             /\ last' = [NoCall EXCEPT !.over = TRUE]
             /\ UNCHANGED <<todo, refused, snaps>>
          \/ /\ handle /\ mode # None /\ ready /\ i \in Gpus
             /\ last' = [gpu |-> i, mode |-> mode, before |-> asked[i], over |-> FALSE]
             /\ Call(<<i>>, mode)
    /\ UNCHANGED <<now, probeVars, asked, start, wake, client, handle>>

ReadForCall == /\ SampleTier /\ UNCHANGED <<start, wake, app>>

(* Mutant: a full sample only if both of its tiers were read.                *)
SomeReadAll == \A t \in ToSet(TiersOf(last.mode)) : <<last.gpu, t>> \notin refused

SomeRead == \E t \in ToSet(TiersOf(last.mode)) : <<last.gpu, t>> \notin refused

SampleReturns ==
    /\ last # NoCall /\ ~last.over /\ Idle
    /\ last' = [last EXCEPT !.over = TRUE]
    /\ result' = IF SomeRead THEN 1 ELSE 0
    /\ out' = IF SomeRead THEN snaps[last.gpu] ELSE {}
    /\ UNCHANGED <<pollVars, client, handle>>

AllCall ==
    /\ handle /\ Free /\ (Sample \/ SampleAll)
    /\ NoResult /\ UNCHANGED <<start, wake, client, handle>>

AppTick == now < AppNow /\ Tick /\ UNCHANGED <<start, wake, app>>

Application ==
    \/ Create \/ Destroy \/ InitOrShutdown \/ AllCall
    \/ SampleCall \/ ReadForCall \/ SampleReturns \/ AppTick

ClientInit ==
    /\ PollInit
    /\ client \in {"collector", "application"}
    /\ handle = (client = "collector")
    /\ last = NoCall /\ result = 0 /\ out = {}

ClientNext ==
    \/ client = "collector" /\ PollNext /\ UNCHANGED app
    \/ client = "application" /\ Application

ClientSpec == ClientInit /\ [][ClientNext]_clientVars

-----------------------------------------------------------------------------
(* "Returns 1 when a fresh sample was produced" (gpu_telemetry_c.h): when    *)
(* some tier of the mode was read from the driver in this very call, and     *)
(* then the snapshot has readings of those tiers alone; otherwise it is all  *)
(* zeros, whatever earlier calls left behind.                                 *)
SampleIsFresh ==
    last.over =>
        LET read == IF last.gpu = None THEN {}
                    ELSE {t \in ToSet(TiersOf(last.mode)) :
                             asked[last.gpu][t] # last.before[t]}
        IN /\ result = 1 <=> read # {}
           /\ out \subseteq UNION {GroupsOf(t) : t \in read}

(* Whatever init() managed and wherever it failed, however often it was      *)
(* tried, and with or without shutdown(): the reader holds each vendor       *)
(* library once at most, and when it is gone every library it loaded has     *)
(* been freed and every session with a driver closed, none twice             *)
(* (NvmlLoader, NvApiLoader).                                                *)
LibrariesReleased ==
    \A l \in {nvapi, nvml} :
        /\ l.loads \in IF handle THEN {0, 1} ELSE {0}
        /\ l.sessions \in IF handle THEN 0 .. l.loads ELSE {0}
=============================================================================

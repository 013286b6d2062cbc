---------------------------- MODULE GpuTelemetry ----------------------------
(* The GPU telemetry library: GpuSensorReader (gpu_sensor_reader.cpp) over   *)
(* GpuProbe (gpu_probe.cpp), as one thread at a time uses it.                *)
(*                                                                           *)
(* init() lists the GPUs twice, once with NVAPI and once with NVML, and has  *)
(* to find out which NVML device is which NVAPI GPU; it matches PCI bus      *)
(* numbers.  A GPU is its position in NVAPI's list, which is what gpu_index  *)
(* is; NVML may list the same devices in another order, miss some of them    *)
(* and list others that NVAPI does not know.                                 *)
(*                                                                           *)
(* A sample call goes through one or two tiers per GPU, each with its own    *)
(* limit on how often the driver is asked.  Time passes while a call is      *)
(* under way, so the tiers of one call look at different clocks.             *)
EXTENDS Integers, SequencesExt

CONSTANTS
    NumGpus,      \* how many GPUs NVAPI finds
    NumDevices,   \* how many devices there are, these GPUs first
    Bus,          \* the PCI bus number of each device
    MinInterval,  \* kMin...Interval, per tier, in ticks of the clock
    Modes,        \* the sample modes callers use
    DriverFails,  \* whether a call to the driver may fail once it is set up
    MaxNow,       \* bound: the clock stops here
    None          \* no device, no time, no bus number

Gpus == 1..NumGpus
Devices == 1..NumDevices
Tiers == {"thermal_fast", "fast", "medium", "slow", "rare"}
Groups == {"thermals", "clocks", "power", "fans", "vram"}

ASSUME NumGpusAssumption == NumGpus \in Nat \ {0}
ASSUME NumDevicesAssumption == NumDevices \in Nat /\ NumGpus <= NumDevices
ASSUME BusAssumption == Bus \in [Devices -> Nat]
ASSUME MinIntervalAssumption == MinInterval \in [Tiers -> Nat \ {0}]
ASSUME ModesAssumption == Modes \subseteq Tiers \cup {"full"}
ASSUME MaxNowAssumption == MaxNow \in Nat
ASSUME NoneAssumption == None \notin Int /\ None \notin Tiers \cup {"full"}

VARIABLES
    now,       \* steady_clock::now()
    nvapi, nvml,   \* NvApiLoader and NvmlLoader
    ready,     \* GpuSensorReader::initialized_
    contexts,  \* GpuProbe::Impl::gpus_: the NVML device and last_poll of each
    found,     \* what init() was told: NVML's list and NVAPI's bus numbers
    todo,      \* the <<GPU, tier>> pairs the call under way has still to try
    refused,   \* those of the latest call that were refused
    snaps,     \* the groups of readings the latest call filled in, per GPU
    asked      \* when each tier of each GPU was last read since init() (history)

probeVars == <<nvapi, nvml, ready, contexts, found>>
vars == <<now, probeVars, todo, refused, snaps, asked>>

Idle == todo = <<>>
NeverPolled == [t \in Tiers |-> None]
NothingFound == [devices |-> <<>>, busIds |-> [i \in Gpus |-> None]]
Blank == [i \in Gpus |-> {}]

-----------------------------------------------------------------------------
(* A loader: has it the library's handle, is it initialized_, and how often  *)
(* it has loaded the library and opened the driver beyond freeing and        *)
(* closing them.                                                             *)
Unloaded == [dll |-> FALSE, initialized |-> FALSE, loads |-> 0, sessions |-> 0]

LoaderShutdown(l) ==
    [dll |-> FALSE, initialized |-> FALSE,
     loads |-> IF l.dll THEN l.loads - 1 ELSE l.loads,
     sessions |-> IF l.initialized THEN l.sessions - 1 ELSE l.sessions]

Loaded(l) ==
    [dll |-> TRUE, initialized |-> l.initialized,
     loads |-> l.loads + 1, sessions |-> l.sessions]
Opened(l) ==
    [dll |-> l.dll, initialized |-> TRUE,
     loads |-> l.loads, sessions |-> l.sessions + 1]

(* Mutant: what was loaded is not freed when an entry point is missing.      *)
LoaderInitsLeaving(l) ==
    IF l.initialized THEN {l} ELSE {l, Loaded(l), Opened(Loaded(l))}

(* init(): nothing if it was done; else no library, or one that lacks an     *)
(* entry point or does not start and is freed again, or one that works.      *)
LoaderInits(l) ==
    IF l.initialized THEN {l} ELSE {l, LoaderShutdown(Loaded(l)), Opened(Loaded(l))}

-----------------------------------------------------------------------------
(* Initialization and shutdown.                                              *)

(* NVML's list as it may come out: any order, any of the devices missing     *)
(* because get_device_by_index failed, and bus number 0, which a device may  *)
(* have too, for one whose bus id could not be read.                         *)
NvmlLists ==
    LET Entry == [gpu : Devices, bus : {0} \cup {Bus[i] : i \in Devices}]
    IN {list \in BoundedSeq(Entry, NumDevices) :
            /\ \A k \in DOMAIN list : list[k].bus \in {0, Bus[list[k].gpu]}
            /\ \A j, k \in DOMAIN list : list[j].gpu = list[k].gpu => j = k}

(* Mutant: the index taken even when a bus number was there to be matched.   *)
NvmlDeviceByIndex(i, devices, busId) ==
    IF i \in DOMAIN devices THEN devices[i].gpu ELSE None

(* The NVML device taken for the i-th GPU: the first one listed with its bus *)
(* number, or else the one listed at its index.                              *)
NvmlDevice(i, devices, busId) ==
    LET k == SelectInSeq(devices, LAMBDA d : d.bus = busId)
    IN IF busId # None /\ k # 0 THEN devices[k].gpu
       ELSE IF i \in DOMAIN devices THEN devices[i].gpu ELSE None

(* GpuProbe::init all the way to the contexts.  NVML may be missing, and     *)
(* GetBusId may be missing or fail for a GPU.                                *)
InitSucceeds ==
    /\ ~ready /\ Idle
    /\ nvapi' \in {l \in LoaderInits(nvapi) : l.initialized}
    /\ nvml' \in LoaderInits(nvml)
    /\ \E devices \in IF nvml'.initialized THEN NvmlLists ELSE {<<>>},
          known \in SUBSET Gpus :
           found' = [devices |-> devices,
                     busIds |-> [i \in Gpus |-> IF i \in known THEN Bus[i] ELSE None]]
    /\ contexts' = [i \in Gpus |->
           [device |-> NvmlDevice(i, found'.devices, found'.busIds[i]),
            last |-> NeverPolled]]
    /\ ready' = TRUE
    /\ UNCHANGED <<now, todo, refused, snaps, asked>>

(* GpuProbe::init that gives up: there is no NVAPI, or EnumPhysicalGPUs is   *)
(* not to be found, or it fails.  What was loaded stays loaded, and the next *)
(* init() finds it so.                                                       *)
InitFails ==
    /\ ~ready /\ Idle
    /\ nvapi' \in LoaderInits(nvapi)
    /\ nvml' \in IF nvapi'.initialized THEN {nvml} \cup LoaderInits(nvml) ELSE {nvml}
    /\ UNCHANGED <<now, ready, contexts, found, todo, refused, snaps, asked>>

(* Mutant: the vendor libraries unloaded, the list of GPUs kept.             *)
ShutdownKeepingGpus ==
    /\ ready /\ Idle
    /\ ready' = FALSE
    /\ nvapi' = LoaderShutdown(nvapi)
    /\ nvml' = LoaderShutdown(nvml)
    /\ asked' = [i \in Gpus |-> NeverPolled]
    /\ UNCHANGED <<now, contexts, found, todo, refused, snaps>>

Shutdown ==
    /\ ready /\ Idle
    /\ ready' = FALSE
    /\ contexts' = <<>>
    /\ found' = NothingFound
    /\ nvapi' = LoaderShutdown(nvapi)
    /\ nvml' = LoaderShutdown(nvml)
    /\ asked' = [i \in Gpus |-> NeverPolled]
    /\ UNCHANGED <<now, todo, refused, snaps>>

-----------------------------------------------------------------------------
(* Sampling.                                                                 *)

TiersOf(mode) == IF mode = "full" THEN <<"fast", "slow">> ELSE <<mode>>

(* A call for some GPUs clears their snapshots and tries them in turn; an    *)
(* uninitialized reader tries nothing.                                       *)
Call(targets, mode) ==
    /\ Idle
    /\ todo' = IF ready
               THEN FlattenSeq([k \in DOMAIN targets |->
                       [n \in DOMAIN TiersOf(mode) |-> <<targets[k], TiersOf(mode)[n]>>]])
               ELSE <<>>
    /\ refused' = {}
    /\ snaps' = Blank

Sample == \E i \in Gpus, mode \in Modes :
    Call(<<i>>, mode) /\ UNCHANGED <<now, probeVars, asked>>

SampleAll == \E mode \in Modes :
    /\ Call([i \in Gpus |-> i], mode)
    /\ UNCHANGED <<now, probeVars, asked>>

(* Mutant: the time noted before it is compared, so that a refusal counts as *)
(* a read.                                                                   *)
CheckPollRateNoting(last, interval) ==
    [ok |-> last = None \/ now - last >= interval, last |-> now]

CheckPollRate(last, interval) ==
    IF last # None /\ now - last < interval THEN [ok |-> FALSE, last |-> last]
    ELSE [ok |-> TRUE, last |-> now]

GroupsOf(tier) ==
    CASE tier = "thermal_fast" -> {"thermals"}
      [] tier = "fast"         -> {"thermals", "clocks"}
      [] tier = "medium"       -> {"clocks", "power"}
      [] tier = "slow"         -> {"fans", "power", "vram"}
      [] tier = "rare"         -> {"vram"}

(* What reading a tier can fill in: board power and memory come from NVML    *)
(* alone, the rest has a source in NVAPI.                                    *)
Readable(i, tier) ==
    IF contexts[i].device = None THEN GroupsOf(tier) \ {"power", "vram"}
    ELSE GroupsOf(tier)

(* The next tier of the call under way: refused if it was read too recently, *)
(* which leaves the snapshot as it is, or read.                              *)
SampleTier ==
    /\ ~Idle
    /\ todo' = Tail(todo)
    /\ LET i == Head(todo)[1]
           t == Head(todo)[2]
           rate == CheckPollRate(contexts[i].last[t], MinInterval[t])
       IN /\ contexts' = [contexts EXCEPT ![i].last[t] = rate.last]
          /\ \/ /\ ~rate.ok
                /\ refused' = refused \cup {<<i, t>>}
                /\ UNCHANGED <<snaps, asked>>
             \/ /\ rate.ok
                /\ \E got \in IF DriverFails THEN SUBSET Readable(i, t)
                              ELSE {Readable(i, t)} :
                       snaps' = [snaps EXCEPT ![i] = @ \cup got]
                /\ asked' = [asked EXCEPT ![i][t] = now]
                /\ UNCHANGED refused
    /\ UNCHANGED <<now, nvapi, nvml, ready, found>>

Tick ==
    /\ now < MaxNow
    /\ now' = now + 1
    /\ UNCHANGED <<probeVars, todo, refused, snaps, asked>>

-----------------------------------------------------------------------------
Init ==
    /\ now = 0
    /\ nvapi = Unloaded /\ nvml = Unloaded /\ ready = FALSE
    /\ contexts = <<>>
    /\ found = NothingFound
    /\ todo = <<>> /\ refused = {} /\ snaps = Blank
    /\ asked = [i \in Gpus |-> NeverPolled]

Next ==
    \/ InitSucceeds \/ InitFails \/ Shutdown
    \/ Sample \/ SampleAll \/ SampleTier
    \/ Tick

Spec == Init /\ [][Next]_vars

-----------------------------------------------------------------------------
Times == {None} \cup 0..MaxNow

(* A reader is ready exactly while it has its GPUs, and then NVAPI is loaded.*)
(* NVML is loaded only with NVAPI, and it is loaded wherever a GPU has one   *)
(* of its devices: no call reaches a library that was freed.                 *)
TypeOK ==
    /\ now \in 0..MaxNow
    /\ {nvapi, nvml} \subseteq [dll : BOOLEAN, initialized : BOOLEAN,
                                loads : Nat, sessions : Nat]
    /\ ready \in BOOLEAN
    /\ contexts \in IF ready THEN [Gpus -> [device : Devices \cup {None},
                                            last : [Tiers -> Times]]]
                    ELSE {<<>>}
    /\ ready \/ nvml.initialized => nvapi.initialized
    /\ \A i \in DOMAIN contexts : contexts[i].device # None => nvml.initialized
    /\ todo \in Seq(Gpus \X Tiers)
    /\ ~Idle => ready
    /\ refused \subseteq Gpus \X Tiers
    /\ snaps \in [Gpus -> SUBSET Groups]
    /\ asked \in [Gpus -> [Tiers -> Times]]

(* A GPU reports its own memory, power and load whatever order NVML lists    *)
(* the devices in, whichever others it misses or has besides, as long as its *)
(* own device is listed with the bus number NVAPI gives for the GPU          *)
(* (GpuProbe::init, matching by PCI bus ID).  On bus 0 it takes more, since  *)
(* that number also stands for one that could not be read.                   *)
OwnDevice ==
    \A i \in DOMAIN contexts :
        (/\ found.busIds[i] = Bus[i]
         /\ [gpu |-> i, bus |-> Bus[i]] \in ToSet(found.devices)
         /\ Bus[i] = 0 => \A d \in ToSet(found.devices) : d.bus = Bus[d.gpu])
        => contexts[i].device = i

(* A GPU whose bus number NVAPI gives is never read through the device of    *)
(* another: "Falls back to index matching when GetBusId is unavailable"      *)
(* (gpu_probe.cpp).                                                          *)
IndexOnlyWithoutBusId ==
    \A i \in DOMAIN contexts :
        found.busIds[i] # None => contexts[i].device \in {i, None}

(* A caller is turned away only while the reading it asks for is young: a    *)
(* tier of a GPU is refused only if that tier was really read from the       *)
(* driver less than its interval ago, however often it has been asked for    *)
(* since, through whichever modes (check_poll_rate).                         *)
RefusedOnlyWhenRead ==
    [][\A i \in Gpus, t \in Tiers :
           <<i, t>> \in refused' \ refused =>
               /\ asked[i][t] # None
               /\ now - asked[i][t] < MinInterval[t]]_vars
=============================================================================

------------------------------ MODULE GpuProofs ------------------------------
(***************************************************************************)
(* Proofs about GpuClients for every number of GPUs, every list NVML may   *)
(* give, all limits, intervals and delays, and any sequence of calls.      *)
(***************************************************************************)
EXTENDS GpuClients, FoldFacts

(* A loader has its library and its session or neither.                     *)
Running == [dll |-> TRUE, initialized |-> TRUE, loads |-> 1, sessions |-> 1]

Loaders ==
    /\ {nvapi, nvml} \subseteq {Unloaded, Running}
    /\ ready => nvapi = Running
    /\ nvml = Running => nvapi = Running

(* The times the limits are applied to are those of the real reads.         *)
Remembered ==
    \A i \in Gpus, t \in Tiers :
        asked[i][t] = IF ready THEN contexts[i].last[t] ELSE None

(* The devices are still those that init() found.                           *)
Matched ==
    /\ found.devices \in NvmlLists \cup {<<>>}
    /\ \A i \in DOMAIN contexts :
           contexts[i].device = NvmlDevice(i, found.devices, found.busIds[i])

Library == TypeOK /\ Loaders /\ Remembered /\ Matched

(* What the two clients keep beside the library.                            *)
Calls == [gpu : Gpus \cup {None}, mode : Modes \cup {None},
          before : [Tiers -> Times], over : BOOLEAN]

ClientOK ==
    /\ client \in {"collector", "application"}
    /\ handle \in BOOLEAN
    /\ start \in Times /\ wake \in Int \cup {None}
    /\ last \in Calls /\ result \in {0, 1} /\ out \subseteq Groups
    /\ client = "collector" => handle /\ last = NoCall
    /\ client = "application" => start = None /\ wake = 0
    /\ ~handle => nvapi = Unloaded /\ nvml = Unloaded

(* A call under way has its plan before it and its outcome behind it.       *)
ReadSince(i, m, before) == {t \in ToSet(TiersOf(m)) : asked[i][t] # before[t]}

Pending ==
    last # NoCall /\ ~last.over =>
        LET i == last.gpu
            tiers == ToSet(TiersOf(last.mode))
        IN /\ i \in Gpus /\ last.mode \in Modes
           /\ Distinct(todo)
           /\ ToSet(todo) \subseteq {i} \X tiers
           /\ \A t \in tiers :
                 IF <<i, t>> \in ToSet(todo)
                 THEN asked[i][t] = last.before[t] /\ <<i, t>> \notin refused
                 ELSE <<i, t>> \in refused <=> asked[i][t] = last.before[t]
           /\ snaps[i] \subseteq UNION {GroupsOf(t) : t \in ReadSince(i, last.mode, last.before)}

(* A call that is over left nothing to do.                                  *)
Returned == last.over => Idle /\ SampleIsFresh

ClientInv == Library /\ ClientOK /\ Pending /\ Returned

(* The collector's rounds.  The tiers of a round that are still to be tried *)
(* were read long enough before it began, the others have been read in it.  *)
FullTiers == {"fast", "slow"}

Tried(i, t) ==
    /\ contexts[i].last[t] # None
    /\ contexts[i].last[t] <= now
    /\ contexts[i].last[t] <= start + MaxDelay

Ready(i, t) ==
    contexts[i].last[t] # None => start - contexts[i].last[t] >= MinInterval[t]

Whole(i) == IF contexts[i].device = None THEN {"thermals", "clocks", "fans"} ELSE Groups

Rounds ==
    client = "collector" =>
        /\ start = None => wake = 0 /\ Idle /\ asked = [i \in Gpus |-> NeverPolled]
        /\ start # None => ready /\ start <= now
        /\ start # None /\ wake = None =>
              /\ now <= start + MaxDelay
              /\ Distinct(todo)
              /\ ToSet(todo) \subseteq Gpus \X FullTiers
              /\ \A i \in Gpus :
                     /\ snaps[i] \subseteq Whole(i)
                     /\ \A t \in FullTiers :
                           IF <<i, t>> \in ToSet(todo) THEN Ready(i, t)
                           ELSE Tried(i, t) /\ Readable(i, t) \subseteq snaps[i]
        /\ start # None /\ wake # None =>
              /\ wake = start + Interval /\ Idle
              /\ \A i \in Gpus :
                     /\ snaps[i] = Whole(i)
                     /\ \A t \in FullTiers : Tried(i, t)

-----------------------------------------------------------------------------
(* What the operators return.                                               *)
LEMMA LoaderShapes ==
    /\ \A l \in {Unloaded, Running} :
           /\ LoaderInits(l) \subseteq {Unloaded, Running}
           /\ LoaderShutdown(l) = Unloaded
           /\ l.initialized => l = Running
           /\ l \in [dll : BOOLEAN, initialized : BOOLEAN, loads : Nat, sessions : Nat]
    /\ Running.initialized /\ ~Unloaded.initialized
    /\ LoaderInits(Running) = {Running}
  <1>1. Running.initialized /\ ~Unloaded.initialized
    BY DEF Unloaded, Running
  <1>2. LoaderInits(Running) = {Running}
    BY DEF LoaderInits, Running
  <1>3. Opened(Loaded(Unloaded)) = Running /\ LoaderShutdown(Loaded(Unloaded)) = Unloaded
    <2> DEFINE l == [dll |-> TRUE, initialized |-> FALSE, loads |-> 1, sessions |-> 0]
    <2>1. Loaded(Unloaded) = l
      BY DEF Loaded, Unloaded
    <2>2. Opened(l) = Running
      BY DEF Opened, Running
    <2>3. LoaderShutdown(l) = Unloaded
      BY DEF LoaderShutdown, Unloaded
    <2>4. QED BY <2>1, <2>2, <2>3
  <1>4. LoaderInits(Unloaded) = {Unloaded, Running}
    BY <1>1, <1>3 DEF LoaderInits
  <1>5. LoaderShutdown(Unloaded) = Unloaded /\ LoaderShutdown(Running) = Unloaded
    BY DEF LoaderShutdown, Unloaded, Running
  <1>6. \A l \in {Unloaded, Running} :
            l \in [dll : BOOLEAN, initialized : BOOLEAN, loads : Nat, sessions : Nat]
    <2> DEFINE L == [dll : BOOLEAN, initialized : BOOLEAN, loads : Nat, sessions : Nat]
    <2>1. Unloaded \in L
      BY DEF Unloaded
    <2>2. Running \in L
      BY DEF Running
    <2>3. QED BY <2>1, <2>2
  <1>7. QED BY <1>1, <1>2, <1>4, <1>5, <1>6

Lists == NvmlLists \cup {<<>>}

LEMMA ListType ==
    ASSUME NEW devices \in Lists
    PROVE  /\ Len(devices) \in Nat /\ DOMAIN devices = 1 .. Len(devices)
           /\ \A k \in DOMAIN devices : /\ devices[k].gpu \in Devices
                                       /\ devices[k].bus \in {0, Bus[devices[k].gpu]}
  <1>1. CASE devices = <<>>
    BY <1>1
  <1>2. CASE devices \in NvmlLists
    <2> DEFINE Entry == [gpu : Devices, bus : {0} \cup {Bus[i] : i \in Devices}]
    <2>1. /\ devices \in BoundedSeq(Entry, NumDevices)
          /\ \A k \in DOMAIN devices : devices[k].bus \in {0, Bus[devices[k].gpu]}
      BY <1>2 DEF NvmlLists
    <2>2. PICK m \in 0 .. NumDevices : devices \in [1 .. m -> Entry]
      BY <2>1 DEF BoundedSeq, SeqOf
    <2>3. Len(devices) = m
      BY <2>2, NumDevicesAssumption
    <2>4. QED BY <2>1, <2>2, <2>3
  <1>3. QED BY <1>1, <1>2 DEF Lists

LEMMA DeviceFound ==
    ASSUME NEW i \in Gpus, NEW devices \in Lists, NEW busId
    PROVE  /\ NvmlDevice(i, devices, busId) \in Devices \cup {None}
           /\ devices = <<>> => NvmlDevice(i, devices, busId) = None
  <1> DEFINE I == {k \in 1 .. Len(devices) : devices[k].bus = busId}
             j == IF I # {} THEN Min(I) ELSE 0
  <1>1. NvmlDevice(i, devices, busId) =
            IF busId # None /\ j # 0 THEN devices[j].gpu
            ELSE IF i \in DOMAIN devices THEN devices[i].gpu ELSE None
    BY DEF NvmlDevice, SelectInSeq
  <1>2. j # 0 => j \in DOMAIN devices
    <2>1. I \subseteq Nat
      OBVIOUS
    <2>2. I # {} => Min(I) \in I
      BY <2>1, MinIsIn
    <2>3. QED BY <2>2, ListType
  <1> HIDE DEF j
  <1>3. QED BY <1>1, <1>2, ListType

LEMMA OwnFound ==
    ASSUME NEW i \in Gpus, NEW devices \in Lists,
           [gpu |-> i, bus |-> Bus[i]] \in ToSet(devices),
           Bus[i] = 0 => \A d \in ToSet(devices) : d.bus = Bus[d.gpu],
           \A g, h \in Devices : Bus[g] = Bus[h] => g = h
    PROVE  NvmlDevice(i, devices, Bus[i]) = i
  <1> DEFINE I == {k \in 1 .. Len(devices) : devices[k].bus = Bus[i]}
             j == IF I # {} THEN Min(I) ELSE 0
  <1>1. i \in Devices /\ Bus[i] \in Nat /\ Bus[i] # None
    BY BusAssumption, NumGpusAssumption, NumDevicesAssumption, NoneAssumption DEF Gpus, Devices
  <1>2. PICK k \in DOMAIN devices : devices[k] = [gpu |-> i, bus |-> Bus[i]]
    BY DEF ToSet
  <1>3. k \in I /\ I \subseteq Nat
    BY <1>2, ListType
  <1>4. Min(I) \in I
    <2> HIDE DEF I
    <2>1. QED BY <1>3, MinIsIn
  <1>5. j \in DOMAIN devices /\ devices[j].bus = Bus[i] /\ j # 0
    BY <1>3, <1>4, ListType
  <1>6. NvmlDevice(i, devices, Bus[i]) =
            IF Bus[i] # None /\ j # 0 THEN devices[j].gpu
            ELSE IF i \in DOMAIN devices THEN devices[i].gpu ELSE None
    BY DEF NvmlDevice, SelectInSeq
  <1> HIDE DEF j
  <1>7. devices[j].gpu \in Devices /\ devices[j].bus = Bus[devices[j].gpu]
    BY <1>5, ListType DEF ToSet
  <1>8. devices[j].gpu = i
    BY <1>1, <1>5, <1>7
  <1>9. QED BY <1>1, <1>5, <1>6, <1>8

LEMMA TiersType ==
    ASSUME NEW m \in Tiers \cup {"full"}
    PROVE  /\ TiersOf(m) \in Seq(Tiers) /\ Len(TiersOf(m)) \in {1, 2}
           /\ Distinct(TiersOf(m))
           /\ ToSet(TiersOf(m)) = IF m = "full" THEN {"fast", "slow"} ELSE {m}
  <1>1. CASE m = "full"
    BY <1>1 DEF TiersOf, Tiers, Distinct, ToSet
  <1>2. CASE m # "full"
    BY <1>2 DEF TiersOf, Tiers, Distinct, ToSet
  <1>3. QED BY <1>1, <1>2

LEMMA GroupsType ==
    \A t \in Tiers : GroupsOf(t) \subseteq Groups
  BY DEF Tiers, GroupsOf, Groups

(* The pairs a call has to try: each tier of its mode for each of its GPUs, *)
(* none twice.                                                              *)
Plan(targets, m) ==
    FlattenSeq([k \in DOMAIN targets |->
        [n \in DOMAIN TiersOf(m) |-> <<targets[k], TiersOf(m)[n]>>]])

LEMMA PlanType ==
    ASSUME NEW n \in Nat, NEW targets \in [1 .. n -> Gpus], Distinct(targets),
           NEW m \in Tiers \cup {"full"}
    PROVE  /\ Plan(targets, m) \in Seq(Gpus \X Tiers)
           /\ Distinct(Plan(targets, m))
           /\ ToSet(Plan(targets, m)) = ToSet(targets) \X ToSet(TiersOf(m))
  <1> DEFINE ts == TiersOf(m)
             Row(k) == [l \in DOMAIN ts |-> <<targets[k], ts[l]>>]
             ss == [k \in 1 .. n |-> Row(k)]
  <1>1. /\ ts \in Seq(Tiers) /\ Distinct(ts)
        /\ Len(ts) \in Nat /\ DOMAIN ts = 1 .. Len(ts)
    BY TiersType
  <1>2. Plan(targets, m) = FlattenSeq(ss)
    BY DEF Plan
  <1> HIDE DEF ts
  <1>3. ASSUME NEW k \in 1 .. n
        PROVE  /\ Row(k) \in Seq(Gpus \X Tiers) /\ Distinct(Row(k))
               /\ ToSet(Row(k)) = {targets[k]} \X ToSet(ts)
    <2>1. Row(k) \in [1 .. Len(ts) -> Gpus \X Tiers]
      BY <1>1
    <2>2. Row(k) \in Seq(Gpus \X Tiers)
      BY <1>1, <2>1
    <2>3. Distinct(Row(k))
      BY <1>1 DEF Distinct
    <2>4. ToSet(Row(k)) = {targets[k]} \X ToSet(ts)
      BY <1>1 DEF ToSet
    <2>5. QED BY <2>2, <2>3, <2>4
  <1>4. ss \in [1 .. n -> Seq(Gpus \X Tiers)]
        /\ \A k \in 1 .. n : Distinct(ss[k]) /\ ToSet(ss[k]) = {targets[k]} \X ToSet(ts)
    BY <1>3
  <1> HIDE DEF ss
  <1>5. \A k, l \in 1 .. n : k # l => ToSet(ss[k]) \cap ToSet(ss[l]) = {}
    <2>1. SUFFICES ASSUME NEW k \in 1 .. n, NEW l \in 1 .. n, k # l
                   PROVE ToSet(ss[k]) \cap ToSet(ss[l]) = {}
      OBVIOUS
    <2>2. targets[k] # targets[l]
      BY <2>1 DEF Distinct
    <2>3. ToSet(ss[k]) = {targets[k]} \X ToSet(ts) /\ ToSet(ss[l]) = {targets[l]} \X ToSet(ts)
      BY <1>4
    <2>4. ({targets[k]} \X ToSet(ts)) \cap ({targets[l]} \X ToSet(ts)) = {}
      BY <2>2
    <2>5. QED BY <2>3, <2>4, Zenon
  <1>6. /\ FlattenSeq(ss) \in Seq(Gpus \X Tiers) /\ Distinct(FlattenSeq(ss))
        /\ ToSet(FlattenSeq(ss)) = UNION {ToSet(ss[k]) : k \in 1 .. n}
    <2> DEFINE P == Gpus \X Tiers
    <2>1. ss \in [1 .. n -> Seq(P)] /\ \A k \in 1 .. n : Distinct(ss[k])
      BY <1>4, Zenon
    <2> HIDE DEF P
    <2>2. FlattenSeq(ss) \in Seq(P) /\ Distinct(FlattenSeq(ss))
          /\ ToSet(FlattenSeq(ss)) = UNION {ToSet(ss[k]) : k \in 1 .. n}
      BY <1>5, <2>1, FlattenDistinct
    <2>3. QED BY <2>2 DEF P
  <1>7. UNION {ToSet(ss[k]) : k \in 1 .. n} = ToSet(targets) \X ToSet(ts)
    <2>1. ToSet(targets) = {targets[k] : k \in 1 .. n}
      BY DEF ToSet
    <2>2. \A k \in 1 .. n : ToSet(ss[k]) = {targets[k]} \X ToSet(ts)
      BY <1>4
    <2>3. QED BY <2>1, <2>2
  <1>8. QED BY <1>2, <1>6, <1>7 DEF ts

-----------------------------------------------------------------------------
(* What each operation of the library does, in the terms of the invariant.  *)
Contexts == [Gpus -> [device : Devices \cup {None}, last : [Tiers -> Times]]]

(* One poll time is set, the rest is as it was.                             *)
Noted(i, t, v) ==
    /\ contexts' \in Contexts
    /\ \A j \in Gpus : contexts'[j].device = contexts[j].device
    /\ \A j \in Gpus, u \in Tiers :
           contexts'[j].last[u] = IF j = i /\ u = t THEN v ELSE contexts[j].last[u]

Refuse(i, t) ==
    /\ contexts[i].last[t] # None /\ now - contexts[i].last[t] < MinInterval[t]
    /\ Noted(i, t, contexts[i].last[t])
    /\ refused' = refused \cup {<<i, t>>}
    /\ UNCHANGED <<snaps, asked>>

ReadTier(i, t) ==
    /\ contexts[i].last[t] = None \/ now - contexts[i].last[t] >= MinInterval[t]
    /\ Noted(i, t, now)
    /\ asked' = [asked EXCEPT ![i][t] = now]
    /\ \E got \in SUBSET Readable(i, t) :
           /\ snaps' = [snaps EXCEPT ![i] = @ \cup got]
           /\ ~DriverFails => got = Readable(i, t)
    /\ UNCHANGED refused

Try(i, t) ==
    /\ ready /\ todo # <<>> /\ Head(todo) = <<i, t>> /\ todo' = Tail(todo)
    /\ UNCHANGED <<now, nvapi, nvml, ready, found>>
    /\ Refuse(i, t) \/ ReadTier(i, t)

LEMMA TierTried ==
    ASSUME TypeOK, SampleTier PROVE \E i \in Gpus, t \in Tiers : Try(i, t)
  <1>1. todo # <<>> /\ todo \in Seq(Gpus \X Tiers) /\ ready
    BY DEF TypeOK, SampleTier, Idle
  <1>2. Head(todo) \in Gpus \X Tiers
    BY <1>1
  <1>3. PICK i \in Gpus, t \in Tiers : Head(todo) = <<i, t>>
    BY <1>2
  <1>4. contexts \in Contexts /\ now \in Times
    BY <1>1 DEF TypeOK, Contexts, Times
  <1> DEFINE old == contexts[i].last[t]
             rate == CheckPollRate(old, MinInterval[t])
  <1>5. old \in Times /\ MinInterval[t] \in Nat \ {0}
    BY <1>4, MinIntervalAssumption DEF Contexts
  <1>6. /\ todo' = Tail(todo)
        /\ UNCHANGED <<now, nvapi, nvml, ready, found>>
        /\ contexts' = [contexts EXCEPT ![i].last[t] = rate.last]
        /\ \/ /\ ~rate.ok /\ refused' = refused \cup {<<i, t>>}
              /\ UNCHANGED <<snaps, asked>>
           \/ /\ rate.ok
              /\ \E got \in IF DriverFails THEN SUBSET Readable(i, t) ELSE {Readable(i, t)} :
                     snaps' = [snaps EXCEPT ![i] = @ \cup got]
              /\ asked' = [asked EXCEPT ![i][t] = now]
              /\ UNCHANGED refused
    <2>1. Head(todo)[1] = i /\ Head(todo)[2] = t
      BY <1>3
    <2>2. QED BY <2>1, Zenon DEF SampleTier
  <1>7. CASE old # None /\ now - old < MinInterval[t]
    <2>1. rate = [ok |-> FALSE, last |-> old]
      BY <1>7 DEF CheckPollRate
    <2>2. ~rate.ok /\ rate.last = old
      BY <2>1
    <2> HIDE DEF rate
    <2>3. Noted(i, t, old)
      BY <1>4, <1>5, <1>6, <2>2 DEF Noted, Contexts
    <2>4. Refuse(i, t)
      BY <1>6, <1>7, <2>2, <2>3 DEF Refuse
    <2>5. QED BY <1>1, <1>3, <1>6, <2>4 DEF Try
  <1>8. CASE ~(old # None /\ now - old < MinInterval[t])
    <2>1. rate = [ok |-> TRUE, last |-> now]
      BY <1>8 DEF CheckPollRate
    <2>2. rate.ok /\ rate.last = now
      BY <2>1
    <2>0. old = None \/ now - old >= MinInterval[t]
      <3>1. old # None => old \in Int /\ now \in Int
        BY <1>5 DEF Times, TypeOK
      <3>2. QED BY <1>5, <1>8, <3>1
    <2> HIDE DEF rate
    <2>3. Noted(i, t, now)
      BY <1>4, <1>5, <1>6, <2>2 DEF Noted, Contexts
    <2>4. ReadTier(i, t)
      BY <1>6, <2>0, <2>2, <2>3 DEF ReadTier
    <2>5. QED BY <1>1, <1>3, <1>6, <2>4 DEF Try
  <1>9. QED BY <1>7, <1>8

-----------------------------------------------------------------------------
(* The library keeps its own invariant, whoever calls it.                   *)
LEMMA NeverPolledType == NeverPolled \in [Tiers -> Times]
  BY DEF NeverPolled, Times

LEMMA InitIsLibrary == Init => Library
  <1> SUFFICES ASSUME Init PROVE Library
    OBVIOUS
  <1>1. ready = FALSE
    BY DEF Init
  <1>2. TypeOK
    <2>1. {nvapi, nvml} \subseteq {Unloaded, Running} /\ ~nvml.initialized
      BY LoaderShapes DEF Init
    <2>2. {nvapi, nvml} \subseteq [dll : BOOLEAN, initialized : BOOLEAN,
                                  loads : Nat, sessions : Nat]
      BY <2>1, LoaderShapes
    <2>3. asked \in [Gpus -> [Tiers -> Times]] /\ snaps \in [Gpus -> SUBSET Groups]
      BY NeverPolledType DEF Init, Blank
    <2>4. contexts = <<>> /\ todo = <<>> /\ refused = {} /\ now = 0
      BY DEF Init
    <2>5. \A i \in DOMAIN contexts : contexts[i].device # None => nvml.initialized
      BY <2>4
    <2>6. now \in 0 .. MaxNow /\ todo \in Seq(Gpus \X Tiers) /\ refused \subseteq Gpus \X Tiers
      BY <2>4, MaxNowAssumption
    <2>7. Idle
      BY <2>4 DEF Idle
    <2> HIDE DEF Idle
    <2>8. contexts \in IF ready THEN Contexts ELSE {<<>>}
      BY <1>1, <2>4
    <2>9. QED BY <1>1, <2>1, <2>2, <2>3, <2>5, <2>6, <2>7, <2>8 DEF TypeOK, Contexts
  <1>3. Loaders /\ Matched
    BY <1>1, LoaderShapes DEF Init, Loaders, Matched, NothingFound, Running, Unloaded
  <1>4. Remembered
    BY <1>1 DEF Init, Remembered, NeverPolled
  <1>5. QED BY <1>2, <1>3, <1>4 DEF Library

LEMMA InitSucceedsKeeps ==
    ASSUME Library, InitSucceeds PROVE Library'
  <1>1. ready' = TRUE /\ ready = FALSE /\ Idle /\ UNCHANGED <<now, todo, refused, snaps, asked>>
    BY DEF InitSucceeds, Library, TypeOK
  <1>2. /\ nvapi' = Running
        /\ nvml' \in {Unloaded, Running}
    BY LoaderShapes DEF InitSucceeds, Library, Loaders
  <1>3. PICK devices \in IF nvml'.initialized THEN NvmlLists ELSE {<<>>},
             known \in SUBSET Gpus :
           found' = [devices |-> devices,
                     busIds |-> [i \in Gpus |-> IF i \in known THEN Bus[i] ELSE None]]
    BY DEF InitSucceeds
  <1>4. found'.devices = devices /\ devices \in Lists
        /\ (~nvml'.initialized => devices = <<>>)
    BY <1>3 DEF Lists
  <1>5. contexts' = [i \in Gpus |->
           [device |-> NvmlDevice(i, found'.devices, found'.busIds[i]),
            last |-> NeverPolled]]
    BY DEF InitSucceeds
  <1>6. \A i \in Gpus :
            /\ NvmlDevice(i, found'.devices, found'.busIds[i]) \in Devices \cup {None}
            /\ ~nvml'.initialized => NvmlDevice(i, found'.devices, found'.busIds[i]) = None
    BY <1>4, DeviceFound
  <1>7. contexts' \in Contexts
    BY <1>5, <1>6, NeverPolledType DEF Contexts
  <1>8. \A i \in DOMAIN contexts' : contexts'[i].device # None => nvml'.initialized
    BY <1>5, <1>6
  <1>9. {nvapi, nvml}' \subseteq [dll : BOOLEAN, initialized : BOOLEAN,
                                 loads : Nat, sessions : Nat]
    BY <1>2, LoaderShapes
  <1>10. nvapi'.initialized
    BY <1>2, LoaderShapes
  <1>11. TypeOK'
    BY <1>1, <1>7, <1>8, <1>9, <1>10 DEF Library, TypeOK, Contexts, Idle, Times
  <1>12. Loaders'
    BY <1>2 DEF Loaders
  <1>13. Remembered'
    BY <1>1, <1>5 DEF Library, Remembered, NeverPolled
  <1>14. Matched'
    BY <1>4, <1>5 DEF Matched, Lists
  <1>15. QED BY <1>11, <1>12, <1>13, <1>14 DEF Library

LEMMA InitFailsKeeps ==
    ASSUME Library, InitFails PROVE Library'
  <1>1. ready = FALSE /\ UNCHANGED <<now, ready, contexts, found, todo, refused, snaps, asked>>
    BY DEF InitFails, Library, TypeOK
  <1>2. /\ nvapi' \in {Unloaded, Running} /\ nvml' \in {Unloaded, Running}
        /\ nvml' = Running => nvapi' = Running
    <2>1. nvapi \in {Unloaded, Running} /\ nvml \in {Unloaded, Running}
          /\ (nvml = Running => nvapi = Running)
      BY DEF Library, Loaders
    <2>2. nvapi' \in {Unloaded, Running} /\ (nvapi = Running => nvapi' = Running)
      BY <2>1, LoaderShapes DEF InitFails
    <2>3. CASE nvapi'.initialized
      BY <2>1, <2>2, <2>3, LoaderShapes DEF InitFails
    <2>4. CASE ~nvapi'.initialized
      BY <2>1, <2>2, <2>4, LoaderShapes DEF InitFails
    <2>5. QED BY <2>3, <2>4
  <1>3. contexts' = <<>>
    BY <1>1 DEF Library, TypeOK
  <1>4. {nvapi, nvml}' \subseteq [dll : BOOLEAN, initialized : BOOLEAN,
                                 loads : Nat, sessions : Nat]
    BY <1>2, LoaderShapes
  <1>5. ready' \/ nvml'.initialized => nvapi'.initialized
    BY <1>1, <1>2, LoaderShapes
  <1>6. TypeOK'
    BY <1>1, <1>3, <1>4, <1>5 DEF Library, TypeOK, Idle, Times
  <1>7. Loaders' /\ Remembered' /\ Matched'
    BY <1>1, <1>2 DEF Library, Loaders, Remembered, Matched
  <1>8. QED BY <1>6, <1>7 DEF Library

(* Shutting down, or deleting the reader.                                   *)
LEMMA ReleaseKeeps ==
    ASSUME Library, Idle, ready' = FALSE, contexts' = <<>>, found' = NothingFound,
           nvapi' = LoaderShutdown(nvapi), nvml' = LoaderShutdown(nvml),
           asked' = [i \in Gpus |-> NeverPolled], UNCHANGED <<now, todo>>,
           refused' \in {refused, {}}, snaps' \in {snaps, Blank}
    PROVE  Library' /\ nvapi' = Unloaded /\ nvml' = Unloaded
  <1>1. nvapi' = Unloaded /\ nvml' = Unloaded
    BY LoaderShapes DEF Library, Loaders
  <1>2. refused' \subseteq Gpus \X Tiers /\ snaps' \in [Gpus -> SUBSET Groups]
    BY DEF Library, TypeOK, Blank
  <1>3. asked' \in [Gpus -> [Tiers -> Times]]
    BY NeverPolledType
  <1>4. {nvapi, nvml}' \subseteq [dll : BOOLEAN, initialized : BOOLEAN,
                                 loads : Nat, sessions : Nat]
        /\ ~nvml'.initialized
    BY <1>1, LoaderShapes
  <1>5. todo' = <<>> /\ todo' \in Seq(Gpus \X Tiers)
    BY DEF Idle
  <1>6. TypeOK'
    <2>1. now' \in 0 .. MaxNow
      BY DEF Library, TypeOK
    <2>2. \A i \in DOMAIN contexts' : contexts'[i].device # None => nvml'.initialized
      OBVIOUS
    <2>3. QED BY <1>2, <1>3, <1>4, <1>5, <2>1, <2>2 DEF TypeOK, Idle
  <1>7. Loaders' /\ Matched'
    BY <1>1, LoaderShapes DEF Loaders, Matched, NothingFound
  <1>8. Remembered'
    BY DEF Remembered, NeverPolled
  <1>9. QED BY <1>1, <1>6, <1>7, <1>8 DEF Library

LEMMA ShutdownKeeps ==
    ASSUME Library, Shutdown PROVE Library'
  BY ReleaseKeeps DEF Shutdown

LEMMA CallKeeps ==
    ASSUME Library, NEW n \in Nat, NEW targets \in [1 .. n -> Gpus], Distinct(targets),
           NEW m \in Tiers \cup {"full"}, Call(targets, m), UNCHANGED <<now, probeVars, asked>>
    PROVE  /\ Library' /\ Idle
           /\ refused' = {} /\ snaps' = Blank
           /\ todo' = IF ready THEN Plan(targets, m) ELSE <<>>
           /\ Distinct(todo')
           /\ ready => ToSet(todo') = ToSet(targets) \X ToSet(TiersOf(m))
  <1>1. Idle /\ refused' = {} /\ snaps' = Blank
        /\ todo' = IF ready THEN Plan(targets, m) ELSE <<>>
    BY DEF Call, Plan
  <1>3. /\ todo' \in Seq(Gpus \X Tiers) /\ Distinct(todo')
        /\ ready => ToSet(todo') = ToSet(targets) \X ToSet(TiersOf(m))
    BY <1>1, PlanType DEF Distinct
  <1>4. todo' # <<>> => ready
    BY <1>1
  <1>5. UNCHANGED <<now, nvapi, nvml, ready, contexts, found, asked>>
    BY DEF probeVars
  <1>6. TypeOK'
    BY <1>1, <1>3, <1>4, <1>5 DEF Library, TypeOK, Idle, Blank, Times
  <1>7. Loaders' /\ Remembered' /\ Matched'
    BY <1>5 DEF Library, Loaders, Remembered, Matched
  <1>8. QED BY <1>1, <1>3, <1>6, <1>7 DEF Library

LEMMA TryKeeps ==
    ASSUME Library, NEW i \in Gpus, NEW t \in Tiers, Try(i, t)
    PROVE  Library'
  <1>1. /\ ready /\ ready' = ready /\ Noted(i, t, contexts'[i].last[t])
        /\ UNCHANGED <<now, nvapi, nvml, found>>
        /\ todo # <<>> /\ todo' = Tail(todo)
    BY DEF Try, Refuse, ReadTier, Noted
  <1>2. todo' \in Seq(Gpus \X Tiers)
    BY <1>1 DEF Library, TypeOK
  <1>3. refused' \subseteq Gpus \X Tiers
    BY DEF Library, TypeOK, Try, Refuse, ReadTier
  <1>4. snaps' \in [Gpus -> SUBSET Groups]
    <2>1. Readable(i, t) \subseteq Groups
      BY GroupsType DEF Readable
    <2>2. QED BY <2>1 DEF Library, TypeOK, Try, Refuse, ReadTier
  <1>5. asked' \in [Gpus -> [Tiers -> Times]]
    <2>1. now \in Times /\ asked \in [Gpus -> [Tiers -> Times]]
      BY DEF Library, TypeOK, Times
    <2>2. asked' = asked \/ asked' = [asked EXCEPT ![i][t] = now]
      BY DEF Try, Refuse, ReadTier
    <2>3. QED BY <2>1, <2>2
  <1>6. contexts' \in Contexts /\ \A j \in Gpus : contexts'[j].device = contexts[j].device
    BY <1>1 DEF Noted
  <1>7. contexts \in Contexts
    BY <1>1 DEF Library, TypeOK, Contexts
  <1>8. TypeOK'
    BY <1>1, <1>2, <1>3, <1>4, <1>5, <1>6, <1>7 DEF Library, TypeOK, Contexts, Idle, Times
  <1>9. Loaders'
    BY <1>1 DEF Library, Loaders
  <1>10. Matched'
    BY <1>1, <1>6, <1>7 DEF Library, Matched, Contexts
  <1>11. Remembered'
    <2>1. asked \in [Gpus -> [Tiers -> Times]]
          /\ \A j \in Gpus, u \in Tiers : asked[j][u] = contexts[j].last[u]
      BY <1>1 DEF Library, TypeOK, Remembered
    <2>2. CASE Refuse(i, t)
      BY <1>1, <2>1, <2>2 DEF Refuse, Noted, Remembered
    <2>3. CASE ReadTier(i, t)
      BY <1>1, <2>1, <2>3 DEF ReadTier, Noted, Remembered
    <2>4. QED BY <2>2, <2>3 DEF Try
  <1>12. QED BY <1>8, <1>9, <1>10, <1>11 DEF Library

LEMMA TickKeeps ==
    ASSUME Library, Tick PROVE Library'
  <1>1. now' \in 0 .. MaxNow
    BY MaxNowAssumption DEF Library, TypeOK, Tick
  <1>2. UNCHANGED <<nvapi, nvml, ready, contexts, found, todo, refused, snaps, asked>>
    BY DEF Tick, probeVars
  <1>3. QED BY <1>1, <1>2 DEF Library, TypeOK, Loaders, Remembered, Matched, Idle, Times

LEMMA LibraryStays ==
    ASSUME Library, UNCHANGED vars PROVE Library'
  BY DEF vars, probeVars, Library, TypeOK, Loaders, Remembered, Matched, Idle, Times

LEMMA AllGpus ==
    /\ NumGpus \in Nat
    /\ [i \in Gpus |-> i] \in [1 .. NumGpus -> Gpus] /\ Distinct([i \in Gpus |-> i])
    /\ ToSet([i \in Gpus |-> i]) = Gpus
    /\ \A i \in Gpus : /\ <<i>> \in [1 .. 1 -> Gpus] /\ Distinct(<<i>>)
                       /\ ToSet(<<i>>) = {i}
  BY NumGpusAssumption DEF Gpus, Distinct, ToSet

LEMMA SampleKeeps ==
    ASSUME Library, Sample \/ SampleAll PROVE Library'
  <1>1. CASE Sample
    <2>1. PICK i \in Gpus, m \in Modes : Call(<<i>>, m) /\ UNCHANGED <<now, probeVars, asked>>
      BY <1>1 DEF Sample
    <2>2. 1 \in Nat /\ <<i>> \in [1 .. 1 -> Gpus] /\ Distinct(<<i>>)
      BY AllGpus
    <2>3. QED BY <2>1, <2>2, CallKeeps, ModesAssumption
  <1>2. CASE SampleAll
    <2> DEFINE all == [i \in Gpus |-> i]
    <2>1. PICK m \in Modes : Call(all, m) /\ UNCHANGED <<now, probeVars, asked>>
      BY <1>2 DEF SampleAll
    <2>2. NumGpus \in Nat /\ all \in [1 .. NumGpus -> Gpus] /\ Distinct(all)
      BY AllGpus
    <2> HIDE DEF all
    <2>3. QED BY <2>1, <2>2, CallKeeps, ModesAssumption
  <1>3. QED BY <1>1, <1>2

LEMMA LibraryKept ==
    ASSUME Library, [ClientNext]_clientVars PROVE Library'
  <1>1. CASE UNCHANGED clientVars
    BY <1>1, LibraryStays DEF clientVars, pollVars
  <1>2. CASE PollNext
    <2>1. CASE Initialize
      BY <2>1, InitSucceedsKeeps DEF Initialize
    <2>2. CASE Poll
      <3> DEFINE all == [i \in Gpus |-> i]
      <3>1. Call(all, "full") /\ UNCHANGED <<now, probeVars, asked>>
        BY <2>2 DEF Poll
      <3>2. NumGpus \in Nat /\ all \in [1 .. NumGpus -> Gpus] /\ Distinct(all)
        BY AllGpus
      <3> HIDE DEF all
      <3>3. QED BY <3>1, <3>2, CallKeeps
    <2>3. CASE Read
      BY <2>3, TierTried, TryKeeps DEF Read, Library
    <2>4. CASE Sleep
      BY <2>4, LibraryStays DEF Sleep
    <2>5. CASE PollTick
      BY <2>5, TickKeeps DEF PollTick
    <2>6. QED BY <1>2, <2>1, <2>2, <2>3, <2>4, <2>5 DEF PollNext
  <1>3. CASE Application
    <2>1. CASE Create
      BY <2>1, LibraryStays DEF Create, pollVars
    <2>2. CASE Destroy
      BY <2>2, ReleaseKeeps DEF Destroy
    <2>3. CASE InitOrShutdown
      BY <2>3, InitSucceedsKeeps, InitFailsKeeps, ShutdownKeeps DEF InitOrShutdown
    <2>4. CASE AllCall
      BY <2>4, SampleKeeps DEF AllCall
    <2>5. CASE SampleCall
      <3>1. CASE UNCHANGED <<todo, refused, snaps>>
        BY <2>5, <3>1, LibraryStays DEF SampleCall, vars
      <3>2. ASSUME NEW i \in Gpus, NEW m \in Modes, Call(<<i>>, m) PROVE Library'
        <4>1. UNCHANGED <<now, probeVars, asked>>
          BY <2>5 DEF SampleCall
        <4>2. 1 \in Nat /\ <<i>> \in [1 .. 1 -> Gpus] /\ Distinct(<<i>>)
          BY AllGpus
        <4>3. QED BY <3>2, <4>1, <4>2, CallKeeps, ModesAssumption
      <3>3. QED BY <2>5, <3>1, <3>2 DEF SampleCall
    <2>6. CASE ReadForCall
      BY <2>6, TierTried, TryKeeps DEF ReadForCall, Library
    <2>7. CASE SampleReturns
      BY <2>7, LibraryStays DEF SampleReturns, pollVars
    <2>8. CASE AppTick
      BY <2>8, TickKeeps DEF AppTick
    <2>9. QED BY <1>3, <2>1, <2>2, <2>3, <2>4, <2>5, <2>6, <2>7, <2>8 DEF Application
  <1>4. QED BY <1>1, <1>2, <1>3 DEF ClientNext

-----------------------------------------------------------------------------
(* The two clients.                                                         *)
LEMMA NoCallType == NoCall \in Calls /\ ~NoCall.over
  BY NeverPolledType DEF NoCall, Calls

(* What a step of the collector or of the application leaves alone.         *)
LEMMA WhoMoves ==
    ASSUME Library, ClientOK, [ClientNext]_clientVars
    PROVE  /\ client' = client
           /\ client = "collector" => UNCHANGED app
           /\ client = "application" => UNCHANGED <<start, wake>>
           /\ ~handle' => ~handle \/ Destroy
           /\ ~handle' => nvapi' = Unloaded /\ nvml' = Unloaded
  <1>1. CASE UNCHANGED clientVars
    BY <1>1 DEF clientVars, pollVars, vars, probeVars, app, ClientOK
  <1>2. CASE client = "collector" /\ PollNext /\ UNCHANGED app
    BY <1>2 DEF app, ClientOK
  <1>3. CASE client = "application" /\ Application
    <2>1. CASE Destroy
      <3>1. nvapi' = Unloaded /\ nvml' = Unloaded
        BY <2>1, ReleaseKeeps DEF Destroy
      <3>2. QED BY <1>3, <2>1, <3>1 DEF Destroy
    <2>2. CASE Create \/ SampleReturns
      BY <1>3, <2>2 DEF Create, SampleReturns, pollVars, vars, probeVars, ClientOK
    <2>3. CASE InitOrShutdown \/ AllCall
      BY <1>3, <2>3 DEF InitOrShutdown, AllCall
    <2>4. CASE SampleCall
      BY <1>3, <2>4 DEF SampleCall, probeVars, ClientOK
    <2>5. CASE ReadForCall \/ AppTick
      BY <1>3, <2>5 DEF ReadForCall, AppTick, app, SampleTier, Tick, probeVars, ClientOK
    <2>6. QED BY <1>3, <2>1, <2>2, <2>3, <2>4, <2>5 DEF Application
  <1>4. QED BY <1>1, <1>2, <1>3 DEF ClientNext

LEMMA WakeType ==
    ASSUME Library, ClientOK, [ClientNext]_clientVars
    PROVE  start' \in Times /\ wake' \in Int \cup {None}
  <1>1. start \in Times /\ wake \in Int \cup {None} /\ now \in 0 .. MaxNow
    BY DEF Library, TypeOK, ClientOK
  <1>2. CASE client = "application"
    BY <1>1, <1>2, WhoMoves
  <1>3. CASE Poll
    BY <1>1, <1>3 DEF Poll, Times
  <1>4. CASE Sleep
    BY <1>1, <1>4, IntervalAssumption DEF Sleep, NextRound, Times
  <1>5. CASE UNCHANGED <<start, wake>>
    BY <1>1, <1>5
  <1>6. QED
    BY <1>2, <1>3, <1>4, <1>5
    DEF ClientOK, ClientNext, PollNext, Initialize, Read, PollTick, clientVars, pollVars

LEMMA CallType ==
    ASSUME Library, ClientOK, Pending, [ClientNext]_clientVars
    PROVE  last' \in Calls /\ result' \in {0, 1} /\ out' \subseteq Groups /\ handle' \in BOOLEAN
  <1>1. last \in Calls /\ result \in {0, 1} /\ out \subseteq Groups /\ handle \in BOOLEAN
    BY DEF ClientOK
  <1>2. CASE UNCHANGED app
    BY <1>1, <1>2 DEF app
  <1>3. CASE NoResult /\ handle' \in BOOLEAN
    BY <1>1, <1>3, NoCallType DEF NoResult
  <1>4. CASE SampleCall
    <2>1. result' = 0 /\ out' = {} /\ handle' = handle
      BY <1>4 DEF SampleCall
    <2>2. [NoCall EXCEPT !.over = TRUE] \in Calls
      BY NoCallType DEF Calls
    <2>3. ASSUME NEW i \in Gpus, NEW m \in Modes
          PROVE  [gpu |-> i, mode |-> m, before |-> asked[i], over |-> FALSE] \in Calls
      BY DEF Calls, Library, TypeOK
    <2>4. last' \in Calls
      BY <1>4, <2>2, <2>3 DEF SampleCall
    <2>5. QED BY <1>1, <2>1, <2>4
  <1>5. CASE SampleReturns
    <2>1. last.gpu \in Gpus
      BY <1>5 DEF SampleReturns, Pending
    <2>2. snaps[last.gpu] \subseteq Groups
      BY <2>1 DEF Library, TypeOK
    <2>3. result' \in {0, 1} /\ out' \subseteq Groups /\ handle' = handle
      BY <1>5, <2>2 DEF SampleReturns
    <2>4. last' \in Calls
      BY <1>1, <1>5 DEF SampleReturns, Calls
    <2>5. QED BY <1>1, <2>3, <2>4
  <1>6. ASSUME Create \/ Destroy \/ InitOrShutdown \/ AllCall PROVE handle' \in BOOLEAN /\ NoResult
    BY <1>1, <1>6 DEF Create, Destroy, InitOrShutdown, AllCall
  <1>7. QED
    BY <1>2, <1>3, <1>4, <1>5, <1>6
    DEF ClientNext, Application, ReadForCall, AppTick, clientVars

LEMMA ClientKept ==
    ASSUME Library, ClientOK, Pending, [ClientNext]_clientVars PROVE ClientOK'
  <1>1. client' \in {"collector", "application"}
    BY WhoMoves DEF ClientOK
  <1>2. client' = "collector" => handle' /\ last' = NoCall
    BY WhoMoves DEF ClientOK, app
  <1>3. client' = "application" => start' = None /\ wake' = 0
    BY WhoMoves DEF ClientOK
  <1>4. QED BY <1>1, <1>2, <1>3, WhoMoves, WakeType, CallType DEF ClientOK

-----------------------------------------------------------------------------
(* The application's call, from its plan to its result.                     *)
CallUnderWay == last # NoCall /\ ~last.over

LEMMA PendingTry ==
    ASSUME Library, ClientOK, Pending, SampleTier, UNCHANGED last PROVE Pending'
  <1>1. SUFFICES ASSUME CallUnderWay PROVE Pending'
    BY DEF Pending, CallUnderWay
  <1> DEFINE i == last.gpu
             m == last.mode
             tiers == ToSet(TiersOf(m))
             before == last.before
  <1>2. /\ i \in Gpus /\ m \in Modes /\ Distinct(todo)
        /\ ToSet(todo) \subseteq {i} \X tiers
        /\ \A t \in tiers :
              IF <<i, t>> \in ToSet(todo)
              THEN asked[i][t] = before[t] /\ <<i, t>> \notin refused
              ELSE <<i, t>> \in refused <=> asked[i][t] = before[t]
        /\ snaps[i] \subseteq UNION {GroupsOf(t) : t \in ReadSince(i, m, before)}
    BY <1>1 DEF Pending, CallUnderWay
  <1>3. before \in [Tiers -> Times]
    BY DEF ClientOK, Calls
  <1>4. tiers \subseteq Tiers
    <2>1. m \in Tiers \cup {"full"}
      BY <1>2, ModesAssumption
    <2>2. QED BY <2>1, TiersType DEF Tiers
  <1>5. PICK j \in Gpus, t \in Tiers : Try(j, t)
    BY TierTried DEF Library
  <1>6. /\ todo # <<>> /\ todo \in Seq(Gpus \X Tiers) /\ ready
        /\ Head(todo) = <<j, t>> /\ todo' = Tail(todo) /\ now' = now
    BY <1>5 DEF Try, Library, TypeOK
  <1>7. /\ Distinct(todo') /\ <<j, t>> \in ToSet(todo)
        /\ ToSet(todo') = ToSet(todo) \ {<<j, t>>}
    <2> DEFINE P == Gpus \X Tiers
    <2>1. todo \in Seq(P) /\ todo # <<>> /\ Distinct(todo)
      BY <1>2, <1>6
    <2> HIDE DEF P
    <2>2. /\ Distinct(Tail(todo)) /\ Head(todo) \in ToSet(todo)
          /\ ToSet(Tail(todo)) = ToSet(todo) \ {Head(todo)}
      BY <2>1, TailOfDistinct
    <2>3. QED BY <1>6, <2>2
  <1>8. j = i /\ t \in tiers
    BY <1>2, <1>7
  <1> HIDE DEF i, m, tiers, before
  <1>9. asked[i][t] = before[t] /\ <<i, t>> \notin refused
    BY <1>2, <1>7, <1>8
  <1>10. asked \in [Gpus -> [Tiers -> Times]] /\ snaps \in [Gpus -> SUBSET Groups]
         /\ now \in 0 .. MaxNow /\ asked[i][t] = contexts[i].last[t]
    BY <1>2, <1>6, <1>4, <1>8 DEF Library, TypeOK, Remembered
  <1>11. CASE Refuse(i, t)
    <2>1. asked' = asked /\ snaps' = snaps /\ refused' = refused \cup {<<i, t>>}
      BY <1>11 DEF Refuse
    <2>2. ASSUME NEW u \in tiers
          PROVE  IF <<i, u>> \in ToSet(todo')
                 THEN asked'[i][u] = before[u] /\ <<i, u>> \notin refused'
                 ELSE <<i, u>> \in refused' <=> asked'[i][u] = before[u]
      BY <1>2, <1>7, <1>8, <1>9, <2>1
    <2>3. ReadSince(i, m, before)' = ReadSince(i, m, before)
      BY <2>1 DEF ReadSince, i, m, before
    <2>4. snaps'[i] \subseteq UNION {GroupsOf(u) : u \in ReadSince(i, m, before)'}
      BY <1>2, <2>1, <2>3
    <2>5. ToSet(todo') \subseteq {i} \X tiers
      BY <1>2, <1>7
    <2>6. QED BY <1>2, <1>7, <2>2, <2>4, <2>5 DEF Pending, i, m, tiers, before
  <1>12. CASE ReadTier(i, t)
    <2>1. asked' = [asked EXCEPT ![i][t] = now] /\ refused' = refused
      BY <1>12 DEF ReadTier
    <2>2. PICK got \in SUBSET Readable(i, t) : snaps' = [snaps EXCEPT ![i] = @ \cup got]
      BY <1>12 DEF ReadTier
    <2>3. now # before[t]
      <3>1. before[t] = None \/ now - before[t] >= MinInterval[t]
        BY <1>9, <1>10, <1>12 DEF ReadTier
      <3>2. MinInterval[t] \in Nat \ {0} /\ before[t] \in {None} \cup Int
        BY <1>3, MinIntervalAssumption DEF Times
      <3>3. QED BY <1>10, <3>1, <3>2, NoneAssumption
    <2>4. asked'[i][t] = now /\ \A u \in Tiers : u # t => asked'[i][u] = asked[i][u]
      BY <1>2, <1>10, <2>1
    <2>5. ASSUME NEW u \in tiers
          PROVE  IF <<i, u>> \in ToSet(todo')
                 THEN asked'[i][u] = before[u] /\ <<i, u>> \notin refused'
                 ELSE <<i, u>> \in refused' <=> asked'[i][u] = before[u]
      BY <1>2, <1>4, <1>7, <1>8, <1>9, <2>1, <2>3, <2>4
    <2>6. UNCHANGED <<i, m, before, tiers>>
      BY DEF i, m, before, tiers
    <2>7. /\ t \in ReadSince(i, m, before)'
          /\ ReadSince(i, m, before) \subseteq ReadSince(i, m, before)'
      BY <1>4, <1>8, <1>9, <2>3, <2>4, <2>6 DEF ReadSince, tiers
    <2>8. got \subseteq GroupsOf(t)
      BY <2>2 DEF Readable
    <2>9. snaps'[i] = snaps[i] \cup got
      BY <1>2, <1>10, <2>2
    <2>10. snaps'[i] \subseteq UNION {GroupsOf(u) : u \in ReadSince(i, m, before)'}
      BY <1>2, <2>7, <2>8, <2>9
    <2>11. ToSet(todo') \subseteq {i} \X tiers
      BY <1>2, <1>7
    <2>12. QED BY <1>2, <1>7, <2>5, <2>10, <2>11 DEF Pending, i, m, tiers, before
  <1>13. QED BY <1>5, <1>8, <1>11, <1>12 DEF Try

LEMMA PendingCall ==
    ASSUME Library, ClientOK, SampleCall PROVE Pending' /\ Returned'
  <1>1. Idle /\ out' = {} /\ result' = 0
    BY DEF SampleCall
  <1>2. CASE last' = [NoCall EXCEPT !.over = TRUE] /\ UNCHANGED <<todo, refused, snaps>>
    <2>1. last'.over /\ last'.gpu = None
      BY <1>2 DEF NoCall
    <2>2. Pending'
      BY <2>1 DEF Pending
    <2>3. Idle'
      BY <1>1, <1>2 DEF Idle
    <2>4. SampleIsFresh'
      BY <1>1, <2>1 DEF SampleIsFresh
    <2>5. QED BY <2>2, <2>3, <2>4 DEF Returned
  <1>3. ASSUME NEW i \in Gpus, NEW m \in Modes, ready,
               last' = [gpu |-> i, mode |-> m, before |-> asked[i], over |-> FALSE],
               Call(<<i>>, m)
        PROVE  Pending' /\ Returned'
    <2>1. ~last'.over
      BY <1>3
    <2>2. UNCHANGED <<now, probeVars, asked>>
      BY DEF SampleCall
    <2>3. m \in Tiers \cup {"full"}
      BY ModesAssumption
    <2>4. 1 \in Nat /\ <<i>> \in [1 .. 1 -> Gpus] /\ Distinct(<<i>>) /\ ToSet(<<i>>) = {i}
      BY AllGpus
    <2>5. /\ refused' = {} /\ snaps' = Blank /\ Distinct(todo')
          /\ ToSet(todo') = {i} \X ToSet(TiersOf(m))
      BY <1>3, <2>2, <2>3, <2>4, CallKeeps
    <2>6. \A t \in ToSet(TiersOf(m)) :
              <<i, t>> \in ToSet(todo') /\ asked'[i][t] = last'.before[t] /\ <<i, t>> \notin refused'
      BY <1>3, <2>2, <2>5
    <2>7. last'.gpu = i /\ last'.mode = m /\ snaps'[i] = {}
      BY <1>3, <2>5 DEF Blank
    <2>8. Pending'
      BY <2>5, <2>6, <2>7 DEF Pending
    <2>9. QED BY <2>1, <2>8 DEF Returned
  <1>4. QED BY <1>2, <1>3 DEF SampleCall

LEMMA PendingReturns ==
    ASSUME Library, ClientOK, Pending, SampleReturns PROVE Pending' /\ Returned'
  <1> DEFINE i == last.gpu
             m == last.mode
             tiers == ToSet(TiersOf(m))
             read == {t \in tiers : asked[i][t] # last.before[t]}
  <1>1. /\ last # NoCall /\ ~last.over /\ todo = <<>> /\ last \in Calls
        /\ last' = [last EXCEPT !.over = TRUE]
        /\ UNCHANGED <<todo, refused, snaps, asked>>
    BY DEF SampleReturns, Idle, ClientOK, pollVars, vars
  <1>2. last'.over /\ last'.gpu = i /\ last'.mode = m /\ last'.before = last.before
    BY <1>1 DEF Calls
  <1>3. ToSet(todo) = {}
    BY <1>1 DEF ToSet
  <1>4. /\ i \in Gpus
        /\ \A t \in tiers : <<i, t>> \in refused <=> asked[i][t] = last.before[t]
        /\ snaps[i] \subseteq UNION {GroupsOf(t) : t \in read}
    BY <1>1, <1>3 DEF Pending, ReadSince
  <1>5. SomeRead <=> read # {}
    BY <1>4 DEF SomeRead
  <1>6. result' = IF SomeRead THEN 1 ELSE 0
    BY DEF SampleReturns
  <1>7. out' = IF SomeRead THEN snaps[i] ELSE {}
    BY DEF SampleReturns
  <1>8. i # None
    BY <1>4, NoneAssumption DEF Gpus
  <1>9. (IF last'.gpu = None THEN {}
         ELSE {t \in ToSet(TiersOf(last'.mode)) : asked'[last'.gpu][t] # last'.before[t]}) = read
    BY <1>1, <1>2, <1>8
  <1> HIDE DEF i, m, tiers, read
  <1>10. (result' = 1 <=> read # {}) /\ out' \subseteq UNION {GroupsOf(t) : t \in read}
    BY <1>4, <1>5, <1>6, <1>7
  <1>11. SampleIsFresh'
    BY <1>9, <1>10 DEF SampleIsFresh
  <1>12. QED BY <1>1, <1>2, <1>11 DEF Pending, Returned, Idle

LEMMA CallsKept ==
    ASSUME ClientInv, [ClientNext]_clientVars PROVE Pending' /\ Returned'
  <1> USE DEF ClientInv
  <1>1. CASE NoResult
    BY <1>1, NoCallType DEF NoResult, Pending, Returned
  <1>2. CASE SampleTier /\ UNCHANGED app
    <2>1. UNCHANGED last /\ ~last.over
      BY <1>2 DEF app, SampleTier, Returned
    <2>2. QED BY <1>2, <2>1, PendingTry DEF Returned
  <1>3. CASE SampleCall
    BY <1>3, PendingCall
  <1>4. CASE SampleReturns
    BY <1>4, PendingReturns
  <1>5. CASE client = "collector" /\ UNCHANGED app
    BY <1>5, NoCallType DEF ClientOK, app, Pending, Returned
  <1>6. CASE UNCHANGED <<todo, refused, snaps, asked>> /\ UNCHANGED app
    BY <1>6 DEF Pending, Returned, app, ReadSince, Idle, SampleIsFresh
  <1>7. ASSUME Create \/ Destroy \/ InitOrShutdown \/ AllCall PROVE NoResult
    BY <1>7 DEF Create, Destroy, InitOrShutdown, AllCall
  <1>8. ASSUME AppTick PROVE UNCHANGED <<todo, refused, snaps, asked>> /\ UNCHANGED app
    BY <1>8 DEF AppTick, Tick, app
  <1>9. ASSUME ReadForCall PROVE SampleTier /\ UNCHANGED app
    BY <1>9 DEF ReadForCall, app
  <1>10. ASSUME UNCHANGED clientVars
         PROVE UNCHANGED <<todo, refused, snaps, asked>> /\ UNCHANGED app
    BY <1>10 DEF clientVars, pollVars, vars, app
  <1>11. QED
    BY <1>1, <1>2, <1>3, <1>4, <1>5, <1>6, <1>7, <1>8, <1>9, <1>10
    DEF ClientNext, Application

-----------------------------------------------------------------------------
(* The collector's rounds, when the driver answers and the interval leaves  *)
(* time for the longest round and for each of the limits after it.          *)
Leisurely ==
    /\ ~DriverFails
    /\ \A t \in FullTiers : Interval >= MinInterval[t] + MaxDelay

LEMMA WholeIsBothTiers ==
    ASSUME NEW i \in Gpus
    PROVE  Whole(i) = Readable(i, "fast") \cup Readable(i, "slow")
  BY DEF Whole, Readable, GroupsOf, Groups

LEMMA PollStarts ==
    ASSUME Leisurely, Library, ClientOK, Rounds, client = "collector", Poll PROVE Rounds'
  <1>1. /\ ready /\ wake # None /\ now >= wake /\ start' = now /\ wake' = None
        /\ UNCHANGED <<now, ready, contexts, asked>>
    BY DEF Poll, probeVars
  <1>2. now \in 0 .. MaxNow /\ now # None /\ start \in Times /\ contexts \in Contexts
    BY <1>1, NoneAssumption DEF Library, TypeOK, ClientOK, Contexts
  <1>3. /\ Distinct(todo') /\ snaps' = Blank
        /\ ToSet(todo') = Gpus \X FullTiers
    <2> DEFINE all == [i \in Gpus |-> i]
    <2>1. Call(all, "full") /\ UNCHANGED <<now, probeVars, asked>>
      BY DEF Poll
    <2>2. NumGpus \in Nat /\ all \in [1 .. NumGpus -> Gpus] /\ Distinct(all) /\ ToSet(all) = Gpus
      BY AllGpus
    <2>3. "full" \in Tiers \cup {"full"} /\ ToSet(TiersOf("full")) = FullTiers
      BY TiersType DEF FullTiers
    <2> HIDE DEF all
    <2>4. QED BY <1>1, <2>1, <2>2, <2>3, CallKeeps
  <1>4. ASSUME NEW i \in Gpus, NEW t \in FullTiers PROVE Ready(i, t)'
    <2>1. t \in Tiers
      BY DEF Tiers, FullTiers
    <2>2. contexts[i].last[t] \in Times /\ MinInterval[t] \in Nat
      BY <1>2, <2>1, MinIntervalAssumption DEF Contexts
    <2>3. CASE start = None
      <3>1. asked[i][t] = None
        BY <2>1, <2>3 DEF Rounds, NeverPolled
      <3>2. contexts[i].last[t] = None
        BY <1>1, <2>1, <3>1 DEF Library, Remembered
      <3>3. QED BY <1>1, <3>2 DEF Ready
    <2>4. CASE start # None
      <3>1. wake = start + Interval /\ Tried(i, t)
        BY <1>1, <2>4 DEF Rounds
      <3>2. now >= start + MinInterval[t] + MaxDelay
        BY <1>1, <1>2, <2>2, <2>4, <3>1, IntervalAssumption, MaxDelayAssumption
        DEF Leisurely, Times
      <3>3. contexts[i].last[t] \in Int /\ contexts[i].last[t] <= start + MaxDelay
        BY <2>2, <3>1 DEF Tried, Times
      <3>4. now - contexts[i].last[t] >= MinInterval[t]
        BY <1>2, <2>2, <2>4, <3>2, <3>3, MaxDelayAssumption DEF Times
      <3>5. QED BY <1>1, <3>4 DEF Ready
    <2>5. QED BY <2>3, <2>4
  <1>5. \A i \in Gpus : snaps'[i] = {}
    BY <1>3 DEF Blank
  <1>6. start' # None /\ start' <= now' /\ now' <= start' + MaxDelay
    BY <1>1, <1>2, MaxDelayAssumption
  <1>7. \A i \in Gpus, t \in FullTiers : <<i, t>> \in ToSet(todo')
    BY <1>3
  <1>8. QED BY <1>1, <1>3, <1>4, <1>5, <1>6, <1>7 DEF Rounds

LEMMA RoundReads ==
    ASSUME Leisurely, Library, ClientOK, Rounds, client = "collector", Read PROVE Rounds'
  <1>1. SampleTier /\ UNCHANGED <<start, wake>> /\ todo # <<>>
    BY DEF Read, SampleTier, Idle
  <1>2. start # None /\ wake = None /\ ready /\ start <= now
    BY <1>1 DEF Rounds, Idle
  <1>3. /\ now <= start + MaxDelay
        /\ Distinct(todo)
        /\ ToSet(todo) \subseteq Gpus \X FullTiers
        /\ \A i \in Gpus : snaps[i] \subseteq Whole(i)
        /\ \A i \in Gpus, t \in FullTiers :
              IF <<i, t>> \in ToSet(todo) THEN Ready(i, t)
              ELSE Tried(i, t) /\ Readable(i, t) \subseteq snaps[i]
    BY <1>2 DEF Rounds
  <1>4. /\ now \in 0 .. MaxNow /\ start \in Int /\ contexts \in Contexts
        /\ snaps \in [Gpus -> SUBSET Groups] /\ todo \in Seq(Gpus \X Tiers)
    BY <1>2 DEF Library, TypeOK, ClientOK, Contexts, Times
  <1>5. PICK i \in Gpus, t \in Tiers : Try(i, t)
    BY <1>1, TierTried DEF Library
  <1>6. Head(todo) = <<i, t>> /\ todo' = Tail(todo) /\ UNCHANGED <<now, ready>>
    BY <1>5 DEF Try
  <1>7. /\ Distinct(todo') /\ <<i, t>> \in ToSet(todo)
        /\ ToSet(todo') = ToSet(todo) \ {<<i, t>>}
    <2> DEFINE P == Gpus \X Tiers
    <2>1. todo \in Seq(P) /\ todo # <<>> /\ Distinct(todo)
      BY <1>1, <1>3, <1>4
    <2> HIDE DEF P
    <2>2. /\ Distinct(Tail(todo)) /\ Head(todo) \in ToSet(todo)
          /\ ToSet(Tail(todo)) = ToSet(todo) \ {Head(todo)}
      BY <2>1, TailOfDistinct
    <2>3. QED BY <1>6, <2>2
  <1>8. t \in FullTiers /\ Ready(i, t)
    BY <1>3, <1>7
  <1>9. contexts[i].last[t] \in Times /\ MinInterval[t] \in Nat \ {0}
    BY <1>4, MinIntervalAssumption DEF Contexts
  <1>10. ~Refuse(i, t)
    <2>1. CASE contexts[i].last[t] = None
      BY <2>1 DEF Refuse
    <2>2. CASE contexts[i].last[t] # None
      <3>1. contexts[i].last[t] \in Int
        BY <1>9, <2>2 DEF Times
      <3>2. now - contexts[i].last[t] >= MinInterval[t]
        BY <1>2, <1>4, <1>8, <1>9, <2>2, <3>1 DEF Ready
      <3>3. QED BY <1>4, <1>9, <3>1, <3>2 DEF Refuse
    <2>3. QED BY <2>1, <2>2
  <1>11. Noted(i, t, now) /\ snaps' = [snaps EXCEPT ![i] = @ \cup Readable(i, t)]
    BY <1>5, <1>10 DEF Try, ReadTier, Leisurely
  <1>12. \A j \in Gpus : Whole(j)' = Whole(j) /\ \A u \in Tiers : Readable(j, u)' = Readable(j, u)
    BY <1>11 DEF Noted, Whole, Readable
  <1>13. Readable(i, t) \subseteq Whole(i)
    BY <1>8, WholeIsBothTiers DEF FullTiers
  <1>14. \A j \in Gpus : snaps'[j] = IF j = i THEN snaps[i] \cup Readable(i, t) ELSE snaps[j]
    BY <1>4, <1>11
  <1>15. \A j \in Gpus : snaps'[j] \subseteq Whole(j)'
    BY <1>3, <1>12, <1>13, <1>14
  <1>16. ASSUME NEW j \in Gpus, NEW u \in FullTiers
         PROVE  IF <<j, u>> \in ToSet(todo') THEN Ready(j, u)'
                ELSE Tried(j, u)' /\ (Readable(j, u) \subseteq snaps[j])'
    <2>0. u \in Tiers
      BY DEF FullTiers, Tiers
    <2>1. CASE j = i /\ u = t
      <3>1. contexts'[j].last[u] = now /\ now # None /\ now <= start + MaxDelay /\ now' = now
        BY <1>3, <1>4, <1>6, <1>11, <2>1, NoneAssumption DEF Noted
      <3>2. Tried(j, u)'
        BY <1>1, <1>4, <3>1 DEF Tried
      <3>3. Readable(j, u)' \subseteq snaps'[j]
        BY <1>12, <1>14, <2>0, <2>1
      <3>4. QED BY <1>7, <2>1, <3>2, <3>3
    <2>2. CASE ~(j = i /\ u = t)
      <3>1. contexts'[j].last[u] = contexts[j].last[u]
        BY <1>11, <2>0, <2>2 DEF Noted
      <3>2. <<j, u>> \in ToSet(todo') <=> <<j, u>> \in ToSet(todo)
        BY <1>7, <2>2
      <3>3. Ready(j, u)' = Ready(j, u) /\ Tried(j, u)' = Tried(j, u)
        BY <1>1, <1>6, <3>1 DEF Ready, Tried
      <3>4. Readable(j, u) \subseteq snaps[j] => Readable(j, u)' \subseteq snaps'[j]
        BY <1>12, <1>14, <2>0
      <3>5. QED BY <1>3, <3>2, <3>3, <3>4
    <2>3. QED BY <2>1, <2>2
  <1>17. /\ ToSet(todo') \subseteq Gpus \X FullTiers
         /\ start' # None /\ wake' = None /\ ready' /\ start' <= now' /\ now' <= start' + MaxDelay
    BY <1>1, <1>2, <1>3, <1>6, <1>7
  <1>18. QED BY <1>7, <1>15, <1>16, <1>17 DEF Rounds

LEMMA RoundEnds ==
    ASSUME Leisurely, Library, ClientOK, Rounds, client = "collector", Sleep PROVE Rounds'
  <1>1. start # None /\ todo = <<>> /\ wake = None /\ wake' = NextRound
        /\ UNCHANGED <<now, ready, contexts, todo, snaps, start>>
    BY DEF Sleep, Idle, vars, probeVars
  <1>2. /\ ready /\ start <= now /\ now <= start + MaxDelay
        /\ \A i \in Gpus :
              /\ snaps[i] \subseteq Whole(i)
              /\ \A t \in FullTiers : Tried(i, t) /\ Readable(i, t) \subseteq snaps[i]
    BY <1>1 DEF Rounds, ToSet
  <1>3. now \in Int /\ start \in Int
    BY <1>1 DEF Library, TypeOK, ClientOK, Times
  <1>4. Interval > MaxDelay
    <2>1. "fast" \in FullTiers /\ "fast" \in Tiers
      BY DEF FullTiers, Tiers
    <2>2. QED BY <2>1, MinIntervalAssumption, IntervalAssumption, MaxDelayAssumption
       DEF Leisurely
  <1>5. wake' = start + Interval /\ wake' # None
    BY <1>1, <1>2, <1>3, <1>4, IntervalAssumption, MaxDelayAssumption, NoneAssumption
       DEF NextRound
  <1>6. \A i \in Gpus : snaps[i] = Whole(i)
    BY <1>2, WholeIsBothTiers DEF FullTiers
  <1>7. \A i \in Gpus : Whole(i)' = Whole(i) /\ \A t \in FullTiers : Tried(i, t)' = Tried(i, t)
    BY <1>1 DEF Whole, Tried
  <1>8. QED BY <1>1, <1>2, <1>5, <1>6, <1>7 DEF Rounds, Idle

LEMMA RoundWaits ==
    ASSUME Leisurely, Library, ClientOK, Rounds, client = "collector", PollTick PROVE Rounds'
  <1>1. /\ now' = now + 1 /\ (wake = None => now < start + MaxDelay)
        /\ UNCHANGED <<start, wake, ready, contexts, todo, snaps, asked>>
    BY DEF PollTick, Tick, probeVars
  <1>2. now \in Int /\ start \in Times /\ (ready => contexts \in Contexts)
    BY DEF Library, TypeOK, ClientOK, Contexts
  <1>3. start # None => start \in Int
    BY <1>2 DEF Times
  <1>4. ASSUME start # None, NEW i \in Gpus
        PROVE  /\ Whole(i)' = Whole(i)
               /\ \A t \in FullTiers : /\ Ready(i, t) => Ready(i, t)'
                                       /\ Tried(i, t) => Tried(i, t)'
                                       /\ Readable(i, t)' = Readable(i, t)
    <2>1. ready
      BY <1>4 DEF Rounds
    <2>2. \A t \in FullTiers : contexts[i].last[t] \in Times
      BY <1>2, <2>1 DEF Contexts, FullTiers, Tiers
    <2>3. \A t \in FullTiers : Tried(i, t) => Tried(i, t)'
      BY <1>1, <1>2, <2>2 DEF Tried, Times
    <2>4. QED BY <1>1, <2>3 DEF Whole, Ready, Readable
  <1>5. CASE start = None
    BY <1>1, <1>5 DEF Rounds, Idle
  <1>6. CASE start # None /\ wake = None
    <2>1. now' <= start' + MaxDelay /\ start' <= now'
      BY <1>1, <1>2, <1>3, <1>6, MaxDelayAssumption DEF Rounds
    <2>2. QED BY <1>1, <1>4, <1>6, <2>1 DEF Rounds
  <1>7. CASE start # None /\ wake # None
    <2>1. start' <= now'
      BY <1>1, <1>2, <1>3, <1>7 DEF Rounds
    <2>2. QED BY <1>1, <1>4, <1>7, <2>1 DEF Rounds, Idle
  <1>8. QED BY <1>5, <1>6, <1>7

LEMMA RoundsKept ==
    ASSUME Leisurely, Library, ClientOK, Rounds, [ClientNext]_clientVars PROVE Rounds'
  <1>1. CASE client # "collector"
    BY <1>1, WhoMoves DEF Rounds
  <1>2. CASE UNCHANGED clientVars
    BY <1>2 DEF clientVars, pollVars, vars, probeVars, app, Rounds, Idle, Whole, Tried,
       Ready, Readable
  <1>3. CASE client = "collector" /\ PollNext
    <2>1. CASE Initialize
      <3>1. start = None /\ UNCHANGED <<start, wake, todo, asked>>
        BY <2>1 DEF Initialize, InitSucceeds
      <3>2. QED BY <1>3, <3>1 DEF Rounds, Idle
    <2>2. QED BY <1>3, <2>1, PollStarts, RoundReads, RoundEnds, RoundWaits DEF PollNext
  <1>4. QED BY <1>1, <1>2, <1>3, WhoMoves DEF ClientNext, ClientOK

-----------------------------------------------------------------------------
LEMMA ClientStarts == ClientInit => ClientInv /\ Rounds
  <1> SUFFICES ASSUME ClientInit PROVE ClientInv /\ Rounds
    OBVIOUS
  <1>1. Init /\ start = None /\ wake = 0 /\ last = NoCall /\ result = 0 /\ out = {}
        /\ client \in {"collector", "application"}
    BY DEF ClientInit, PollInit
  <1>2. handle = (client = "collector")
    BY DEF ClientInit
  <1>3. handle \in BOOLEAN /\ (client = "collector" => handle)
    BY <1>2
  <1>4. Library /\ nvapi = Unloaded /\ nvml = Unloaded
    BY <1>1, InitIsLibrary DEF Init
  <1>5. ClientOK
    BY <1>1, <1>3, <1>4, NoCallType DEF ClientOK, Times
  <1>6. Pending /\ Returned
    BY <1>1, NoCallType DEF Pending, Returned
  <1>7. Rounds
    BY <1>1 DEF Rounds, Init, Idle
  <1>8. QED BY <1>4, <1>5, <1>6, <1>7 DEF ClientInv

LEMMA ClientStep ==
    ClientInv /\ [ClientNext]_clientVars => ClientInv'
  <1> SUFFICES ASSUME ClientInv, [ClientNext]_clientVars PROVE ClientInv'
    OBVIOUS
  <1>1. Library' /\ ClientOK'
    BY LibraryKept, ClientKept DEF ClientInv
  <1>2. Pending' /\ Returned'
    BY CallsKept
  <1>3. QED BY <1>1, <1>2 DEF ClientInv

(* The library, its callers and the call under way keep to the invariant.   *)
THEOREM Invariance == ClientSpec => []ClientInv
  <1>1. QED BY ClientStarts, ClientStep, PTL DEF ClientSpec

(* A reader is ready exactly while it has its GPUs, and every device they   *)
(* are read through belongs to a library that is loaded and started         *)
(* (GpuProbe::init and shutdown, NvmlLoader).                               *)
THEOREM LibraryTypes == ClientSpec => []TypeOK
  <1>1. ClientInv => TypeOK
    BY DEF ClientInv, Library
  <1>2. QED BY <1>1, Invariance, PTL

(* No library is loaded twice or left loaded by a reader that is gone,      *)
(* however init() fails and however often it is called (NvmlLoader,         *)
(* NvApiLoader).                                                            *)
THEOREM NothingLeftLoaded == ClientSpec => []LibrariesReleased
  <1>1. ClientInv => LibrariesReleased
    <2> SUFFICES ASSUME ClientInv PROVE LibrariesReleased
      OBVIOUS
    <2>1. nvapi \in {Unloaded, Running} /\ nvml \in {Unloaded, Running}
      BY DEF ClientInv, Library, Loaders
    <2>2. ~handle => nvapi = Unloaded /\ nvml = Unloaded
      BY DEF ClientInv, ClientOK
    <2>3. \A l \in {Unloaded, Running} : l.loads \in {0, 1} /\ l.sessions \in 0 .. l.loads
      BY DEF Unloaded, Running
    <2>4. Unloaded.loads = 0 /\ Unloaded.sessions = 0
      BY DEF Unloaded
    <2>5. QED BY <2>1, <2>2, <2>3, <2>4 DEF LibrariesReleased
  <1>2. QED BY <1>1, Invariance, PTL

(* gpu_telemetry_reader_sample returns 1 exactly when one of its tiers was  *)
(* read in that very call, and then with readings of such tiers alone.      *)
THEOREM OneMeansFresh == ClientSpec => []SampleIsFresh
  <1>1. ClientInv => SampleIsFresh
    BY DEF ClientInv, Returned, SampleIsFresh
  <1>2. QED BY <1>1, Invariance, PTL

(* A caller is turned away only if the tier was really read less than its   *)
(* interval ago (check_poll_rate).                                          *)
THEOREM RefusalsAreDue == ClientSpec => RefusedOnlyWhenRead
  <1> DEFINE Due == \A i \in Gpus, t \in Tiers :
                        <<i, t>> \in refused' \ refused =>
                            /\ asked[i][t] # None
                            /\ now - asked[i][t] < MinInterval[t]
  <1>1. ClientInv /\ [ClientNext]_clientVars => [Due]_vars
    <2> SUFFICES ASSUME ClientInv, [ClientNext]_clientVars PROVE Due
      OBVIOUS
    <2>1. CASE refused' \subseteq refused
      BY <2>1
    <2>2. CASE SampleTier
      <3>1. PICK i \in Gpus, t \in Tiers : Try(i, t)
        BY <2>2, TierTried DEF ClientInv, Library
      <3>2. CASE Refuse(i, t)
        <4>1. asked[i][t] = contexts[i].last[t]
          BY <3>1 DEF ClientInv, Library, Remembered, Try
        <4>2. QED BY <3>2, <4>1 DEF Refuse
      <3>3. CASE ReadTier(i, t)
        BY <3>3 DEF ReadTier
      <3>4. QED BY <3>1, <3>2, <3>3 DEF Try
    <2>3. ASSUME ~SampleTier PROVE refused' \subseteq refused
      BY <2>3
      DEF ClientNext, PollNext, Initialize, InitSucceeds, Poll, Call, Read, Sleep,
      PollTick, Tick,
          Application, Create, Destroy, InitOrShutdown, InitFails, Shutdown, AllCall, Sample,
          SampleAll, SampleCall, ReadForCall, SampleReturns, AppTick, clientVars, pollVars, vars
    <2>4. QED BY <2>1, <2>2, <2>3
  <1>2. QED BY <1>1, Invariance, PTL DEF ClientSpec, RefusedOnlyWhenRead

(* On a host whose devices differ in bus number (one PCI domain, say)       *)
(* a GPU that is listed with its bus number is read through its own device, *)
(* in whatever order NVML lists the others (GpuProbe::init).                *)
OwnBus == \A g, h \in Devices : Bus[g] = Bus[h] => g = h

THEOREM ListedIsOwn ==
    ASSUME OwnBus PROVE ClientSpec => []OwnDevice
  <1>1. ClientInv => OwnDevice
    <2> SUFFICES ASSUME ClientInv, NEW i \in DOMAIN contexts, found.busIds[i] = Bus[i],
                        [gpu |-> i, bus |-> Bus[i]] \in ToSet(found.devices),
                        Bus[i] = 0 => \A d \in ToSet(found.devices) : d.bus = Bus[d.gpu]
                 PROVE contexts[i].device = i
      BY DEF OwnDevice
    <2>1. contexts \in Contexts \/ contexts = <<>>
      BY DEF ClientInv, Library, TypeOK, Contexts
    <2>2. i \in Gpus
      BY <2>1 DEF Contexts
    <2>3. found.devices \in Lists
          /\ contexts[i].device = NvmlDevice(i, found.devices, found.busIds[i])
      BY DEF ClientInv, Library, Matched, Lists
    <2>4. QED BY <2>2, <2>3, OwnFound DEF OwnBus
  <1>2. QED BY <1>1, Invariance, PTL

(* With a driver that answers, and an interval that leaves the limits of    *)
(* both tiers after the longest round, every round of the collector writes  *)
(* whole rows (DirectGpuCollector::PollLoop).                               *)
THEOREM RoundsAreWhole ==
    ASSUME Leisurely PROVE ClientSpec => []WholeRows
  <1>1. ClientInv /\ Rounds /\ [ClientNext]_clientVars => Rounds'
    BY RoundsKept DEF ClientInv
  <1>2. ClientInv /\ Rounds => WholeRows
    <2> SUFFICES ASSUME ClientInv, Rounds, start # None, Idle, NEW i \in Gpus
                 PROVE snaps[i] = Whole(i)
      BY DEF WholeRows, Whole
    <2>1. client = "collector"
      BY DEF ClientInv, ClientOK
    <2>2. CASE wake = None
      <3>1. snaps[i] \subseteq Whole(i) /\ \A t \in FullTiers : Readable(i, t) \subseteq snaps[i]
        BY <2>1, <2>2 DEF Rounds, Idle, ToSet
      <3>2. QED BY <3>1, WholeIsBothTiers DEF FullTiers
    <2>3. CASE wake # None
      BY <2>1, <2>3 DEF Rounds
    <2>4. QED BY <2>2, <2>3
  <1>3. QED BY <1>1, <1>2, ClientStarts, Invariance, PTL DEF ClientSpec
=============================================================================

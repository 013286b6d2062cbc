---------------------------- MODULE ReadinessProofs ----------------------------
(***************************************************************************)
(* Proofs about Readiness for every number of GPUs, every set of readings  *)
(* and requests, and every interval, threshold and bound.                  *)
(***************************************************************************)
EXTENDS Readiness, FoldFacts

Verdicts == Fits \cup {"none", "stale", "unknown", "insufficient_vram"}

AnswerOK ==
    answer \in [verdict : Verdicts, need : Requests \cup {0}, time : 0 .. MaxClock,
                asked : 0 .. MaxClock, at : 0 .. MaxClock, rounds : BOOLEAN,
                faithful : BOOLEAN]

(* The rounds come one after the other, and no row is ahead of them.        *)
Ordered ==
    /\ roundTime <= clock /\ gpuSample <= clock
    /\ cpc = "sleep"  => roundTime < wake
    /\ cpc = "stamp"  => roundTime < started /\ started <= clock
    /\ cpc = "insert" => /\ roundTime # NoTime /\ started <= roundTime
                         /\ gpuSample <= roundTime
    /\ cpc \in {"stamp", "insert"} => round \in [Gpus -> Readings] /\ wake <= started
    /\ cpc = "stamp" => next = 0
    /\ \A x \in gpuRows : x.time <= roundTime

(* The rows of a time are what one round read, whose free VRAM is noted;    *)
(* the rows of the round under way are what it has read.                    *)
ReadAt(t, r) == /\ free[t] = FreeNow(r)
                /\ \A x \in gpuRows : x.time = t => x = GpuRow(x.gpu, t, r[x.gpu])

Told ==
    /\ \A y \in gpuRows : \E r \in [Gpus -> Readings] : ReadAt(y.time, r)
    /\ cpc = "insert" => ReadAt(roundTime, round)

(* A health row that is not ahead after a failure has rows as new as it is. *)
Backed ==
    /\ (cpc = "insert" /\ ~lost /\ next > 0) => \E x \in gpuRows : x.time = roundTime
    /\ (~lost /\ gpuSample # NoTime) => \E x \in gpuRows : gpuSample <= x.time

(* What a request has read: rows of one time that are still there, and no   *)
(* older than the health row unless that has changed meanwhile.             *)
Seen ==
    /\ shown \subseteq gpuRows
    /\ \A x, y \in shown : x.time = y.time
    /\ hpc \in {"idle", "snapshot"} => shown = {}
    /\ (hpc = "collectors" /\ ~lost /\ ~overlap) => \A x \in shown : gpuSample <= x.time
    /\ (hpc = "judge" /\ answer.faithful) => \A x \in shown : health.gpu <= x.time

(* What an answer rests on is in the past. *)
Past == answer.verdict \in Fits => answer.time \in 1 .. roundTime

(* A request under way has no verdict yet. *)
Pending == hpc # "idle" => answer.verdict = "none"

IInv == TypeOK /\ AnswerOK /\ Ordered /\ Told /\ Backed /\ Seen /\ Past /\ Pending
          /\ NeverOverstates /\ FitsIsRecent

(* While the collector is punctual and nothing has failed: rounds follow on *)
(* time, and what a request comes after, it finds.                          *)
Kept == punctual /\ errors = 0 /\ restarts = 0

OnTime ==
    /\ errors = 0 => ~lost
    /\ Kept => /\ cpc # "off"
               /\ cpc # "boot" => clock <= wake + RoundDelay
    /\ (Kept /\ rounds) => /\ cpc # "boot" /\ gpuSample # NoTime
                           /\ wake <= gpuSample + Interval
    /\ (Kept /\ answer.rounds) =>
          /\ rounds
          /\ hpc \in {"collectors", "judge"} => shown # {}
          /\ hpc = "judge" => /\ health.gpu # NoTime
                              /\ answer.asked <= health.gpu + Interval + RoundDelay

-----------------------------------------------------------------------------
(* The operators.                                                           *)

LEMMA Sizes ==
    /\ NumGpus \in Nat /\ NumGpus > 0
    /\ Interval \in Nat /\ Interval > 0 /\ Threshold \in Nat /\ Threshold > 0
    /\ MaxClock \in Nat /\ MaxClock > 0
    /\ RoundDelay \in Nat /\ AnswerDelay \in Nat
  <1>1. NumGpus \in Nat \ {0} /\ {Interval, Threshold, MaxClock} \subseteq Nat \ {0}
        /\ {RoundDelay, AnswerDelay, MaxPolls, MaxErrors, MaxRestarts, MaxRequests}
                                                                       \subseteq Nat
    BY ReadinessAssumption DEF ReadinessAssumption
  <1>2. QED BY <1>1

LEMMA MaxOfTwo ==
    ASSUME NEW a \in Int, NEW b \in Int
    PROVE  Max({a, b}) \in {a, b} /\ a <= Max({a, b}) /\ b <= Max({a, b})
  <1>1. \E x \in {a, b} : \A y \in {a, b} : x >= y
    OBVIOUS
  <1>2. Max({a, b}) \in {a, b} /\ \A y \in {a, b} : Max({a, b}) >= y
    BY <1>1 DEF Max
  <1>3. QED BY <1>2

LEMMA LaterType ==
    ASSUME NEW a \in Int, NEW b \in Int
    PROVE  Later(a, b) \in {a, b} /\ a <= Later(a, b) /\ b <= Later(a, b)
  BY DEF Later

LEMMA RowType ==
    ASSUME NEW g \in Gpus, NEW t \in 1 .. MaxClock, NEW r \in Readings
    PROVE  /\ GpuRow(g, t, r) \in Rows
           /\ GpuRow(g, t, r).gpu = g /\ GpuRow(g, t, r).time = t
  BY ReadinessAssumption DEF ReadinessAssumption, GpuRow, Rows, OptInt64, Null

LEMMA ReadingFree ==
    ASSUME NEW g, NEW t, NEW r \in Readings
    PROVE  /\ r.total - r.used \in Nat
           /\ HasVram(GpuRow(g, t, r)) =>
                GpuRow(g, t, r).total - GpuRow(g, t, r).used = r.total - r.used
  BY ReadinessAssumption DEF ReadinessAssumption, GpuRow, HasVram, OptInt64, Null

LEMMA GpusAreFinite == IsFiniteSet(Gpus) /\ 0 \in Gpus
  BY Sizes, FS_Interval DEF Gpus

LEMMA FreeNowIsNat ==
    ASSUME NEW r \in [Gpus -> Readings] PROVE FreeNow(r) \in Nat
  <1> DEFINE f == [g \in Gpus |-> r[g].total - r[g].used]
  <1>1. \A g \in Gpus : f[g] \in Nat
    BY ReadingFree
  <1>2. DOMAIN f = Gpus
    OBVIOUS
  <1> HIDE DEF f
  <1>3. SumFunctionOnSet(f, Gpus) \in Nat
    BY <1>1, GpusAreFinite, SumIsNat
  <1>4. QED BY <1>2, <1>3 DEF FreeNow, SumFunction, f

(* Rows of one round, however many of it there are, show no more free VRAM  *)
(* than there was.                                                          *)
LEMMA FreeOfIsWithin ==
    ASSUME NEW rows \in SUBSET Rows, NEW t, NEW r \in [Gpus -> Readings],
           \A x \in rows : x = GpuRow(x.gpu, t, r[x.gpu])
    PROVE  FreeOf(rows) \in Int /\ FreeOf(rows) <= FreeNow(r)
  <1> DEFINE K == {x \in rows : HasVram(x)}
             d == [x \in K |-> x.total - x.used]
             f == [g \in Gpus |-> r[g].total - r[g].used]
             place == [x \in K |-> x.gpu]
  <1>1. \A x \in K : /\ x.gpu \in Gpus /\ r[x.gpu] \in Readings
                     /\ x = GpuRow(x.gpu, t, r[x.gpu]) /\ HasVram(x)
    BY DEF Rows
  <1>2. place \in [K -> Gpus] /\ \A x \in K : place[x] = x.gpu
    BY <1>1
  <1>3. \A x, y \in K : place[x] = place[y] => x = y
    BY <1>1
  <1>4. \A x \in K : d[x] \in Int /\ d[x] <= f[place[x]]
    BY <1>1, ReadingFree
  <1>5. \A g \in Gpus : f[g] \in Nat
    BY ReadingFree
  <1>6. FreeOf(rows) = SumFunctionOnSet(d, K) /\ FreeNow(r) = SumFunctionOnSet(f, Gpus)
    BY DEF FreeOf, FreeNow, SumFunction
  <1> HIDE DEF K, d, f, place
  <1>7. IsFiniteSet(K)
    BY <1>2, <1>3, GpusAreFinite, FS_Injection DEF Injection, IsInjective
  <1>8. QED BY <1>2, <1>3, <1>4, <1>5, <1>6, <1>7, GpusAreFinite, SumIsWithin, SumIsInt

(* A snapshot of a table that has rows has rows. *)
LEMMA LatestThere ==
    ASSUME NEW rows \in SUBSET Rows, rows # {}
    PROVE  LatestRows(rows) # {}
  <1> DEFINE Ago == {MaxClock - x.time : x \in rows}
  <1>1. Ago \subseteq Nat /\ Ago # {}
    BY ReadinessAssumption DEF ReadinessAssumption, Rows
  <1>2. PICK n \in Ago : \A m \in Ago : <<m, n>> \notin OpToRel(<, Nat)
    <2> HIDE DEF Ago
    <2>1. QED BY <1>1, WFMin, NatLessThanWellFounded
  <1>3. \A m \in Ago : n <= m
    <2> HIDE DEF Ago
    <2>1. ASSUME NEW m \in Ago, m < n PROVE FALSE
      <3>1. <<m, n>> \in OpToRel(<, Nat)
        BY <1>1, <2>1 DEF OpToRel
      <3>2. QED BY <1>2, <3>1
    <2>2. QED BY <1>1, <2>1
  <1>4. PICK x \in rows : n = MaxClock - x.time
    BY <1>2
  <1>5. \A y \in rows : y.time <= x.time
    <2>1. ASSUME NEW y \in rows PROVE y.time <= x.time
      <3>1. x \in Rows /\ y \in Rows /\ n \in Nat
        <4> HIDE DEF Ago
        <4>1. QED BY <1>1, <1>2
      <3>4. x.time \in Int /\ y.time \in Int
        BY <3>1 DEF Rows
      <3>2. n <= MaxClock - y.time
        BY <1>3
      <3>3. QED BY <1>4, <3>1, <3>2, <3>4, Sizes
    <2>2. QED BY <2>1
  <1>6. QED BY <1>5 DEF LatestRows

-----------------------------------------------------------------------------
(* The types.                                                               *)

LEMMA VerdictType ==
    ASSUME NEW rows, NEW need, NEW gpuAt, NEW bridgeAt, NEW now
    PROVE  /\ Verdict(rows, need, gpuAt, bridgeAt, now) \in Verdicts
           /\ Verdict(rows, need, gpuAt, bridgeAt, now) \in Fits =>
                /\ rows # {}
                /\ ~IsStale(gpuAt, now)
                /\ \E x \in rows : HasVram(x)
                /\ ~(need > 0 /\ FreeOf(rows) < need)
  BY DEF Verdict, Verdicts, Fits, FitVerdict

LEMMA TimesOfShown ==
    ASSUME TypeOK, Seen
    PROVE  LET newest == Max({NoTime} \cup {x.time : x \in shown}) IN
           /\ newest \in 0 .. MaxClock
           /\ \A x \in shown : newest = x.time
  <1> DEFINE T == {NoTime} \cup {x.time : x \in shown}
  <1>1. CASE shown = {}
    <2>1. T = {NoTime}
      BY <1>1
    <2>2. Max(T) = NoTime
      BY <2>1 DEF Max, NoTime
    <2>3. QED BY <1>1, <2>2, ReadinessAssumption DEF NoTime, ReadinessAssumption
  <1>2. ASSUME NEW y \in shown PROVE Max(T) = y.time /\ y.time \in 1 .. MaxClock
    <2>1. T = {NoTime, y.time} /\ y.time \in 1 .. MaxClock
      BY <1>2 DEF Seen, TypeOK, Rows
    <2>2. Max({NoTime, y.time}) = y.time
      <3>1. NoTime \in Int /\ y.time \in Int
        BY <2>1 DEF NoTime
      <3>2. /\ Max({NoTime, y.time}) \in {NoTime, y.time}
            /\ y.time <= Max({NoTime, y.time})
        BY <3>1, MaxOfTwo, Zenon
      <3>3. QED BY <2>1, <3>2 DEF NoTime
    <2> HIDE DEF T
    <2>3. Max(T) = Max({NoTime, y.time})
      BY <2>1
    <2>4. QED BY <2>1, <2>2, <2>3
  <1>3. QED BY <1>1, <1>2, ReadinessAssumption DEF ReadinessAssumption

LEMMA Typing ==
    ASSUME IInv, Next PROVE TypeOK'
  <1> USE ReadinessAssumption DEF ReadinessAssumption, store, collector, handler, MayFail, HealthFrame, NoTime
  <1>1. CASE Tick
    BY <1>1, SMTT(30) DEF IInv, TypeOK, Tick, Next
  <1>2. CASE QueryCollectorHealth
    <2>1. health' \in [gpu : 0 .. MaxClock, bridge : 0 .. MaxClock]
      <3>1. 0 \in 0 .. MaxClock /\ 0 .. clock \subseteq 0 .. MaxClock
            /\ gpuSample \in 0 .. MaxClock
        BY Sizes DEF IInv, TypeOK
      <3>2. CASE health' \in [gpu : {gpuSample},
                              bridge : IF shown = {} THEN 0 .. clock ELSE {0}]
        BY <3>1, <3>2
      <3>3. CASE health' = NoHealth
        BY <3>1, <3>3 DEF NoHealth
      <3>4. QED BY <1>2, <3>2, <3>3 DEF QueryCollectorHealth
    <2>2. answer'.verdict = answer.verdict
      BY <1>2 DEF IInv, AnswerOK, QueryCollectorHealth
    <2>3. {punctual', rounds', lost', overlap'} \subseteq BOOLEAN
      BY <1>2, Zenon DEF IInv, TypeOK, QueryCollectorHealth, Next
    <2>4. errors' \in Nat /\ hpc' = "judge"
          /\ UNCHANGED <<clock, store, collector, required, shown, restarts, requests, free>>
      BY <1>2, SMTT(30) DEF IInv, TypeOK, QueryCollectorHealth
    <2>5. QED BY <2>1, <2>2, <2>3, <2>4 DEF IInv, TypeOK
  <1>3. CASE GpuInitialize
    <2>1. wake' \in 1 .. MaxClock + Interval
      <3>1. clock \in 1 .. MaxClock /\ roundTime \in 0 .. MaxClock
            /\ wake \in 1 .. MaxClock + Interval
        BY DEF IInv, TypeOK
      <3>2. Max({clock, roundTime + 1}) \in 1 .. MaxClock + Interval
        <4>1. clock \in Int /\ roundTime + 1 \in Int
          BY <3>1
        <4>2. Max({clock, roundTime + 1}) \in {clock, roundTime + 1}
          BY <4>1, MaxOfTwo, Zenon
        <4>3. QED BY <3>1, <4>2
      <3>3. wake' \in {wake, Max({clock, roundTime + 1})}
        BY <1>3 DEF GpuInitialize
      <3>4. QED BY <3>1, <3>2, <3>3
    <2>2. gpuSample' \in 0 .. MaxClock
      BY <1>3, LaterType, SMTT(30) DEF IInv, TypeOK, GpuInitialize
    <2>3. {punctual', rounds', lost', overlap'} \subseteq BOOLEAN
      BY <1>3, Zenon DEF IInv, TypeOK, GpuInitialize, Next
    <2>4. QED BY <1>3, <2>1, <2>2, <2>3, SMTT(30) DEF IInv, TypeOK, GpuInitialize
  <1>4. CASE GpuSample
    BY <1>4, SMTT(30) DEF IInv, TypeOK, GpuSample, Next
  <1>12. CASE GpuStamp
    <2>1. FreeNow(round) \in Nat
      BY <1>12, FreeNowIsNat DEF IInv, Ordered, GpuStamp
    <2>2. QED BY <1>12, <2>1, SMTT(30) DEF IInv, TypeOK, GpuStamp, Next
  <1>5. CASE GpuInsert
    <2>1. next \in Gpus /\ roundTime \in 1 .. MaxClock /\ round[next] \in Readings
      BY <1>5, SMTT(30) DEF IInv, TypeOK, Ordered, GpuInsert, Gpus
    <2>2. gpuRows' \subseteq Rows
      BY <1>5, <2>1, RowType, SMTT(30) DEF IInv, TypeOK, GpuInsert, Inserted
    <2>3. {punctual', rounds', lost', overlap'} \subseteq BOOLEAN
      BY <1>5, Zenon DEF IInv, TypeOK, GpuInsert, Next
    <2>4. QED BY <1>5, <2>1, <2>2, <2>3, SMTT(30) DEF IInv, TypeOK, GpuInsert, Gpus
  <1>6. CASE GpuHealth
    <2>1. gpuSample' \in 0 .. MaxClock
      <3>1. gpuSample \in 0 .. MaxClock /\ roundTime \in 0 .. MaxClock
        BY DEF IInv, TypeOK
      <3>2. Later(gpuSample, roundTime) \in 0 .. MaxClock
        BY <3>1, LaterType
      <3>3. gpuSample' \in {gpuSample, Later(gpuSample, roundTime)}
        BY <1>6 DEF GpuHealth
      <3>4. QED BY <3>1, <3>2, <3>3
    <2>2. {punctual', rounds', overlap'} \subseteq BOOLEAN
      BY <1>6, Zenon DEF IInv, TypeOK, GpuHealth, Next
    <2>3. lost' \in BOOLEAN
      BY <1>6 DEF IInv, TypeOK, GpuHealth, LostAfterRound
    <2>4. wake' \in 1 .. MaxClock + Interval
      <3>1. /\ started \in 0 .. MaxClock /\ roundTime \in 0 .. MaxClock
            /\ wake' = NextRound
        BY <1>6 DEF IInv, TypeOK, GpuHealth
      <3>2. NextRound \in {started + Interval, roundTime + 1} /\ roundTime + 1 <= NextRound
        BY <3>1, Sizes DEF NextRound, Later
      <3>3. QED BY <3>1, <3>2, Sizes
    <2>5. errors' \in Nat /\ cpc' = "sleep" /\ round' = NoRound /\ started' = NoTime
          /\ UNCHANGED <<clock, gpuRows, roundTime, next, polls, handler, restarts,
                         requests, free>>
      BY <1>6, SMTT(30) DEF IInv, TypeOK, GpuHealth
    <2>6. 0 \in 0 .. MaxClock
      BY Sizes
    <2>7. QED BY <2>1, <2>2, <2>3, <2>4, <2>5, <2>6 DEF IInv, TypeOK
  <1>7. CASE \E need \in Requests : RequestReadiness(need)
    BY <1>7, SMTT(30) DEF IInv, TypeOK, RequestReadiness, NoAnswer, Next
  <1>8. CASE QueryLatestSnapshot
    <2>1. shown' \subseteq Rows /\ answer'.verdict \in Verdicts
      BY <1>8 DEF IInv, TypeOK, AnswerOK, QueryLatestSnapshot, LatestRows
    <2>2. {punctual', rounds', lost', overlap'} \subseteq BOOLEAN
      BY <1>8, Zenon DEF IInv, TypeOK, QueryLatestSnapshot, Next
    <2>3. errors' \in Nat /\ hpc' = "collectors"
          /\ UNCHANGED <<clock, store, collector, required, health, restarts, requests,
                         free>>
      BY <1>8, SMTT(30) DEF IInv, TypeOK, QueryLatestSnapshot
    <2>4. QED BY <2>1, <2>2, <2>3 DEF IInv, TypeOK, Verdicts
  <1>9. CASE Respond
    <2>1. answer'.verdict \in Verdicts
      BY <1>9, VerdictType DEF IInv, AnswerOK, Respond
    <2>2. {punctual', rounds', lost', overlap'} \subseteq BOOLEAN
      BY <1>9, Zenon DEF IInv, TypeOK, Respond, Next
    <2>3. hpc' = "idle" /\ shown' = {} /\ required' = 0 /\ health' = NoHealth
          /\ UNCHANGED <<clock, store, collector, errors, restarts, requests, free>>
      BY <1>9, SMTT(30) DEF IInv, TypeOK, Respond
    <2>4. NoHealth \in [gpu : 0 .. MaxClock, bridge : 0 .. MaxClock]
      BY Sizes DEF NoHealth
    <2>5. QED BY <2>1, <2>2, <2>3, <2>4 DEF IInv, TypeOK, Verdicts
  <1>10. CASE Restart
    <2>1. /\ NoHealth \in [gpu : 0 .. MaxClock, bridge : 0 .. MaxClock]
          /\ 0 \in 0 .. MaxClock /\ 0 \in 0 .. NumGpus /\ 1 \in 1 .. MaxClock + Interval
      BY Sizes DEF NoHealth
    <2>2. {punctual', rounds', lost', overlap'} \subseteq BOOLEAN
      BY <1>10, Zenon DEF IInv, TypeOK, Restart, Next
    <2>3. /\ UNCHANGED <<clock, store, roundTime, polls, errors, requests, free>>
          /\ restarts' = restarts + 1 /\ cpc' = "boot" /\ next' = 0 /\ round' = NoRound
          /\ started' = 0 /\ wake' = 1 /\ hpc' = "idle" /\ required' = 0 /\ shown' = {}
          /\ health' = NoHealth /\ answer'.verdict = "none"
      BY <1>10 DEF Restart, NoAnswer, store
    <2>4. restarts' \in Nat
      <3>1. restarts \in Nat
        BY DEF IInv, TypeOK
      <3>2. QED BY <2>3, <3>1
    <2>5. QED BY <2>1, <2>2, <2>3, <2>4 DEF IInv, TypeOK
  <1>11. QED BY <1>1, <1>2, <1>3, <1>4, <1>5, <1>6, <1>7, <1>8, <1>9, <1>10, <1>12
     DEF Next, Steps

LEMMA AnswerTyping ==
    ASSUME IInv, Next PROVE AnswerOK'
  <1>1. CASE \E need \in Requests : RequestReadiness(need)
    BY <1>1, ReadinessAssumption DEF ReadinessAssumption, RequestReadiness, NoAnswer,
       AnswerOK, Verdicts, NoTime
  <1>2. CASE QueryLatestSnapshot
    BY <1>2 DEF IInv, TypeOK, AnswerOK, QueryLatestSnapshot
  <1>3. CASE Respond
    <2>1. answer' = [answer EXCEPT
                !.verdict = Verdict(shown, required, health.gpu, health.bridge, clock),
                !.need    = required,
                !.time    = Max({NoTime} \cup {x.time : x \in shown}),
                !.at      = clock]
      BY <1>3 DEF Respond
    <2>2. Max({NoTime} \cup {x.time : x \in shown}) \in 0 .. MaxClock
      BY TimesOfShown DEF IInv
    <2>3. clock \in 0 .. MaxClock /\ required \in Requests \cup {0}
      BY DEF IInv, TypeOK
    <2>4. QED BY <2>1, <2>2, <2>3, VerdictType DEF IInv, AnswerOK
  <1>4. CASE Restart
    BY <1>4, ReadinessAssumption DEF ReadinessAssumption, Restart, NoAnswer, AnswerOK,
       Verdicts, NoTime
  <1>5. CASE \/ Tick \/ GpuInitialize \/ GpuSample \/ GpuStamp \/ GpuInsert \/ GpuHealth
    BY <1>5 DEF IInv, AnswerOK, Tick, GpuInitialize, GpuSample, GpuStamp, GpuInsert,
       GpuHealth, HealthFrame, handler
  <1>6. CASE QueryCollectorHealth
    <2>1. /\ clock \in 0 .. MaxClock
          /\ answer' = [answer EXCEPT !.asked = clock, !.faithful = ~lost /\ ~overlap]
      BY <1>6 DEF IInv, TypeOK, QueryCollectorHealth
    <2>2. QED BY <2>1 DEF IInv, AnswerOK
  <1>7. QED BY <1>1, <1>2, <1>3, <1>4, <1>5, <1>6 DEF Next, Steps

-----------------------------------------------------------------------------
(* The rounds.                                                              *)

LEMMA OrderKept ==
    ASSUME IInv, Next PROVE Ordered'
  <1> USE ReadinessAssumption DEF ReadinessAssumption, store, collector, handler, HealthFrame, NoTime
  <1>1. CASE Tick
    BY <1>1, SMTT(30) DEF IInv, TypeOK, Ordered, Tick, Rows
  <1>2. CASE GpuInitialize
    <2>1. /\ clock \in 1 .. MaxClock /\ roundTime \in 0 .. MaxClock
          /\ gpuSample \in 0 .. MaxClock /\ gpuSample <= clock /\ roundTime <= clock
          /\ UNCHANGED <<clock, roundTime, gpuRows, round>> /\ cpc' \in {"sleep", "off"}
      BY <1>2 DEF IInv, TypeOK, Ordered, GpuInitialize
    <2>2. cpc' = "sleep" => wake' = Max({clock, roundTime + 1})
      BY <1>2 DEF GpuInitialize
    <2>3. gpuSample' <= clock
      BY <1>2, <2>1, LaterType DEF GpuInitialize
    <2>4. roundTime < Max({clock, roundTime + 1})
      <3>1. clock \in Int /\ roundTime + 1 \in Int
        BY <2>1
      <3>2. /\ Max({clock, roundTime + 1}) \in {clock, roundTime + 1}
            /\ roundTime + 1 <= Max({clock, roundTime + 1})
        BY <3>1, MaxOfTwo, Zenon
      <3>3. QED BY <2>1, <3>1, <3>2
    <2>5. QED BY <2>1, <2>2, <2>3, <2>4 DEF IInv, Ordered
  <1>3. CASE GpuSample
    BY <1>3, SMTT(30) DEF IInv, TypeOK, Ordered, GpuSample, Rows
  <1>8. CASE GpuStamp
    BY <1>8, SMTT(30) DEF IInv, TypeOK, Ordered, GpuStamp, Rows
  <1>4. CASE GpuInsert
    <2>1. next \in Gpus /\ roundTime \in 1 .. MaxClock /\ round[next] \in Readings
      BY <1>4, SMTT(30) DEF IInv, TypeOK, Ordered, GpuInsert, Gpus
    <2>2. \A x \in gpuRows' : x \in gpuRows \/ x.time = roundTime
      BY <1>4, <2>1, RowType DEF GpuInsert, Inserted
    <2>3. QED BY <1>4, <2>1, <2>2, SMTT(30) DEF IInv, TypeOK, Ordered, GpuInsert
  <1>5. CASE GpuHealth
    BY <1>5, LaterType, SMTT(30) DEF IInv, TypeOK, Ordered, GpuHealth, NextRound, Later
  <1>6. CASE Restart \/ QueryLatestSnapshot \/ QueryCollectorHealth \/ Respond
             \/ \E need \in Requests : RequestReadiness(need)
    <2>1. UNCHANGED <<clock, gpuRows, gpuSample, roundTime>>
          /\ (cpc' # "boot" => UNCHANGED <<cpc, round, started, wake>>)
      BY <1>6 DEF Restart, QueryLatestSnapshot, QueryCollectorHealth, Respond,
                  RequestReadiness
    <2>2. cpc' # "boot" => UNCHANGED next
      BY <1>6 DEF Restart, QueryLatestSnapshot, QueryCollectorHealth, Respond,
                  RequestReadiness
    <2>3. QED BY <2>1, <2>2 DEF IInv, Ordered
  <1>7. QED BY <1>1, <1>2, <1>3, <1>4, <1>5, <1>6, <1>8 DEF Next, Steps

(* What an insert does to the rows, in a round that has noted its VRAM: it  *)
(* adds one, and takes none.                                                *)
LEMMA InsertAdds ==
    ASSUME IInv, GpuInsert
    PROVE  LET row == GpuRow(next, roundTime, round[next]) IN
           /\ next \in Gpus /\ row \in Rows /\ row.time = roundTime /\ row.gpu = next
           /\ gpuRows' \in {gpuRows, gpuRows \cup {row}}
           /\ gpuRows' = gpuRows => row \in gpuRows \/ lost'
  <1>1. next \in Gpus /\ roundTime \in 1 .. MaxClock /\ round[next] \in Readings
    BY ReadinessAssumption, SMTT(30) DEF ReadinessAssumption, IInv, TypeOK, Ordered, GpuInsert,
       Gpus, NoTime
  <1> DEFINE row == GpuRow(next, roundTime, round[next])
  <1>2. row \in Rows /\ row.time = roundTime /\ row.gpu = next
    BY <1>1, RowType
  <1>3. \A x \in gpuRows : x.gpu = next /\ x.time = roundTime => x = row
    BY DEF IInv, Told, ReadAt, GpuInsert
  <1>4. Inserted(gpuRows, row) = gpuRows \cup {row}
    <2> HIDE DEF row
    <2>1. QED BY <1>2, <1>3 DEF Inserted
  <1>5. CASE gpuRows' = Inserted(gpuRows, row)
    BY <1>1, <1>2, <1>4, <1>5
  <1>6. CASE lost' = TRUE /\ UNCHANGED gpuRows
    BY <1>1, <1>2, <1>6
  <1>7. QED BY <1>5, <1>6 DEF GpuInsert

LEMMA ToldKept ==
    ASSUME IInv, Next PROVE Told'
  <1>1. CASE GpuStamp
    <2>1. \A x \in gpuRows : x.time \in 1 .. MaxClock /\ x.time < clock
      BY <1>1 DEF IInv, TypeOK, Ordered, GpuStamp, Rows
    <2>2. /\ round \in [Gpus -> Readings] /\ roundTime' = clock /\ UNCHANGED <<gpuRows, round>>
          /\ free' = [free EXCEPT ![clock] = FreeNow(round)]
          /\ clock \in 1 .. MaxClock /\ free \in [1 .. MaxClock -> Nat]
      BY <1>1 DEF IInv, TypeOK, Ordered, GpuStamp, store
    <2>3. ReadAt(roundTime, round)'
      BY <2>1, <2>2 DEF ReadAt
    <2>4. ASSUME NEW y \in gpuRows PROVE \E r \in [Gpus -> Readings] : ReadAt(y.time, r)'
      <3>1. PICK r \in [Gpus -> Readings] : ReadAt(y.time, r)
        BY DEF IInv, Told
      <3>2. ReadAt(y.time, r)'
        BY <2>1, <2>2, <3>1 DEF ReadAt
      <3>3. QED BY <3>2
    <2>5. QED BY <2>2, <2>3, <2>4 DEF Told, ReadAt
  <1>2. CASE GpuInsert
    <2> DEFINE row == GpuRow(next, roundTime, round[next])
    <2>1. /\ round \in [Gpus -> Readings] /\ ReadAt(roundTime, round)
          /\ UNCHANGED <<round, roundTime, free, cpc>>
      BY <1>2 DEF IInv, Ordered, Told, GpuInsert
    <2>2. row.time = roundTime /\ row.gpu = next /\ gpuRows' \in {gpuRows, gpuRows \cup {row}}
      BY <1>2, InsertAdds
    <2>3. \A x \in gpuRows' : x \in gpuRows \/ x = row
      BY <2>2
    <2>4. ReadAt(roundTime, round)'
      BY <2>1, <2>2, <2>3 DEF ReadAt
    <2>5. ASSUME NEW y \in gpuRows' PROVE \E r \in [Gpus -> Readings] : ReadAt(y.time, r)'
      <3>1. CASE y.time = roundTime
        BY <2>1, <2>4, <3>1 DEF ReadAt
      <3>2. CASE y.time # roundTime
        <4>1. PICK r \in [Gpus -> Readings] : ReadAt(y.time, r)
          BY <2>2, <2>3, <3>2 DEF IInv, Told
        <4>2. ReadAt(y.time, r)'
          BY <2>1, <2>2, <2>3, <3>2, <4>1 DEF ReadAt
        <4>3. QED BY <4>2
      <3>3. QED BY <3>1, <3>2
    <2>6. QED BY <2>1, <2>4, <2>5 DEF Told, ReadAt
  <1>3. CASE \/ Tick \/ GpuInitialize \/ GpuSample \/ GpuHealth \/ Restart
             \/ QueryLatestSnapshot \/ QueryCollectorHealth \/ Respond
             \/ \E need \in Requests : RequestReadiness(need)
    <2>1. UNCHANGED <<gpuRows, free>> /\ (cpc' = "insert" => UNCHANGED <<cpc, round, roundTime>>)
      BY <1>3 DEF Tick, GpuInitialize, GpuSample, GpuHealth, HealthFrame, Restart,
                  QueryLatestSnapshot, QueryCollectorHealth, Respond, RequestReadiness,
                  store, collector, IInv, TypeOK
    <2>2. QED BY <2>1 DEF IInv, Told, ReadAt
  <1>4. QED BY <1>1, <1>2, <1>3 DEF Next, Steps

-----------------------------------------------------------------------------
(* The health row and the rows it is ahead of, or not.                      *)

LEMMA BackedKept ==
    ASSUME IInv, Next PROVE Backed'
  <1> USE ReadinessAssumption DEF ReadinessAssumption, NoTime
  <1>1. CASE GpuInsert
    <2> DEFINE row == GpuRow(next, roundTime, round[next])
    <2>1. /\ next \in Gpus /\ row.time = roundTime
          /\ gpuRows' \in {gpuRows, gpuRows \cup {row}}
          /\ gpuRows' = gpuRows => row \in gpuRows \/ lost'
      BY <1>1, InsertAdds
    <2>2. UNCHANGED <<gpuSample, roundTime>> /\ (lost' = lost \/ lost')
      BY <1>1 DEF GpuInsert
    <2>3. \A x \in gpuRows : x \in gpuRows'
      BY <2>1
    <2>4. ~lost' => row \in gpuRows'
      BY <2>1
    <2>5. (~lost' /\ gpuSample' # NoTime) => \E x \in gpuRows' : gpuSample' <= x.time
      BY <2>2, <2>3 DEF IInv, Backed
    <2>6. QED BY <2>1, <2>2, <2>4, <2>5 DEF Backed
  <1>2. CASE GpuHealth
    <2>1. cpc' = "sleep" /\ UNCHANGED gpuRows
      BY <1>2 DEF GpuHealth, HealthFrame
    <2>2. ASSUME ~lost', gpuSample' # NoTime
          PROVE  \E x \in gpuRows : gpuSample' <= x.time
      <3>1. CASE UNCHANGED <<gpuSample, lost>>
        BY <2>2, <3>1 DEF IInv, Backed
      <3>2. CASE gpuSample' = Later(gpuSample, roundTime) /\ lost' = LostAfterRound
        <4>1. next = NumGpus /\ cpc = "insert" /\ gpuSample <= roundTime
              /\ gpuSample \in 0 .. MaxClock /\ roundTime \in 0 .. MaxClock
          BY <1>2 DEF IInv, TypeOK, Ordered, GpuHealth
        <4>2. gpuSample' <= roundTime
          BY <3>2, <4>1 DEF Later
        <4>3. \E x \in gpuRows : x.time = roundTime
          <5>1. ~LostAfterRound
            BY <2>2, <3>2
          <5>2. CASE lost
            BY <5>1, <5>2 DEF LostAfterRound
          <5>3. CASE ~lost
            BY <4>1, <5>3 DEF IInv, Backed
          <5>4. QED BY <5>2, <5>3
        <4>4. QED BY <4>2, <4>3
      <3>3. QED BY <1>2, <3>1, <3>2 DEF GpuHealth
    <2>3. QED BY <2>1, <2>2 DEF Backed
  <1>3. CASE GpuInitialize
    BY <1>3 DEF IInv, Backed, GpuInitialize
  <1>4. CASE GpuSample
    BY <1>4 DEF IInv, Backed, GpuSample, store
  <1>7. CASE GpuStamp
    BY <1>7 DEF IInv, Ordered, Backed, GpuStamp, store
  <1>5. CASE \/ Tick \/ Restart \/ QueryLatestSnapshot \/ QueryCollectorHealth \/ Respond
             \/ \E need \in Requests : RequestReadiness(need)
    <2>1. UNCHANGED <<gpuRows, gpuSample, lost, roundTime>> /\ (cpc' = "insert" => UNCHANGED <<cpc, next>>)
      BY <1>5 DEF Tick, Restart, QueryLatestSnapshot, QueryCollectorHealth, Respond,
         RequestReadiness, store, collector
    <2>2. QED BY <2>1 DEF IInv, Backed
  <1>6. QED BY <1>1, <1>2, <1>3, <1>4, <1>5, <1>7 DEF Next, Steps

LEMMA SeenKept ==
    ASSUME IInv, Next PROVE Seen'
  <1> USE ReadinessAssumption DEF ReadinessAssumption, NoTime
  <1>1. CASE QueryLatestSnapshot
    <2>1. shown' \in {LatestRows(gpuRows), {}} /\ hpc' = "collectors"
          /\ UNCHANGED <<gpuRows, gpuSample, lost>>
      BY <1>1 DEF QueryLatestSnapshot, store
    <2>2. /\ \A x \in gpuRows : x.time \in 1 .. MaxClock
          /\ gpuSample \in 0 .. MaxClock
      BY DEF IInv, TypeOK, Rows
    <2>3. \A x, y \in LatestRows(gpuRows) : x.time = y.time
      BY <2>2 DEF LatestRows
    <2>4. ASSUME ~lost, NEW y \in LatestRows(gpuRows) PROVE gpuSample <= y.time
      <3>1. CASE gpuSample = NoTime
        BY <2>2, <3>1 DEF LatestRows
      <3>2. CASE gpuSample # NoTime
        <4>1. PICK x \in gpuRows : gpuSample <= x.time
          BY <2>4, <3>2 DEF IInv, Backed
        <4>2. x.time <= y.time /\ y.time \in 1 .. MaxClock
          BY <2>2 DEF LatestRows
        <4>3. QED BY <2>2, <4>1, <4>2
      <3>3. QED BY <3>1, <3>2
    <2>5. QED BY <2>1, <2>3, <2>4 DEF Seen, LatestRows
  <1>2. CASE Respond \/ Restart
    BY <1>2 DEF Seen, Respond, Restart
  <1>3. CASE \E need \in Requests : RequestReadiness(need)
    BY <1>3 DEF IInv, Seen, RequestReadiness, store
  <1>4. CASE GpuInsert
    <2>1. gpuRows \subseteq gpuRows'
      BY <1>4, InsertAdds
    <2>2. UNCHANGED <<gpuSample, shown, hpc, health, answer, overlap>> /\ (~lost' => ~lost)
      BY <1>4 DEF GpuInsert, handler
    <2>3. QED BY <2>1, <2>2 DEF IInv, Seen
  <1>5. CASE GpuHealth
    <2>1. /\ UNCHANGED <<gpuRows, shown, hpc, health, answer>>
          /\ overlap' = (hpc = "collectors") \/ UNCHANGED <<gpuSample, lost, overlap>>
      BY <1>5 DEF GpuHealth, HealthFrame, handler
    <2>2. QED BY <2>1 DEF IInv, Seen
  <1>6. CASE GpuInitialize
    BY <1>6 DEF IInv, Seen, GpuInitialize, handler
  <1>7. CASE Tick \/ GpuSample \/ GpuStamp
    BY <1>7 DEF IInv, Seen, Tick, GpuSample, GpuStamp, handler, store
  <1>9. CASE QueryCollectorHealth
    <2>1. /\ UNCHANGED <<gpuRows, shown>> /\ hpc = "collectors" /\ hpc' = "judge"
          /\ answer'.faithful = (~lost /\ ~overlap) /\ health'.gpu \in {gpuSample, NoTime}
      BY <1>9 DEF IInv, AnswerOK, QueryCollectorHealth, NoHealth, store
    <2>2. \A x \in shown : NoTime <= x.time
      <3>1. \A x \in shown : x.time \in 1 .. MaxClock
        BY DEF IInv, TypeOK, Rows
      <3>2. QED BY <3>1, Sizes
    <2>3. QED BY <2>1, <2>2 DEF IInv, Seen
  <1>8. QED BY <1>1, <1>2, <1>3, <1>4, <1>5, <1>6, <1>7, <1>9 DEF Next, Steps

-----------------------------------------------------------------------------
(* What an answer says of the rows it rests on.                             *)

LEMMA FitAnswer ==
    ASSUME IInv, Respond, answer'.verdict \in Fits
    PROVE  /\ answer'.time \in 1 .. roundTime /\ answer'.at = clock
           /\ answer'.need > 0 => free[answer'.time] >= answer'.need
           /\ answer'.faithful => clock - answer'.time <= Threshold
  <1> USE ReadinessAssumption DEF ReadinessAssumption, NoTime
  <1>1. answer' = [answer EXCEPT
              !.verdict = Verdict(shown, required, health.gpu, health.bridge, clock),
              !.need    = required,
              !.time    = Max({NoTime} \cup {x.time : x \in shown}),
              !.at      = clock]
    BY DEF Respond
  <1> DEFINE newest == Max({NoTime} \cup {x.time : x \in shown})
  <1>2. /\ answer'.verdict = Verdict(shown, required, health.gpu, health.bridge, clock)
        /\ answer'.need = required /\ answer'.time = newest /\ answer'.at = clock
        /\ answer'.faithful = answer.faithful
    BY <1>1 DEF IInv, AnswerOK
  <1> HIDE DEF newest
  <1>3. /\ shown # {} /\ ~IsStale(health.gpu, clock)
        /\ ~(required > 0 /\ FreeOf(shown) < required)
    BY <1>2, VerdictType
  <1>4. PICK y \in shown : TRUE
    BY <1>3
  <1>5. /\ newest = y.time /\ y \in gpuRows /\ y.time \in 1 .. MaxClock /\ y.time <= roundTime
        /\ \A x \in shown : x.time = y.time /\ x \in gpuRows
    <2>1. newest = y.time
      BY TimesOfShown DEF IInv, newest
    <2>2. QED BY <2>1 DEF IInv, TypeOK, Seen, Rows, Ordered
  <1>6. answer'.time \in 1 .. roundTime
    BY <1>2, <1>5, SMTT(30) DEF IInv, TypeOK
  <1>7. ASSUME answer'.need > 0 PROVE free[answer'.time] >= answer'.need
    <2>1. PICK r \in [Gpus -> Readings] : ReadAt(y.time, r)
      BY <1>5 DEF IInv, Told
    <2>2. \A x \in shown : x = GpuRow(x.gpu, y.time, r[x.gpu])
      BY <1>5, <2>1 DEF ReadAt
    <2>3. FreeOf(shown) \in Int /\ FreeOf(shown) <= FreeNow(r)
      BY <2>2, FreeOfIsWithin DEF IInv, TypeOK
    <2>4. free[y.time] = FreeNow(r) /\ FreeNow(r) \in Nat
      BY <2>1, FreeNowIsNat DEF ReadAt
    <2>5. required \in Nat
      BY DEF IInv, TypeOK
    <2>6. QED BY <1>2, <1>3, <1>5, <1>7, <2>3, <2>4, <2>5
  <1>8. ASSUME answer'.faithful PROVE clock - answer'.time <= Threshold
    <2>1. health.gpu \in Int /\ clock \in Int /\ Threshold \in Int
      BY DEF IInv, TypeOK
    <2>2. health.gpu # NoTime /\ clock - health.gpu <= Threshold
      BY <1>3, <2>1 DEF IsStale
    <2>3. health.gpu <= y.time
      BY <1>2, <1>8 DEF IInv, Seen, Respond
    <2>4. y.time \in Int /\ answer'.time = y.time
      BY <1>2, <1>5
    <2>5. QED BY <2>1, <2>2, <2>3, <2>4
  <1>9. QED BY <1>2, <1>6, <1>7, <1>8

LEMMA AnswersKept ==
    ASSUME IInv, Next PROVE (Past /\ NeverOverstates /\ FitsIsRecent)'
  <1> USE ReadinessAssumption DEF ReadinessAssumption, NoTime
  <1>1. CASE Respond
    <2>1. UNCHANGED <<free, roundTime>>
      BY <1>1 DEF Respond, collector
    <2>2. QED BY <1>1, <2>1, FitAnswer DEF Past, NeverOverstates, FitsIsRecent
  <1>2. CASE Restart \/ \E need \in Requests : RequestReadiness(need)
    <2>1. answer'.verdict = "none"
      BY <1>2 DEF Restart, RequestReadiness, NoAnswer
    <2>2. QED BY <2>1 DEF Past, NeverOverstates, FitsIsRecent, Fits
  <1>3. CASE QueryLatestSnapshot
    <2>1. /\ answer'.verdict = answer.verdict /\ answer'.need = answer.need
          /\ answer'.time = answer.time /\ answer'.at = answer.at
          /\ answer'.faithful = answer.faithful /\ UNCHANGED <<free, roundTime>>
      BY <1>3 DEF IInv, AnswerOK, QueryLatestSnapshot, collector
    <2>2. QED BY <2>1 DEF IInv, Past, NeverOverstates, FitsIsRecent
  <1>4. CASE QueryCollectorHealth
    <2>1. answer'.verdict = answer.verdict /\ hpc # "idle"
      BY <1>4 DEF IInv, AnswerOK, QueryCollectorHealth
    <2>2. QED BY <2>1 DEF IInv, Pending, Past, NeverOverstates, FitsIsRecent, Fits
  <1>5. CASE GpuStamp
    <2>1. /\ UNCHANGED answer /\ roundTime' = clock /\ roundTime < clock
          /\ free' = [free EXCEPT ![clock] = FreeNow(round)]
      <3>1. roundTime < started /\ started <= clock /\ roundTime \in Int
            /\ started \in Int /\ clock \in Int
        BY <1>5 DEF IInv, TypeOK, Ordered, GpuStamp
      <3>2. QED BY <1>5, <3>1 DEF GpuStamp, handler
    <2>2. answer.verdict \in Fits =>
            /\ answer.time \in 1 .. clock /\ answer.time # clock
            /\ free'[answer.time] = free[answer.time]
      BY <2>1, SMTT(30) DEF IInv, TypeOK, Past
    <2>3. QED BY <2>1, <2>2 DEF IInv, Past, NeverOverstates, FitsIsRecent
  <1>6. CASE Tick \/ GpuInitialize \/ GpuSample \/ GpuInsert \/ GpuHealth
    <2>1. UNCHANGED <<answer, free, roundTime>>
      BY <1>6 DEF Tick, GpuInitialize, GpuSample, GpuInsert, GpuHealth, HealthFrame,
         handler, collector
    <2>2. QED BY <2>1 DEF IInv, Past, NeverOverstates, FitsIsRecent
  <1>7. QED BY <1>1, <1>2, <1>3, <1>4, <1>5, <1>6 DEF Next, Steps

LEMMA PendingKept ==
    ASSUME IInv, Next PROVE Pending'
  <1>1. CASE QueryLatestSnapshot \/ QueryCollectorHealth
    <2>1. answer'.verdict = answer.verdict /\ hpc # "idle"
      BY <1>1 DEF IInv, AnswerOK, QueryLatestSnapshot, QueryCollectorHealth
    <2>2. QED BY <2>1 DEF IInv, Pending
  <1>2. CASE Respond \/ Restart \/ \E need \in Requests : RequestReadiness(need)
    BY <1>2 DEF Pending, Respond, Restart, RequestReadiness, NoAnswer
  <1>3. CASE \/ Tick \/ GpuInitialize \/ GpuSample \/ GpuStamp \/ GpuInsert \/ GpuHealth
    <2>1. UNCHANGED <<hpc, answer>>
      BY <1>3 DEF Tick, GpuInitialize, GpuSample, GpuStamp, GpuInsert, GpuHealth,
         HealthFrame, handler
    <2>2. QED BY <2>1 DEF IInv, Pending
  <1>4. QED BY <1>1, <1>2, <1>3 DEF Next, Steps

LEMMA InitIsSafe ==
    ASSUME Init PROVE IInv
  <1> USE ReadinessAssumption DEF ReadinessAssumption, NoTime
  <1>1. TypeOK
    <2>1. {punctual, rounds, lost, overlap} \subseteq BOOLEAN
      BY Zenon DEF Init
    <2>2. QED BY <2>1 DEF Init, TypeOK, NoRound, NoHealth, NoAnswer
  <1>2. AnswerOK
    BY DEF Init, AnswerOK, NoAnswer, Verdicts
  <1>3. Ordered /\ Told /\ Backed /\ Seen
    BY DEF Init, Ordered, Told, Backed, Seen
  <1>4. Past /\ Pending /\ NeverOverstates /\ FitsIsRecent
    BY DEF Init, Past, Pending, NeverOverstates, FitsIsRecent, NoAnswer, Fits
  <1>5. QED BY <1>1, <1>2, <1>3, <1>4 DEF IInv

LEMMA NextKeeps ==
    ASSUME IInv, [Next]_vars PROVE IInv'
  <1>1. CASE Next
    BY <1>1, Typing, AnswerTyping, OrderKept, ToldKept, BackedKept, SeenKept,
       PendingKept, AnswersKept DEF IInv
  <1>2. CASE UNCHANGED vars
    BY <1>2, SMTT(30) DEF vars, IInv, TypeOK, AnswerOK, Ordered, Told, ReadAt, Backed, Seen, Past,
                Pending, NeverOverstates, FitsIsRecent
  <1>3. QED BY <1>1, <1>2

-----------------------------------------------------------------------------
(* The collector is punctual.                                               *)

LEMMA OnTimeKept ==
    ASSUME IInv, OnTime, Next PROVE OnTime'
  <1> USE ReadinessAssumption DEF ReadinessAssumption, NoTime
  <1>0. /\ clock \in Nat /\ gpuSample \in Nat /\ started \in Nat /\ roundTime \in Nat
        /\ wake \in Nat /\ errors \in Nat /\ restarts \in Nat /\ UNCHANGED punctual
        /\ Interval \in Nat /\ Interval > 0 /\ RoundDelay \in Nat
        /\ cpc \in {"boot", "off", "sleep", "stamp", "insert"}
    <2>1. /\ clock \in Nat /\ gpuSample \in Nat /\ started \in Nat /\ roundTime \in Nat
          /\ wake \in Nat /\ errors \in Nat /\ restarts \in Nat
          /\ cpc \in {"boot", "off", "sleep", "stamp", "insert"}
      BY DEF IInv, TypeOK
    <2>2. QED BY <2>1, Sizes DEF Next
  <1>1. CASE Tick
    BY <1>0, <1>1 DEF OnTime, Kept, Tick, store, collector, handler
  <1>2. CASE GpuInitialize
    <2>1. /\ cpc = "boot" /\ UNCHANGED <<clock, restarts, answer, hpc, shown, health, rounds>>
          /\ \/ /\ cpc' = "sleep" /\ wake' = Max({clock, roundTime + 1})
                /\ UNCHANGED <<errors, lost>>
             \/ errors' = errors + 1
      BY <1>2 DEF GpuInitialize, MayFail, handler
    <2>2. clock <= Max({clock, roundTime + 1}) /\ Max({clock, roundTime + 1}) \in Int
      <3>1. clock \in Int /\ roundTime + 1 \in Int
        BY <1>0
      <3>2. /\ clock <= Max({clock, roundTime + 1})
            /\ Max({clock, roundTime + 1}) \in {clock, roundTime + 1}
        BY <3>1, MaxOfTwo, Zenon
      <3>3. QED BY <3>1, <3>2
    <2>3. CASE errors' = errors + 1
      BY <1>0, <2>1, <2>3 DEF OnTime, Kept
    <2>4. CASE /\ cpc' = "sleep" /\ wake' = Max({clock, roundTime + 1})
               /\ UNCHANGED <<errors, lost>>
      BY <1>0, <2>1, <2>2, <2>4 DEF OnTime, Kept
    <2>5. QED BY <2>1, <2>3, <2>4
  <1>3. CASE GpuSample \/ GpuStamp
    BY <1>0, <1>3 DEF OnTime, Kept, GpuSample, GpuStamp, store, handler
  <1>4. CASE GpuInsert
    BY <1>0, <1>4 DEF OnTime, Kept, GpuInsert, MayFail, handler
  <1>5. CASE GpuHealth
    <2>1. /\ cpc = "insert" /\ cpc' = "sleep" /\ wake' = NextRound
          /\ gpuSample <= roundTime /\ roundTime # NoTime
          /\ wake <= started /\ started <= roundTime
          /\ UNCHANGED <<clock, roundTime, restarts, answer, hpc, shown, health>>
      BY <1>5 DEF IInv, Ordered, GpuHealth, HealthFrame, handler
    <2>2. NextRound \in Nat /\ wake <= NextRound /\ NextRound <= roundTime + Interval
      BY <1>0, <2>1 DEF NextRound, Later
    <2>3. CASE errors' = errors + 1
      BY <1>0, <2>1, <2>3 DEF OnTime, Kept
    <2>4. CASE /\ gpuSample' = Later(gpuSample, roundTime) /\ rounds' = TRUE
               /\ lost' = LostAfterRound /\ UNCHANGED errors
      <3>1. gpuSample' = roundTime
        BY <1>0, <2>1, <2>4 DEF Later
      <3>2. errors' = 0 => ~lost'
        BY <2>4 DEF OnTime, LostAfterRound
      <3>3. QED BY <1>0, <2>1, <2>2, <2>4, <3>1, <3>2 DEF OnTime, Kept
    <2>5. QED BY <1>5, <2>3, <2>4 DEF GpuHealth, MayFail
  <1>6. CASE \E need \in Requests : RequestReadiness(need)
    BY <1>0, <1>6 DEF OnTime, Kept, RequestReadiness, store, collector, NoAnswer
  <1>7. CASE QueryLatestSnapshot
    <2>1. /\ UNCHANGED <<clock, store, collector, restarts, rounds, lost>>
          /\ (shown' = LatestRows(gpuRows) /\ UNCHANGED errors) \/ errors' = errors + 1
          /\ answer'.rounds = rounds /\ hpc' = "collectors"
      BY <1>7 DEF IInv, AnswerOK, QueryLatestSnapshot, MayFail
    <2>2. ASSUME Kept', rounds' PROVE shown' # {}
      <3>1. Kept /\ rounds /\ errors = 0 /\ shown' = LatestRows(gpuRows)
        BY <1>0, <2>1, <2>2 DEF Kept
      <3>2. gpuRows # {}
        BY <3>1 DEF OnTime, IInv, Backed
      <3>3. QED BY <3>1, <3>2, LatestThere DEF IInv, TypeOK
    <2>3. CASE errors' = errors + 1
      BY <1>0, <2>1, <2>3 DEF OnTime, Kept
    <2>4. CASE UNCHANGED errors
      BY <1>0, <2>1, <2>2, <2>4 DEF OnTime, Kept, store, collector
    <2>5. QED BY <2>1, <2>3, <2>4
  <1>8. CASE QueryCollectorHealth
    <2>1. /\ UNCHANGED <<clock, store, collector, restarts, rounds, lost, shown>>
          /\ (health'.gpu = gpuSample /\ UNCHANGED errors) \/ errors' = errors + 1
          /\ hpc = "collectors" /\ answer'.rounds = answer.rounds /\ answer'.asked = clock
      BY <1>8 DEF IInv, AnswerOK, QueryCollectorHealth, MayFail
    <2>2. CASE errors' = errors + 1
      BY <1>0, <2>1, <2>2 DEF OnTime, Kept
    <2>3. CASE health'.gpu = gpuSample /\ UNCHANGED errors
      BY <1>0, <2>1, <2>3 DEF OnTime, Kept, store, collector
    <2>4. QED BY <2>1, <2>2, <2>3
  <1>9. CASE Respond
    <2>1. /\ UNCHANGED <<clock, store, collector, errors, restarts, rounds, lost>>
          /\ hpc' = "idle" /\ answer'.rounds = answer.rounds
      BY <1>9 DEF IInv, AnswerOK, Respond
    <2>2. QED BY <1>0, <2>1 DEF OnTime, Kept, store, collector
  <1>10. CASE Restart
    BY <1>0, <1>10 DEF OnTime, Kept, Restart
  <1>11. QED BY <1>1, <1>2, <1>3, <1>4, <1>5, <1>6, <1>7, <1>8, <1>9, <1>10 DEF Next,
     Steps

LEMMA NoFalseStaleKept ==
    ASSUME IInv, OnTime, NoFalseStale, Next,
           Interval + RoundDelay + AnswerDelay <= Threshold
    PROVE  NoFalseStale'
  <1> USE ReadinessAssumption DEF ReadinessAssumption, NoTime
  <1>0. clock \in Nat /\ errors \in Nat /\ restarts \in Nat /\ UNCHANGED punctual
    BY DEF IInv, TypeOK, Next
  <1>1. CASE Respond
    <2> SUFFICES ASSUME Kept', answer'.rounds, answer'.at - answer'.asked <= AnswerDelay
                 PROVE  answer'.verdict # "stale"
      BY DEF Kept, NoFalseStale
    <2>1. /\ answer'.verdict = Verdict(shown, required, health.gpu, health.bridge, clock)
          /\ answer'.rounds = answer.rounds /\ answer'.asked = answer.asked
          /\ answer'.at = clock /\ UNCHANGED <<errors, restarts>> /\ hpc = "judge"
      BY <1>1 DEF IInv, AnswerOK, Respond
    <2>2. /\ shown # {} /\ health.gpu # NoTime
          /\ answer.asked <= health.gpu + Interval + RoundDelay
      BY <1>0, <2>1 DEF Kept, OnTime
    <2>3. clock - health.gpu <= Threshold
      <3>1. answer.asked \in Nat /\ health.gpu \in Nat
        BY DEF IInv, TypeOK, AnswerOK
      <3>2. QED BY <1>0, <2>1, <2>2, <3>1
    <2>4. ~IsStale(health.gpu, clock)
      <3>1. health.gpu \in Int /\ clock \in Int /\ Threshold \in Int
        BY Sizes DEF IInv, TypeOK
      <3>2. QED BY <2>2, <2>3, <3>1 DEF IsStale
    <2>5. QED BY <2>1, <2>2, <2>4 DEF Verdict, FitVerdict
  <1>2. CASE Restart \/ \E need \in Requests : RequestReadiness(need)
    BY <1>2 DEF Restart, RequestReadiness, NoAnswer, NoFalseStale
  <1>3. CASE QueryLatestSnapshot \/ QueryCollectorHealth
    <2>1. answer'.verdict = answer.verdict /\ hpc # "idle"
      BY <1>3 DEF IInv, AnswerOK, QueryLatestSnapshot, QueryCollectorHealth
    <2>2. QED BY <2>1 DEF IInv, Pending, NoFalseStale
  <1>4. CASE Tick \/ GpuInitialize \/ GpuSample \/ GpuStamp \/ GpuInsert \/ GpuHealth
    <2>1. UNCHANGED <<answer, restarts>> /\ (errors' = errors \/ errors' = errors + 1)
      BY <1>4 DEF Tick, GpuInitialize, GpuSample, GpuStamp, GpuInsert, GpuHealth,
                  HealthFrame, MayFail, handler
    <2>2. QED BY <1>0, <2>1 DEF NoFalseStale
  <1>5. QED BY <1>1, <1>2, <1>3, <1>4 DEF Next, Steps

-----------------------------------------------------------------------------
THEOREM Invariance == Spec => []IInv
  BY InitIsSafe, NextKeeps, PTL DEF Spec

(* The types of the store, the collector and the request.                   *)
THEOREM ReadinessTypes == Spec => []TypeOK
  <1>1. IInv => TypeOK BY DEF IInv
  <1>2. QED BY <1>1, Invariance, PTL

(* EvaluateReadiness: a model that is said to fit had its VRAM free on the  *)
(* host when the rows were sampled, whatever was half-written or failed.    *)
THEOREM FitsWhatWasFree == Spec => []NeverOverstates
  <1>1. IInv => NeverOverstates BY DEF IInv
  <1>2. QED BY <1>1, Invariance, PTL

(* The health row vouches for the sample rows: a "fits" is no older than    *)
(* the threshold unless a write was lost or a round ended in between.       *)
THEOREM FitsOnRecentRows == Spec => []FitsIsRecent
  <1>1. IInv => FitsIsRecent BY DEF IInv
  <1>2. QED BY <1>1, Invariance, PTL

(* A threshold no shorter than the interval, what a round may take from     *)
(* being due to its health row, and what a request may take from reading    *)
(* that row to reading the clock: while these are kept and nothing fails, a *)
(* request that comes after the first round is not told "stale".            *)
THEOREM PunctualIsNotStale ==
    ASSUME Interval + RoundDelay + AnswerDelay <= Threshold
    PROVE  Spec => []NoFalseStale
  <1>1. Init => OnTime /\ NoFalseStale
    BY DEF Init, OnTime, Kept, NoFalseStale, NoAnswer
  <1>2. IInv /\ OnTime /\ NoFalseStale /\ [Next]_vars => OnTime' /\ NoFalseStale'
    <2>1. ASSUME IInv, OnTime, NoFalseStale, Next PROVE OnTime' /\ NoFalseStale'
      BY <2>1, OnTimeKept, NoFalseStaleKept
    <2>2. ASSUME OnTime, NoFalseStale, UNCHANGED vars PROVE OnTime' /\ NoFalseStale'
      BY <2>2 DEF vars, OnTime, Kept, NoFalseStale
    <2>3. QED BY <2>1, <2>2
  <1>3. QED BY <1>1, <1>2, Invariance, PTL DEF Spec
=============================================================================

------------------------------- MODULE Readiness -------------------------------
(***************************************************************************)
(* GET /v1/readiness: does a model that needs so much VRAM fit on this     *)
(* host now?  The answer is computed from the rows that DirectGpuCollector *)
(* writes, one statement per GPU and one for its health, while HTTP        *)
(* threads read them: gpu_samples first, collector_health after it, and    *)
(* then the clock.                                                         *)
(*                                                                         *)
(* clock is the wall clock in ticks; it may advance between any two steps  *)
(* of a round and of a request.  VRAM is in units.  The last four          *)
(* variables are history: no action's guard reads them.  punctual says of  *)
(* a behaviour whether its collector is done with each of its rounds       *)
(* RoundDelay after the round is due, at the latest.                       *)
(***************************************************************************)
EXTENDS Integers, FiniteSetsExt

CONSTANTS
    NumGpus,
    Readings,      \* what sample_all may report of one GPU
    Requests,      \* required_vram_bytes of a request; 0 when it is absent
    Interval,      \* sample_interval_ms
    Threshold,     \* kStaleThresholdMs
    RoundDelay,    \* from when a round is due to its health row, if punctual
    AnswerDelay,   \* from the health query to the clock, in a prompt answer
    MaxClock, MaxPolls, MaxErrors, MaxRestarts, MaxRequests

Null   == -1       \* SQL NULL
NoTime == 0        \* no row, or NULL, in a *_utc_ms column
Gpus   == 0 .. NumGpus - 1

ASSUME ReadinessAssumption ==
    /\ NumGpus \in Nat \ {0}
    /\ Readings \subseteq {r \in [total : 0 .. 9, used : 0 .. 9, util : -1 .. 100] :
                              r.used <= r.total}
    /\ Requests \subseteq Nat
    /\ {Interval, Threshold, MaxClock} \subseteq Nat \ {0}
    /\ {RoundDelay, AnswerDelay, MaxPolls, MaxErrors, MaxRestarts,
                                                   MaxRequests} \subseteq Nat

VARIABLES
    clock,
    gpuRows, gpuSample,                 \* the store: rows, last_sample_utc_ms
    cpc, round, started, roundTime, wake, next, polls,  \* the collector
    hpc, required, shown, health, answer,               \* one HTTP request at a time
    punctual,
    errors, restarts, requests,         \* for the bounds, like polls
    free,       \* the VRAM that was free when a round was sampled
    rounds,     \* has a round reached the collector's health row?
    lost,       \* is the health row ahead of the sample rows after a failure?
    overlap     \* did the collector's health row change since the snapshot was read?

store     == <<gpuRows, gpuSample>>
collector == <<cpc, round, started, roundTime, wake, next, polls>>
handler   == <<hpc, required, shown, health, answer>>
vars == <<clock, gpuRows, gpuSample, cpc, round, started, roundTime, wake, next, polls,
          hpc, required, shown, health, answer, punctual, errors, restarts, requests,
          free, rounds, lost, overlap>>

-----------------------------------------------------------------------------
(* Columns: OptInt64 makes NULL of a zero, and a negative utilisation is    *)
(* NULL too.                                                                *)
RawInt64(v) == v   \* mutant: a zero is a value
OptInt64(v) == IF v > 0 THEN v ELSE Null

GpuRow(g, t, r) == [gpu |-> g, time |-> t, total |-> OptInt64(r.total),
                    used |-> OptInt64(r.used), util |-> r.util]

(* INSERT OR REPLACE by machine, GPU and time. *)
Inserted(rows, new) == {x \in rows : x.gpu # new.gpu \/ x.time # new.time} \cup {new}

(* Mutant: the newest row of each GPU, whatever its time. *)
LatestOfEach(rows) == {x \in rows : \A y \in rows : y.gpu = x.gpu => y.time <= x.time}

(* The snapshot shows the rows of the newest time in the table. *)
LatestRows(rows) == {x \in rows : \A y \in rows : y.time <= x.time}

Later(kept, excluded) == IF excluded > kept THEN excluded ELSE kept

IsStale(sample, now) == sample = NoTime \/ now - sample > Threshold

HasVram(x)    == x.total # Null /\ x.used # Null
FreeOf(rows)  == LET known == {x \in rows : HasVram(x)}
                 IN SumFunction([x \in known |-> x.total - x.used])
MaxUtil(rows) == Max({0} \cup {x.util : x \in rows})

FitVerdict(rows) == CASE MaxUtil(rows) < 30 -> "fits_idle"
                      [] MaxUtil(rows) \in 30 .. 79 -> "fits_available"
                      [] OTHER -> "fits_busy"

Verdict(rows, need, gpuAt, bridgeAt, now) ==
    CASE rows = {} -> IF IsStale(bridgeAt, now) THEN "stale" ELSE "unknown"
      [] rows # {} /\ IsStale(gpuAt, now) -> "stale"
      [] OTHER ->
           CASE \A x \in rows : ~HasVram(x) -> "unknown"
             [] /\ \E x \in rows : HasVram(x)
                /\ need > 0 /\ FreeOf(rows) < need -> "insufficient_vram"
             [] OTHER -> FitVerdict(rows)

-----------------------------------------------------------------------------
(* Time passes, in the middle of a round or a request too.  A punctual      *)
(* collector has had its wake-up, samples, inserts and health row by then.  *)
Tick ==
    /\ clock < MaxClock
    /\ punctual => cpc \in {"boot", "off"} \/ clock < wake + RoundDelay
    /\ clock' = clock + 1
    /\ UNCHANGED <<store, collector, handler, errors, restarts, requests, free, rounds,
                   lost, overlap>>

MayFail == errors < MaxErrors /\ errors' = errors + 1

(* Initialize: a failure is written to the health row, as an "error" whose  *)
(* last_sample_utc_ms is now.                                               *)
GpuInitialize ==
    /\ cpc = "boot"
    /\ \/ /\ cpc' = "sleep"
          /\ wake' = Max({clock, roundTime + 1})
          /\ UNCHANGED <<gpuSample, errors, lost, overlap>>
       \/ /\ cpc' = "off"
          /\ MayFail
          /\ gpuSample' \in {gpuSample, Later(gpuSample, clock)}
          /\ lost' = TRUE
          /\ overlap' = (hpc = "collectors")
          /\ UNCHANGED wake
    /\ UNCHANGED <<clock, gpuRows, round, started, roundTime, next, polls, handler,
                   restarts, requests, free, rounds>>

NoRound == <<>>
FreeNow(r) == SumFunction([g \in Gpus |-> r[g].total - r[g].used])

(* A round begins with sample_all. *)
GpuSample ==
    /\ cpc = "sleep"
    /\ clock >= wake
    /\ polls < MaxPolls
    /\ polls' = polls + 1
    /\ started' = clock
    /\ round' \in [Gpus -> Readings]
    /\ next' = 0
    /\ cpc' = "stamp"
    /\ UNCHANGED <<clock, roundTime, wake, store, handler, errors, restarts, requests,
                   free, rounds, lost, overlap>>

(* NowUtcMs is read after it, and dates the rows and the health row. *)
GpuStamp ==
    /\ cpc = "stamp"
    /\ roundTime' = clock
    /\ cpc' = "insert"
    /\ free' = [free EXCEPT ![clock] = FreeNow(round)]
    /\ UNCHANGED <<clock, round, started, wake, next, polls, store, handler, errors,
                   restarts, requests, rounds, lost, overlap>>

GpuInsert ==
    /\ cpc = "insert"
    /\ next < NumGpus
    /\ next' = next + 1
    /\ \/ /\ gpuRows' = Inserted(gpuRows, GpuRow(next, roundTime, round[next]))
          /\ UNCHANGED <<errors, lost>>
       \/ MayFail /\ lost' = TRUE /\ UNCHANGED gpuRows
    /\ UNCHANGED <<clock, gpuSample, cpc, round, started, roundTime, wake, polls, handler,
                   restarts, requests, free, rounds, overlap>>

(* A round that left a row is as new as the health row that follows it.     *)
LostAfterRound == lost /\ \A x \in gpuRows : x.time # roundTime

(* Interval minus the time elapsed, if any is left.  Two rounds are never    *)
(* stamped alike: sample_all is not over in no time.                        *)
NextRound == Later(started + Interval, roundTime + 1)

HealthFrame ==
    /\ round' = NoRound
    /\ started' = NoTime
    /\ UNCHANGED <<clock, gpuRows, roundTime, next, polls, handler, restarts, requests,
                   free>>

(* Mutants: the health row is written before the rows of its round; the     *)
(* whole interval is slept after a round.                                   *)
GpuHealthEarly ==
    /\ cpc = "insert"
    /\ next \in {0, NumGpus}
    /\ gpuSample' = Later(gpuSample, roundTime)
    /\ IF next = NumGpus THEN cpc' = "sleep" /\ wake' = NextRound
                         ELSE UNCHANGED <<cpc, wake>>
    /\ overlap' = (hpc = "collectors")
    /\ lost' = LostAfterRound
    /\ UNCHANGED <<rounds, errors, round, clock, gpuRows, started, roundTime, next, polls,
                   handler, restarts, requests, free>>

GpuHealthFullSleep ==
    /\ cpc = "insert"
    /\ next = NumGpus
    /\ cpc' = "sleep"
    /\ wake' = clock + Interval
    /\ gpuSample' = Later(gpuSample, roundTime)
    /\ rounds' = TRUE
    /\ overlap' = (hpc = "collectors")
    /\ lost' = LostAfterRound
    /\ UNCHANGED errors
    /\ HealthFrame

(* The health row says "ok" whatever became of the rows of its round.       *)
GpuHealth ==
    /\ cpc = "insert"
    /\ next = NumGpus
    /\ cpc' = "sleep"
    /\ wake' = NextRound
    /\ \/ /\ gpuSample' = Later(gpuSample, roundTime)
          /\ rounds' = TRUE
          /\ overlap' = (hpc = "collectors")
          /\ lost' = LostAfterRound
          /\ UNCHANGED errors
       \/ MayFail /\ UNCHANGED <<gpuSample, rounds, overlap, lost>>
    /\ HealthFrame

-----------------------------------------------------------------------------
NoHealth == [gpu |-> NoTime, bridge |-> NoTime]
NoAnswer == [verdict |-> "none", need |-> 0, time |-> NoTime, asked |-> NoTime,
             at |-> NoTime, rounds |-> FALSE, faithful |-> FALSE]

RequestReadiness(need) ==
    /\ hpc = "idle"
    /\ requests < MaxRequests
    /\ requests' = requests + 1
    /\ required' = need
    /\ hpc' = "snapshot"
    /\ answer' = NoAnswer
    /\ UNCHANGED <<clock, store, collector, shown, health, errors, restarts, free, rounds,
                   lost, overlap>>

(* A query that cannot be prepared returns no rows. *)
QueryLatestSnapshot ==
    /\ hpc = "snapshot"
    /\ hpc' = "collectors"
    /\ \/ shown' = LatestRows(gpuRows) /\ UNCHANGED errors
       \/ shown' = {} /\ MayFail
    /\ answer' = [answer EXCEPT !.rounds = rounds]
    /\ overlap' = FALSE
    /\ UNCHANGED <<clock, store, collector, required, health, restarts, requests, free,
                   rounds, lost>>

(* The second query.  last_sample_utc_ms of a row that is not there, or not *)
(* found, is NoTime.  That of the bridge's row, which is looked at when      *)
(* there are no GPU rows, is the pipe thread's and any time up to now.      *)
QueryCollectorHealth ==
    /\ hpc = "collectors"
    /\ hpc' = "judge"
    /\ \/ /\ health' \in [gpu : {gpuSample},
                         bridge : IF shown = {} THEN NoTime .. clock ELSE {NoTime}]
          /\ UNCHANGED errors
       \/ health' = NoHealth /\ MayFail
    /\ answer' = [answer EXCEPT !.asked = clock, !.faithful = ~lost /\ ~overlap]
    /\ overlap' = FALSE
    /\ UNCHANGED <<clock, store, collector, required, shown, restarts, requests, free,
                   rounds, lost>>

(* The clock is read for the one health row the verdict looks at.  time is  *)
(* the time of the rows it rests on, which the response does not carry.     *)
Respond ==
    /\ hpc = "judge"
    /\ hpc' = "idle"
    /\ answer' = [answer EXCEPT
           !.verdict = Verdict(shown, required, health.gpu, health.bridge, clock),
           !.need    = required,
           !.time    = Max({NoTime} \cup {x.time : x \in shown}),
           !.at      = clock]
    /\ shown' = {}
    /\ health' = NoHealth
    /\ required' = 0
    /\ UNCHANGED <<clock, store, collector, errors, restarts, requests, free, rounds, lost,
                   overlap>>

(* The agent ends between two steps and is started again. *)
Restart ==
    /\ restarts < MaxRestarts
    /\ restarts' = restarts + 1
    /\ cpc' = "boot" /\ next' = 0 /\ round' = NoRound /\ started' = NoTime /\ wake' = 1
    /\ hpc' = "idle" /\ required' = 0 /\ shown' = {} /\ health' = NoHealth
    /\ answer' = NoAnswer
    /\ overlap' = FALSE
    /\ UNCHANGED <<clock, store, roundTime, polls, errors, requests, free, rounds, lost>>

-----------------------------------------------------------------------------
Init ==
    /\ clock = 1
    /\ gpuRows = {} /\ gpuSample = NoTime
    /\ punctual \in BOOLEAN
    /\ cpc = "boot" /\ next = 0 /\ started = NoTime /\ roundTime = NoTime /\ wake = 1
    /\ round = NoRound
    /\ hpc = "idle" /\ required = 0 /\ shown = {} /\ health = NoHealth
    /\ answer = NoAnswer
    /\ polls = 0 /\ errors = 0 /\ restarts = 0 /\ requests = 0
    /\ free = [t \in 1 .. MaxClock |-> 0]
    /\ rounds = FALSE /\ lost = FALSE /\ overlap = FALSE

Steps ==
    \/ Tick
    \/ GpuInitialize \/ GpuSample \/ GpuStamp \/ GpuInsert \/ GpuHealth
    \/ \E need \in Requests : RequestReadiness(need)
    \/ QueryLatestSnapshot \/ QueryCollectorHealth \/ Respond
    \/ Restart

Next == Steps /\ UNCHANGED punctual

Spec == Init /\ [][Next]_vars

-----------------------------------------------------------------------------
Rows == [gpu : Gpus, time : 1 .. MaxClock, total : {Null} \cup 1 .. 9,
         used : {Null} \cup 1 .. 9, util : -1 .. 100]
Fits == {"fits_idle", "fits_available", "fits_busy"}

TypeOK ==
    /\ clock \in 1 .. MaxClock
    /\ gpuRows \subseteq Rows /\ shown \subseteq Rows
    /\ {gpuSample, started, roundTime} \subseteq 0 .. MaxClock
    /\ cpc \in {"boot", "off", "sleep", "stamp", "insert"}
    /\ round \in {NoRound} \cup [Gpus -> Readings]
    /\ next \in 0 .. NumGpus /\ wake \in 1 .. MaxClock + Interval
    /\ hpc \in {"idle", "snapshot", "collectors", "judge"}
    /\ health \in [gpu : 0 .. MaxClock, bridge : 0 .. MaxClock]
    /\ required \in Requests \cup {0}
    /\ answer.verdict \in Fits \cup {"none", "stale", "unknown", "insufficient_vram"}
    /\ {polls, errors, restarts, requests} \subseteq Nat
    /\ free \in [1 .. MaxClock -> Nat]
    /\ {punctual, rounds, lost, overlap} \subseteq BOOLEAN

(* A verdict that a model fits was true of one instant: when the rows it    *)
(* rests on were sampled, at least that much VRAM was free on the host.     *)
(* Half-written rounds, failed inserts and unread sensors only make the     *)
(* answer more careful; rows of two rounds are never added up.              *)
NeverOverstates ==
    (answer.verdict \in Fits /\ answer.need > 0) => free[answer.time] >= answer.need

(* Staleness is judged by the health row and the verdict by the sample      *)
(* rows; while neither table lost a write and no round ended between the    *)
(* two queries, the rows behind a "fits" are no older than the threshold    *)
(* when it is given.                                                        *)
FitsIsRecent ==
    (answer.verdict \in Fits /\ answer.faithful) => answer.at - answer.time <= Threshold

(* While the collector is punctual and no statement fails, a request that   *)
(* comes after its first complete round and reads the clock promptly after  *)
(* the health row is never answered "stale": the health row is as old as    *)
(* its round's sampling, and is renewed only at the end of the next round.  *)
NoFalseStale ==
    (/\ punctual /\ errors = 0 /\ restarts = 0
     /\ answer.rounds /\ answer.at - answer.asked <= AnswerDelay)
    => answer.verdict # "stale"
=============================================================================

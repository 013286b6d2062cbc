----------------------------- MODULE GpuPolling -----------------------------
(* The poll loop of the GPU collector (DirectGpuCollector::PollLoop) over    *)
(* the telemetry library: it initializes the reader once, then samples all   *)
(* GPUs in full, writes a row for each and sleeps for what is left of        *)
(* --gpu-sample-ms.  Whether the rows have their memory figures, which is    *)
(* what readiness is decided by, hangs on the interval, on how long a round  *)
(* takes and on the rate limits of the library.                              *)
EXTENDS GpuTelemetry

CONSTANTS
    Interval,   \* config_.sample_interval_ms
    MaxDelay    \* how long a round of sampling and writing takes at most

ASSUME IntervalAssumption == Interval \in Int
ASSUME MaxDelayAssumption == MaxDelay \in Nat

VARIABLES
    start,  \* when the round under way began, or None before the first
    wake    \* when the loop goes round again, or None while it is busy

pollVars == <<vars, start, wake>>

PollInit == Init /\ start = None /\ wake = 0

Initialize == start = None /\ InitSucceeds /\ UNCHANGED <<start, wake>>

(* The sleep is over, the round begins; sleep_for may sleep longer.          *)
Poll ==
    /\ ready
    /\ wake # None /\ now >= wake
    /\ Call([i \in Gpus |-> i], "full")
    /\ start' = now
    /\ wake' = None
    /\ UNCHANGED <<now, probeVars, asked>>

Read == SampleTier /\ UNCHANGED <<start, wake>>

(* Mutant: the length of the round taken off twice.                          *)
NextRoundEarly == start + Interval - (now - start)

(* sleep_for(target - elapsed), or no sleep at all.                          *)
NextRound == IF now - start < Interval THEN start + Interval ELSE now

(* The rows are written and the loop goes to sleep.                          *)
Sleep ==
    /\ start # None /\ Idle /\ wake = None
    /\ wake' = NextRound
    /\ UNCHANGED <<vars, start>>

PollTick ==
    /\ wake = None => now < start + MaxDelay
    /\ Tick
    /\ UNCHANGED <<start, wake>>

(* Service::Stop joins the loop before it shuts the reader down, and nothing *)
(* starts the collector again.                                               *)
PollNext == Initialize \/ Poll \/ Read \/ Sleep \/ PollTick

PollSpec == PollInit /\ [][PollNext]_pollVars

-----------------------------------------------------------------------------
(* Every row a round writes is whole: with a driver that answers, a GPU that *)
(* has its NVML device gets all the readings, memory included, and one that  *)
(* has none gets all NVAPI has.  It takes an interval that leaves the        *)
(* longest of the limits after the longest round, since a GPU sampled late   *)
(* in one round may be sampled early in the next; at the default of 500 ms   *)
(* rounds may take 400.                                                      *)
WholeRows ==
    start # None /\ Idle =>
        \A i \in Gpus :
            snaps[i] = IF contexts[i].device = None
                       THEN {"thermals", "clocks", "fans"} ELSE Groups
=============================================================================

------------------------------ MODULE StoreRows ------------------------------
(***************************************************************************)
(* The rows that the host agent keeps in SQLite and the single-row upserts *)
(* of apps/host_agent/src/storage/sqlite_store.cpp, as pure operators from *)
(* the row that was there to the row that is there afterwards.             *)
(*                                                                         *)
(* Columns are kept when a later statement, a query or a verdict reads     *)
(* them; names, units, values and the *_json columns are left out.         *)
(***************************************************************************)
EXTENDS Naturals, Sequences

CONSTANTS
    Sensors,     \* the sensor_uids the bridge may report
    Time,        \* wall-clock readings, in milliseconds; a clock may be stepped
    Statuses,    \* what a heartbeat or a collector may write in "status"
    Incoming     \* the well-formed messages the bridge may send

NoTime == 0      \* SQL NULL in a *_utc_ms column, and a row that is not there

Kinds == {"hello", "catalog_snapshot", "sample_batch", "heartbeat"}

(* A parsed BridgeMessage.  rows are the sensors of a catalog_snapshot or   *)
(* the samples of a sample_batch; only a sample_batch has a sampled time.   *)
Message == [kind : Kinds, sent : Time, sampled : Time \cup {NoTime},
            rows : Seq(Sensors), status : Statuses]

ASSUME TimeAssumption == Time \subseteq Nat \ {NoTime}
ASSUME StatusAssumption == {"ok", "error", "unreachable"} \subseteq Statuses
ASSUME IncomingAssumption ==
    /\ Incoming \subseteq Message
    /\ \A m \in Incoming : m.kind = "sample_batch" => m.sampled \in Time

-----------------------------------------------------------------------------
NoSeen       == [first |-> NoTime, last |-> NoTime]   \* no row yet
SeenRow      == {NoSeen} \cup [first : Time, last : Time]
CollectorRow == [status  : Statuses \cup {"none"},
                 hello   : Time \cup {NoTime},
                 sample  : Time \cup {NoTime},
                 updated : Time \cup {NoTime}]

NoCollector == [status |-> "none", hello |-> NoTime, sample |-> NoTime,
                updated |-> NoTime]

(* CASE WHEN excluded > kept THEN excluded ELSE kept, NULL being older than *)
(* every time: a NULL never replaces a time, and a time replaces a NULL.    *)
Later(kept, excluded) == IF excluded > kept THEN excluded ELSE kept

(* Mutant: INSERT OR REPLACE instead of ON CONFLICT DO UPDATE. *)
UpsertMachineReplacing(row, seen) == [first |-> seen, last |-> Later(row.last, seen)]

(* machine_catalog: first_seen is written by the insert alone. *)
UpsertMachine(row, seen) ==
    IF row.first = NoTime THEN [first |-> seen, last |-> seen]
                          ELSE [row EXCEPT !.last = Later(@, seen)]

(* collector_health: the two last_* times only move forward, the status and *)
(* updated_utc_ms are whatever the last writer said.                        *)
UpsertCollector(row, status, hello, sample, updated) ==
    [status  |-> status,
     hello   |-> Later(row.hello, hello),
     sample  |-> Later(row.sample, sample),
     updated |-> updated]

(* sensor_catalog: last_seen follows the message, forward or back. *)
UpsertCatalogSensor(row, sent) ==
    [first |-> IF row.first = NoTime THEN sent ELSE row.first, last |-> sent]

IsCatalogued(catalog, s) == catalog[s].first # NoTime

-----------------------------------------------------------------------------
(* What each kind of message binds in the two upserts every message makes.  *)
SeenTime(m)        == IF m.kind = "sample_batch" THEN m.sampled ELSE m.sent
HelloTime(m)       == IF m.kind = "hello" THEN m.sent ELSE NoTime
SampleTimeUnbound(m) == NoTime   \* mutant: the batch's time is not bound
SampleTime(m)      == IF m.kind = "sample_batch" THEN m.sampled ELSE NoTime
CollectorStatus(m) == IF m.kind = "heartbeat" THEN m.status ELSE "ok"

UpsertMachineFor(row, m) == UpsertMachine(row, SeenTime(m))
UpsertCollectorFor(row, m) ==
    UpsertCollector(row, CollectorStatus(m), HelloTime(m), SampleTime(m), m.sent)

RowsOf(m) == {m.rows[i] : i \in 1 .. Len(m.rows)}
=============================================================================

--------------------------- MODULE MCTelemetryStore ---------------------------
(* Small instances of TelemetryStore for TLC. *)
EXTENDS TelemetryStore

CONSTANTS s1, s2

MCSensors  == {s1, s2}
MCTime     == 1 .. 2
MCStatuses == {"ok", "error", "unreachable"}

MCHello(t)        == [kind |-> "hello", sent |-> t, sampled |-> NoTime,
                      rows |-> <<>>, status |-> "ok"]
MCCatalog(t, r)   == [MCHello(t) EXCEPT !.kind = "catalog_snapshot", !.rows = r]
MCBatch(t, at, r) == [MCHello(t) EXCEPT !.kind = "sample_batch", !.sampled = at,
                                        !.rows = r]
MCHeartbeat(t)    == [MCHello(t) EXCEPT !.kind = "heartbeat"]

(* Every kind; clocks that step back; a catalogue with one sensor missing.  *)
MCIncoming ==
    {MCHello(t) : t \in MCTime} \cup {MCHeartbeat(2)}
      \cup {MCCatalog(2, <<s1>>), MCCatalog(1, <<s1, s2>>)}
      \cup {MCBatch(2, at, <<s1, s2>>) : at \in MCTime}

(* The messages with rows, for the runs with more of everything else.       *)
MCRowMessages ==
    {MCCatalog(2, <<s1>>), MCCatalog(1, <<s1, s2>>), MCBatch(2, 1, <<s1, s2>>)}
=============================================================================

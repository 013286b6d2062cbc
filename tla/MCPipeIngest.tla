----------------------------- MODULE MCPipeIngest -----------------------------
(* Small instances of PipeIngest for TLC: everything the bridge can build   *)
(* from two sensors, one reading of the clock.                              *)
EXTENDS PipeIngest

CONSTANTS s1, s2

MCSensors  == {s1, s2}
MCOrder    == <<s1, s2>>
MCSensor   == {s1}          \* for the run about the stream, not the rows
MCOrder1   == <<s1>>
MCTime     == {1}
MCStatuses == {"ok", "error", "unreachable"}
MCRows     == {<<>>, <<s1>>, <<s2>>, <<s1, s2>>}

MCIncoming ==
    {[kind |-> k, sent |-> 1, sampled |-> NoTime, rows |-> <<>>, status |-> "ok"]
        : k \in {"hello", "heartbeat"}}
    \cup {[kind |-> "catalog_snapshot", sent |-> 1, sampled |-> NoTime, rows |-> r,
           status |-> "ok"] : r \in MCRows}
    \cup {[kind |-> "sample_batch", sent |-> 1, sampled |-> 1, rows |-> r,
           status |-> "ok"] : r \in MCRows}
MCIncoming1 == {m \in MCIncoming : s2 \notin RowsOf(m)}
=============================================================================

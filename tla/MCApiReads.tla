----------------------------- MODULE MCApiReads -----------------------------
(* Small instances of ApiReads for TLC.                                      *)
EXTENDS ApiReads, TLC

CONSTANTS s1, s2

MCSensors == {s1, s2}
MCTime == 1 .. 2
MCStatuses == {"ok", "error", "unreachable"}

(* The CPU's temperature, and memory of which the snapshot has no figure.    *)
MCHardwareType == s1 :> "Cpu" @@ s2 :> "Memory"
MCSensorType == s1 :> "Temperature" @@ s2 :> "Data"
MCNamed == s1 :> "Package" @@ s2 :> "Available"

MCBatch(t, r) == [kind |-> "sample_batch", sent |-> 1, sampled |-> t, rows |-> r,
                  status |-> "ok"]
MCCatalog(r) == [MCBatch(1, r) EXCEPT !.kind = "catalog_snapshot", !.sampled = NoTime]

(* A catalogue with both sensors, and batches of clocks that step back.      *)
MCIncoming == {MCCatalog(<<s1, s2>>)} \cup {MCBatch(1, <<s1>>), MCBatch(2, <<s1, s2>>)}

(* No limit to speak of, one row, and more than may be had.                 *)
MCAsked == {0, 1, 3}
=============================================================================

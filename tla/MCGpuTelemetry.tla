--------------------------- MODULE MCGpuTelemetry ---------------------------
(* Small instances of GpuTelemetry for TLC.                                  *)
EXTENDS GpuTelemetry

(* Two GPUs, one of them on bus 0, and a device that NVAPI does not know.     *)
MCBus == <<5, 0, 6>>

(* One tick for the 5 ms of the fastest tier; the order of the five limits   *)
(* and the equality of fast and medium are the code's, the ratios smaller.   *)
MCMinInterval == [thermal_fast |-> 1, fast |-> 2, medium |-> 2, slow |-> 3,
                  rare |-> 4]

MCFull == {"full"}
=============================================================================

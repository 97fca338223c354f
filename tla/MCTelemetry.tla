------------------------------ MODULE MCTelemetry ------------------------------
(* Telemetry with two threads and two counters as model values. *)
EXTENDS Telemetry

CONSTANTS t1, t2, requests, errors
===============================================================================

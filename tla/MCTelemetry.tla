---------------------------- MODULE MCTelemetry -----------------------------
(* Telemetry with replies of two bytes, and an answer of three.            *)
EXTENDS Telemetry

MCSize == [k \in Reports \cup {"float", "answer"} |-> IF k = "answer" THEN 3 ELSE 2]
=============================================================================

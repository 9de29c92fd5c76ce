----------------------------- MODULE MCTelemetry -----------------------------
EXTENDS Telemetry
==============================================================================

------------------------ MODULE MCTelemetryPipeline ------------------------
EXTENDS TelemetryPipeline
=============================================================================

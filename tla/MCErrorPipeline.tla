-------------------------- MODULE MCErrorPipeline --------------------------
EXTENDS ErrorPipeline
=============================================================================

-------------------------- MODULE MCStreamConsumer --------------------------
EXTENDS StreamConsumer
=============================================================================

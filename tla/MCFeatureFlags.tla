--------------------------- MODULE MCFeatureFlags ---------------------------
EXTENDS FeatureFlags
=============================================================================

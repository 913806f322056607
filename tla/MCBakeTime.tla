----------------------------- MODULE MCBakeTime -----------------------------
EXTENDS BakeTime
=============================================================================

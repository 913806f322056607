-------------------------- MODULE MCTokenLifetime ---------------------------
EXTENDS TokenLifetime
=============================================================================

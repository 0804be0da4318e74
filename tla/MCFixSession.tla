---------------------------- MODULE MCFixSession ----------------------------
EXTENDS FixSession
=============================================================================

------------------------------- MODULE MCOMS -------------------------------
EXTENDS OMS
=============================================================================

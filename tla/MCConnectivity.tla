--------------------------- MODULE MCConnectivity ---------------------------
EXTENDS Connectivity
=============================================================================

------------------------------ MODULE MCRealtime ------------------------------
EXTENDS Realtime
=============================================================================

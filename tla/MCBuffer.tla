------------------------------ MODULE MCBuffer ------------------------------
EXTENDS BufferConnection
=============================================================================

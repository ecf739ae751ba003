----------------------------- MODULE MCServerConn -----------------------------
EXTENDS ServerConn
==============================================================================

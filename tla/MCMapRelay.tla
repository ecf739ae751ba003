------------------------------ MODULE MCMapRelay ------------------------------
EXTENDS MapRelay
================================================================================

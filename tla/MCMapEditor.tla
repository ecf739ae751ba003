------------------------------ MODULE MCMapEditor ------------------------------
EXTENDS MapEditor
================================================================================

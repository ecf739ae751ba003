---------------------------- MODULE MCServerSession ----------------------------
EXTENDS ServerSession
\* The flag of map 1 is at a fixed place; the random one of map 2 may be there.
MapOverlap == {<<1, 2>>}
==============================================================================

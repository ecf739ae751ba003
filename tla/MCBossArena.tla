----------------------------- MODULE MCBossArena -----------------------------
(***************************************************************************)
(* Map 3 of Make_Defalt_Map in scale, one step standing for 80 frames and  *)
(* 80 pixels: the boss at 1760, a block every 160, 320 or 480 frames, four *)
(* blocks 480 apart and an enemy on the second.  Half widths of 40, 80 and *)
(* 160 are rounded up.                                                     *)
(***************************************************************************)
EXTENDS BossArena
MCHalfWidth == <<1, 1, 2>>
MCInterval == <<2, 4, 6>>
MCMapBlocks == [k \in 1 .. 4 |-> [x |-> 6 * k - 5, w |-> 2]]
MCMapEnemys == <<1>>
==============================================================================

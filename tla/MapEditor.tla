-------------------------------- MODULE MapEditor --------------------------------
(***************************************************************************)
(* The host's map editor, WndEditProc, and what the server makes of the    *)
(* enemies of an uploaded map.  A block is drawn by dragging; spikes,      *)
(* flags and enemies are put on the block whose centre is nearest to the   *)
(* click, an enemy keeping the index of its block; the right button takes  *)
(* out what is nearest.  The level is a line: a place is a number, and     *)
(* what the code does with y it does with x too.  In the game loop an      *)
(* enemy walks between the edges of the block it has the index of.         *)
(*                                                                         *)
(* Every block has a name of its own, a ghost, which the code has not.     *)
(* The editor trusts its user; CarefulNext is what a careful one does.     *)
(***************************************************************************)
EXTENDS Integers, Sequences, SequencesExt

CONSTANTS
  Size,       \* half the width of an enemy (24)
  Speed,      \* the pace of an enemy on the server (4)
  Clicks,     \* bound: the places where the mouse is used
  MaxBlocks, MaxObjects, MaxEnemies, \* bounds: what is on a map at a time
  MaxPress    \* bound: how often a mouse button is pressed

ASSUME SizeAssumption == Size \in Nat /\ Speed \in Nat \ {0}
ASSUME EditorBounds ==
  /\ Clicks \subseteq Nat
  /\ MaxBlocks \in Nat /\ MaxObjects \in Nat /\ MaxEnemies \in Nat /\ MaxPress \in Nat

Modes == {"D_Block", "D_Spike", "D_Flag", "D_Enemy", "D_Boss", "D_player"}
NoCentre == -1              \* the centre of a block still being drawn

VARIABLES
  open,                     \* the editor's window is open
  curDrawmod, down, start_x,
  blocks, objects, enemys, boss_count, P_Start_Loc,  \* Editmap
  presses,                  \* bound: buttons pressed so far; names the blocks
  uploaded, played          \* what the server got, and its map in the game

edited == <<blocks, objects, enemys, boss_count, P_Start_Loc>>
mouse == <<curDrawmod, down, start_x>>
vars == <<open, mouse, edited, presses, uploaded, played>>

NoMap == [blocks |-> <<>>, enemys |-> <<>>]

Init ==
  /\ open = FALSE /\ curDrawmod = "D_Block" /\ down = FALSE /\ start_x = 0
  /\ blocks = <<>> /\ objects = <<>> /\ enemys = <<>> /\ boss_count = 0
  /\ P_Start_Loc = [i \in 0 .. 2 |-> 0]
  /\ presses = 0 /\ uploaded = FALSE /\ played = NoMap

--------------------------------------------------------------------------------
\* get_length, and the loops of search_near and search_near_Block: the nearest
\* of the things at the places xs, the last one of equals, 0 if there is none.
Length(a, b) == IF a < b THEN b - a ELSE a - b

NearestButLast(xs, c) ==
  LET f[i \in 0 .. Len(xs)] ==
        IF i < 2 THEN 0
        ELSE IF Length(c, xs[i - 1]) <= Length(c, xs[f[i - 1] + 1]) THEN i - 2 ELSE f[i - 1]
  IN f[Len(xs)]
Nearest(xs, c) ==
  LET f[i \in 0 .. Len(xs)] ==
        IF i = 0 THEN 0
        ELSE IF Length(c, xs[i]) <= Length(c, xs[f[i - 1] + 1]) THEN i - 1 ELSE f[i - 1]
  IN f[Len(xs)]

Places(things) == [i \in DOMAIN things |-> things[i].x]
NearestOf(things, c) == Nearest(Places(things), c)

\* Integer division by 2 of C, which drops the fraction.
Half(d) == IF d < 0 THEN -((-d) \div 2) ELSE d \div 2

\* A block as it is drawn from l to r, its centre still to come or computed.
Block(name, l, r, c) == [name |-> name, left |-> l, right |-> r, x |-> c]
Centre(l, r) == l + Half(r - l)

Make_Enemy(c, b) == [x |-> c, direction |-> "LEFT", on_block |-> b, name |-> blocks[b + 1].name]

--------------------------------------------------------------------------------
\* The edit button of the title creates the window.
EditButton ==
  /\ ~open /\ ~uploaded
  /\ open' = TRUE /\ down' = FALSE /\ curDrawmod' = "D_Block"
  /\ UNCHANGED <<start_x, edited, presses, uploaded, played>>

Press(c) ==
  /\ open /\ presses < MaxPress
  /\ presses' = presses + 1 /\ start_x' = c
  /\ UNCHANGED <<open, curDrawmod, uploaded, played>>

\* WM_LBUTTONDOWN, mode by mode.
BeginBlock(c) ==
  /\ curDrawmod = "D_Block" /\ Press(c) /\ Len(blocks) < MaxBlocks
  /\ down' = TRUE
  /\ blocks' = Append(blocks, Block(presses, c, c, NoCentre))
  /\ UNCHANGED <<objects, enemys, boss_count, P_Start_Loc>>

PutObject(c) ==
  /\ curDrawmod \in {"D_Spike", "D_Flag"} /\ Press(c) /\ Len(objects) < MaxObjects
  /\ objects' = Append(objects, [x |-> c, obj_type |-> curDrawmod])
  /\ UNCHANGED <<down, blocks, enemys, boss_count, P_Start_Loc>>

PutEnemy(c) ==
  /\ curDrawmod = "D_Enemy" /\ Press(c) /\ Len(enemys) < MaxEnemies
  /\ enemys' = Append(enemys, Make_Enemy(c, NearestOf(blocks, c)))
  /\ UNCHANGED <<down, blocks, objects, boss_count, P_Start_Loc>>

PutBoss(c) ==
  /\ curDrawmod = "D_Boss" /\ Press(c) /\ boss_count' = 1
  /\ UNCHANGED <<down, blocks, objects, enemys, P_Start_Loc>>

PutPlayer(c) ==
  /\ curDrawmod = "D_player" /\ Press(c)
  /\ P_Start_Loc' = [i \in 0 .. 2 |-> c]
  /\ UNCHANGED <<down, blocks, objects, enemys, boss_count>>

\* WM_MOUSEMOVE and WM_LBUTTONUP draw the last block.
DrawnButOne(b) == IF Len(blocks) > 1 THEN [blocks EXCEPT ![Len(blocks) - 1] = b] ELSE blocks
Drawn(b) == [blocks EXCEPT ![Len(blocks)] = b]

MouseMove(c) ==
  /\ open /\ down
  /\ blocks' = Drawn([blocks[Len(blocks)] EXCEPT !.left = start_x, !.right = c])
  /\ UNCHANGED <<open, mouse, objects, enemys, boss_count, P_Start_Loc, presses,
                 uploaded, played>>

ButtonUp(c) ==
  /\ open /\ curDrawmod = "D_Block"
  /\ blocks' = Drawn(Block(blocks[Len(blocks)].name, start_x, c, Centre(start_x, c)))
  /\ down' = FALSE
  /\ UNCHANGED <<open, curDrawmod, start_x, objects, enemys, boss_count, P_Start_Loc,
                 presses, uploaded, played>>

\* WM_RBUTTONDOWN: the elements behind the nearest move up.
WithoutBefore(s, k) == RemoveAt(s, IF k = 0 THEN 1 ELSE k)
Without(s, k) == RemoveAt(s, k + 1)

TakenOut(things, c) ==
  IF things = <<>> THEN things ELSE Without(things, NearestOf(things, c))

TakeBlock(c) ==
  /\ curDrawmod = "D_Block" /\ Press(c)
  /\ blocks' = TakenOut(blocks, c)
  /\ UNCHANGED <<down, objects, enemys, boss_count, P_Start_Loc>>

TakeObject(c) ==
  /\ curDrawmod \in {"D_Spike", "D_Flag"} /\ Press(c)
  /\ objects' = TakenOut(objects, c)
  /\ UNCHANGED <<down, blocks, enemys, boss_count, P_Start_Loc>>

TakeEnemy(c) ==
  /\ curDrawmod = "D_Enemy" /\ Press(c)
  /\ enemys' = TakenOut(enemys, c)
  /\ UNCHANGED <<down, blocks, objects, boss_count, P_Start_Loc>>

TakeBoss(c) ==
  /\ curDrawmod = "D_Boss" /\ Press(c) /\ boss_count' = 0
  /\ UNCHANGED <<down, blocks, objects, enemys, P_Start_Loc>>

\* Only the first start is reset.
TakePlayer(c) ==
  /\ curDrawmod = "D_player" /\ Press(c)
  /\ P_Start_Loc' = [P_Start_Loc EXCEPT ![0] = 0]
  /\ UNCHANGED <<down, blocks, objects, enemys, boss_count>>

\* WM_CHAR: the keys 1 to 6, q and s.
KeyMode(m) ==
  /\ open /\ curDrawmod' = m
  /\ UNCHANGED <<open, down, start_x, edited, presses, uploaded, played>>

KeyQ ==
  /\ open /\ open' = FALSE
  /\ UNCHANGED <<mouse, edited, presses, uploaded, played>>

KeyS ==
  /\ open /\ open' = FALSE
  /\ uploaded' = TRUE /\ played' = [blocks |-> blocks, enemys |-> enemys]
  /\ UNCHANGED <<mouse, edited, presses>>

--------------------------------------------------------------------------------
\* Move_Enemy: the step is taken in the old direction, whichever is next.
AtRightEdgeOnly(e, b) ==
  \/ e.direction = "LEFT" /\ e.x - Size <= b.right
  \/ e.direction = "RIGHT" /\ e.x + Size >= b.right
AtEdge(e, b) ==
  \/ e.direction = "LEFT" /\ e.x - Size <= b.left
  \/ e.direction = "RIGHT" /\ e.x + Size >= b.right

Flip(d) == IF d = "LEFT" THEN "RIGHT" ELSE "LEFT"

Move_Enemy(e, b) ==
  [e EXCEPT !.direction = IF AtEdge(e, b) THEN Flip(@) ELSE @,
            !.x = IF e.direction = "LEFT" THEN @ - Speed ELSE @ + Speed]

UpdateAllPositions ==
  /\ uploaded
  /\ played' = [played EXCEPT !.enemys =
       [i \in DOMAIN @ |-> Move_Enemy(@[i], played.blocks[@[i].on_block + 1])]]
  /\ UNCHANGED <<open, mouse, edited, presses, uploaded>>

--------------------------------------------------------------------------------
\* A careful user finishes a block before anything else, puts things on a map
\* that has a block, and takes no block out at or before one with an enemy.
Idle == ~down
Careful(c) ==
  \A e \in Range(enemys) : blocks # <<>> => NearestOf(blocks, c) > e.on_block

LeftDown(c) ==
  \/ BeginBlock(c) \/ PutBoss(c) \/ PutPlayer(c)
  \/ blocks # <<>> /\ (PutObject(c) \/ PutEnemy(c))
RightDown(c) ==
  \/ Careful(c) /\ TakeBlock(c)
  \/ TakeObject(c) \/ TakeEnemy(c) \/ TakeBoss(c) \/ TakePlayer(c)
Draw(c) == down /\ (MouseMove(c) \/ ButtonUp(c))
Keys == KeyQ \/ KeyS \/ \E m \in Modes : KeyMode(m)

CarefulNext ==
  \/ EditButton \/ UpdateAllPositions
  \/ \E c \in Clicks : Draw(c) \/ (Idle /\ (LeftDown(c) \/ RightDown(c)))
  \/ Idle /\ Keys

CarefulSpec == Init /\ [][CarefulNext]_vars /\ WF_vars(UpdateAllPositions)

--------------------------------------------------------------------------------
BlockRecord == [name : Nat, left : Nat, right : Nat, x : Nat \cup {NoCentre}]
ObjectRecord == [x : Nat, obj_type : {"D_Spike", "D_Flag"}]
EnemyRecord == [x : Int, direction : {"LEFT", "RIGHT"}, on_block : Nat, name : Nat]

\* The types of the variables; only the block being drawn, which is the last,
\* is without a centre.
TypeOK ==
  /\ open \in BOOLEAN /\ curDrawmod \in Modes /\ down \in BOOLEAN /\ start_x \in Nat
  /\ blocks \in Seq(BlockRecord) /\ objects \in Seq(ObjectRecord)
  /\ enemys \in Seq(EnemyRecord) /\ boss_count \in {0, 1}
  /\ P_Start_Loc \in [0 .. 2 -> Nat] /\ presses \in Nat /\ uploaded \in BOOLEAN
  /\ played \in [blocks : Seq(BlockRecord), enemys : Seq(EnemyRecord)]
  /\ \A k \in DOMAIN blocks : blocks[k].x = NoCentre <=> down /\ k = Len(blocks)

\* The loops of search_near find a thing that nothing is nearer than.
NearestIsNearest ==
  Idle => \A c \in Clicks : \A things \in {blocks, enemys, objects} : things # <<>> =>
    \A t \in Range(things) : Length(c, things[NearestOf(things, c) + 1].x) <= Length(c, t.x)

\* The index an enemy keeps still names the block it was put on, whatever was
\* drawn and taken out since, in the editor and in the game.
EnemyOnItsBlock ==
  LET Named(e, bs) == e.on_block < Len(bs) /\ bs[e.on_block + 1].name = e.name IN
  /\ \A e \in Range(enemys) : Named(e, blocks)
  /\ \A e \in Range(played.enemys) : Named(e, played.blocks)

\* A block that has been drawn stays as it is until it is taken out.
FinishedStay ==
  [][\A b \in Range(blocks) : b.x # NoCentre =>
       b \in Range(blocks') \/ \A d \in Range(blocks') : d.name # b.name]_vars

\* In the game every enemy comes to walk on its block, and never steps over an
\* edge by two steps or more: also when it was put beside the block.
WalksOnItsBlock ==
  LET On(e, b) == /\ b.left - (2 * Speed) < e.x - Size
                  /\ e.x + Size < b.right + (2 * Speed)
  IN <>[](\A e \in Range(played.enemys) :
            LET b == played.blocks[e.on_block + 1] IN b.right - b.left >= 2 * Size => On(e, b))
================================================================================

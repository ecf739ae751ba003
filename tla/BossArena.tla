------------------------------ MODULE BossArena ------------------------------
(***************************************************************************)
(* The boss fight of ServerSystem, frame by frame as the game loop thread  *)
(* plays it: BossLogic appends a block, and perhaps an enemy on it, at the *)
(* boss whenever attack_time has run out, takes a life for every player    *)
(* that slams the boss, moves every block one step to the left and takes   *)
(* out the blocks that have left the screen.  server_map[now_map].blocks   *)
(* and .enemys are plain arrays with a count; here they are sequences, and *)
(* only on_block keeps the code's indices from 0.                          *)
(*                                                                         *)
(* What the recv threads write meanwhile, the players' rectangles, is any  *)
(* number of slams in a frame: BossLogic asks no slot whether its player   *)
(* is connected.  Heights, the enemies' walk along their platform and      *)
(* their is_alive, which nothing here reads, are left out; P_Start_Loc[0]  *)
(* is the place of blocks[0].                                              *)
(***************************************************************************)
EXTENDS Integers, Sequences

CONSTANTS BossX,          \* boss.x, where blocks appear
          BossLife,       \* boss.life at the start
          HalfWidth,      \* per life, half the width of a new block
          Interval,       \* per life, the frames until the next attack
          FirstAttack,    \* attack_time at the start
          MapBlocks,      \* the blocks of the default map
          MapEnemys,      \* on_block of its enemies
          BlockCap,       \* sizes of the arrays blocks and enemys
          EnemyCap,
          MAX_PLAYERS,
          Overkill,       \* bound: slams on a beaten boss
          Idle            \* bound: frames attack_time is followed below 0

Lives == 1 .. BossLife
Blocks == [x : 0 .. BossX, w : Nat \ {0}]

\* Block b ends before block c begins.
Apart(b, c) == b.x + b.w <= c.x - c.w

ASSUME NumbersAssumption ==
  /\ BossX \in Nat /\ BossLife \in Nat /\ FirstAttack \in Nat
  /\ BlockCap \in Nat /\ EnemyCap \in Nat /\ MAX_PLAYERS \in Nat
  /\ Overkill \in Nat /\ Idle \in Nat
ASSUME TablesAssumption ==
  HalfWidth \in [Lives -> Nat \ {0}] /\ Interval \in [Lives -> Nat \ {0}]
ASSUME MapAssumption == MapBlocks \in Seq(Blocks) /\ MapEnemys \in Seq(Nat)
\* The blocks of the map are apart, and until the next attack there is room for
\* its block behind the last one.
ASSUME PaceAssumption ==
  /\ \A l \in Lives : \A m \in 1 .. l : HalfWidth[l] + HalfWidth[m] <= Interval[l]
  /\ \A k \in 1 .. Len(MapBlocks) - 1 : Apart(MapBlocks[k], MapBlocks[k + 1])
  /\ LET n == Len(MapBlocks) IN n > 0 => \A m \in Lives :
       MapBlocks[n].x + MapBlocks[n].w + HalfWidth[m] <= BossX + FirstAttack
\* The way across the screen takes longer than the time until the next attack.
ASSUME WayAssumption ==
  /\ \A l \in Lives : Interval[l] <= BossX
  /\ MapBlocks # <<>> /\ FirstAttack <= MapBlocks[Len(MapBlocks)].x
\* Even three attacks in a row are over before the block of the first is gone.
ASSUME CrowdAssumption ==
  /\ \A l \in Lives : 3 * Interval[l] <= BossX
  /\ LET n == Len(MapBlocks) IN
     /\ n >= 3 /\ FirstAttack <= MapBlocks[n - 2].x
     /\ \A l \in Lives : /\ FirstAttack + Interval[l] <= MapBlocks[n - 1].x
                        /\ FirstAttack + 2 * Interval[l] <= MapBlocks[n].x
\* The enemies of the map are on its blocks, no two on one, from left to right.
ASSUME EnemysAssumption ==
  /\ \A k \in 1 .. Len(MapEnemys) : MapEnemys[k] < Len(MapBlocks)
  /\ \A k, m \in 1 .. Len(MapEnemys) : k < m => MapEnemys[k] + (m - k) <= MapEnemys[m]
\* The arrays hold as many as fit beside each other on the way across the screen.
Fits(d) ==
  /\ \A l \in Lives : d <= HalfWidth[l]
  /\ \A k \in 1 .. Len(MapBlocks) : d <= MapBlocks[k].w
  /\ BossX \div (2 * d) < BlockCap /\ BossX \div (2 * d) < EnemyCap
ASSUME CapAssumption == \E d \in 1 .. BossX : Fits(d)

VARIABLES blocks, enemys, life, attack_time,
          won,            \* GAME_WIN has been broadcast
          pc,             \* the part of BossLogic the thread is in
          i, j            \* its loop indices

vars == <<blocks, enemys, life, attack_time, won, pc, i, j>>

block_count == Len(blocks)
enemy_count == Len(enemys)
block(n) == blocks[n + 1]

Init ==
  /\ blocks = MapBlocks /\ enemys = MapEnemys
  /\ life = BossLife /\ attack_time = FirstAttack
  /\ won = FALSE /\ pc = "attack" /\ i = 0 /\ j = 0

\* The boss attacks when its time has run out and it has one of its lives.
NeverAtLast == attack_time <= 0 /\ life \in Lives \ {1}
Attacks == attack_time <= 0 /\ life \in Lives

Attack(enemy) ==
  /\ pc = "attack" /\ Attacks
  /\ blocks' = Append(blocks, [x |-> BossX, w |-> HalfWidth[life]])
  /\ enemys' = IF enemy THEN Append(enemys, block_count) ELSE enemys
  /\ attack_time' = Interval[life]
  /\ pc' = "strike" /\ UNCHANGED <<life, won, i, j>>

NoAttack ==
  /\ pc = "attack" /\ ~Attacks
  /\ pc' = "strike" /\ UNCHANGED <<blocks, enemys, life, attack_time, won, i, j>>

\* hits players slam the boss and leave it alive (or nobody does).
Strike(hits) ==
  /\ pc = "strike"
  /\ hits > 0 => life - hits > 0
  /\ life' = life - hits
  /\ pc' = "scroll" /\ i' = 0
  /\ UNCHANGED <<blocks, enemys, attack_time, won, j>>

\* The slam that takes the last life, or one more from a beaten boss, ends
\* the frame: nothing moves and attack_time stands still.
Beaten ==
  /\ pc = "strike" /\ life > -Overkill
  /\ life' = IF life > 0 THEN 0 ELSE life - 1
  /\ won' = TRUE /\ pc' = "attack"
  /\ UNCHANGED <<blocks, enemys, attack_time, i, j>>

-----------------------------------------------------------------------------
(* The loop over the blocks.                                               *)

MovedLeft(bs, n) == [bs EXCEPT ![n + 1].x = @ - 1]

OffScreenLate(n) == block(n).x < 0
OffScreen(n) == block(n).x <= 0

Move ==
  /\ pc = "scroll" /\ i < block_count /\ ~OffScreen(i)
  /\ blocks' = MovedLeft(blocks, i)
  /\ i' = i + 1
  /\ UNCHANGED <<enemys, life, attack_time, won, pc, j>>

StartRemoval ==
  /\ pc = "scroll" /\ i < block_count /\ OffScreen(i)
  /\ pc' = "remove" /\ j' = i
  /\ UNCHANGED <<blocks, enemys, life, attack_time, won, i>>

\* One round of the loop over the enemies, when blocks[j] has become
\* blocks[j + 1]: the first enemy found on block i is overwritten with its
\* successor, and as its loop uses k too, the enemies behind it are neither
\* moved up nor renumbered; those before it follow their block.
OnGone == {k \in DOMAIN enemys : enemys[k] = i}
FirstGone == CHOOSE k \in OnGone : \A m \in OnGone : k <= m
FollowedNot(k) == enemys[k]
Followed(k) == IF enemys[k] = j + 1 THEN j ELSE enemys[k]
Renumbered ==
  IF OnGone = {} THEN [k \in 1 .. enemy_count |-> Followed(k)]
  ELSE [k \in 1 .. enemy_count - 1 |->
          CASE k < FirstGone -> Followed(k)
            [] k = FirstGone -> enemys[k + 1]
            [] OTHER -> enemys[k]]

RemovalRound ==
  /\ pc = "remove" /\ j < block_count - 1
  /\ blocks' = [blocks EXCEPT ![j + 1] = block(j + 1)]
  /\ enemys' = Renumbered
  /\ j' = j + 1
  /\ UNCHANGED <<life, attack_time, won, pc, i>>

WithLast == blocks
WithoutLast == SubSeq(blocks, 1, block_count - 1)

\* The block that has taken the place of the removed one moves at once.
SuccessorWaits == WithoutLast
SuccessorMoved == IF i < block_count - 1 THEN MovedLeft(WithoutLast, i) ELSE WithoutLast

EndRemoval ==
  /\ pc = "remove" /\ j >= block_count - 1
  /\ blocks' = SuccessorMoved
  /\ i' = i + 1 /\ pc' = "scroll"
  /\ UNCHANGED <<enemys, life, attack_time, won, j>>

EndFrame ==
  /\ pc = "scroll" /\ i >= block_count /\ attack_time > -Idle
  /\ attack_time' = attack_time - 1
  /\ pc' = "attack"
  /\ UNCHANGED <<blocks, enemys, life, won, i, j>>

Next ==
  \/ \E enemy \in BOOLEAN : Attack(enemy)
  \/ NoAttack
  \/ \E hits \in 0 .. MAX_PLAYERS : Strike(hits)
  \/ Beaten
  \/ Move \/ StartRemoval \/ RemovalRound \/ EndRemoval
  \/ EndFrame

Spec == Init /\ [][Next]_vars

-----------------------------------------------------------------------------
(* Properties.                                                             *)

\* A block is taken out at the left edge of the screen and never seen beyond
\* it, and no enemy's on_block is negative.
TypeOK ==
  /\ blocks \in Seq(Blocks) /\ enemys \in Seq(Nat)
  /\ life \in Int /\ life <= BossLife /\ attack_time \in Int
  /\ won \in BOOLEAN /\ pc \in {"attack", "strike", "scroll", "remove"}
  /\ i \in Nat /\ j \in Nat

\* Between two frames no block overlaps its neighbour, however often the
\* boss changed its pace: blocks stay in the order of their appearance.
BlocksApart ==
  pc = "attack" => \A k \in 1 .. block_count - 1 : Apart(blocks[k], blocks[k + 1])

\* The appends of BossLogic test no bound: what it takes out must keep up
\* with what it puts in.
ArraysSuffice == block_count <= BlockCap /\ enemy_count <= EnemyCap

\* The removal deletes and renumbers the wrong enemies, as FirstGone shows;
\* still, Move_Enemy never finds one on a block that is not there while the
\* boss lives.
PlatformExists ==
  pc = "attack" /\ life > 0 => \A k \in 1 .. enemy_count : enemys[k] < block_count

\* While the boss lives there is a block to stand on and to start from again.
AlwaysABlock == pc = "attack" /\ life > 0 => block_count > 0
==============================================================================

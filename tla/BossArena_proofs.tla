---------------------------- MODULE BossArena_proofs ----------------------------
(***************************************************************************)
(* Theorems about BossArena, for any arena, any number of lives and any    *)
(* tables: as long as an attack waits until there is room for its block,   *)
(* no block is seen beyond the left edge and none overlaps another, through*)
(* every removal in the middle of the loop that moves them.  As three      *)
(* blocks are always behind the one that goes, the removal, which renumbers*)
(* the wrong enemies, leaves none without a block; and as blocks are apart *)
(* and each has at most one enemy to itself, the arrays are large enough.  *)
(***************************************************************************)
EXTENDS BossArena, SequenceTheorems, WellFoundedInduction, TLAPS

Types ==
  /\ blocks \in Seq(Blocks) /\ enemys \in Seq(Nat)
  /\ life \in Int /\ life <= BossLife /\ attack_time \in Int
  /\ pc \in {"attack", "strike", "scroll", "remove"}
  /\ i \in Nat /\ j \in Nat

Beating == won \in BOOLEAN

\* A step to the left still leaves b apart from c.
Slack(b, c) == b.x + b.w + 1 <= c.x - c.w

\* The blocks before i have moved in this frame, the others have not.  While
\* blocks[i] is taken out, blocks[j] has been copied to the place before it.
Spaced ==
  /\ \A k \in 1 .. block_count - 1 :
       pc # "remove" \/ k # j \/ j = i => Apart(blocks[k], blocks[k + 1])
  /\ pc \in {"scroll", "remove"} /\ 1 <= i /\ i < block_count =>
       Slack(blocks[i], blocks[i + 1])

Removing ==
  pc = "remove" =>
    /\ i <= j /\ j < block_count
    /\ i < j => blocks[j] = blocks[j + 1] /\ blocks[i + 1].x >= 1

\* The last block leaves room for the block of the next attack, whichever life
\* the boss has by then.
Moved == IF pc = "scroll" /\ i >= block_count THEN 1 ELSE 0
Room(b, m, t) == b.x + b.w + HalfWidth[m] <= BossX + t
Paced ==
  block_count > 0 =>
    \A m \in Lives : m <= life => Room(blocks[block_count], m, attack_time - Moved)

ArenaInv == Types /\ Beating /\ Spaced /\ Removing /\ Paced

--------------------------------------------------------------------------------
\* What becomes of a sequence of blocks.
LEMMA Updated ==
  ASSUME NEW S, NEW s \in Seq(S), NEW k \in 1 .. Len(s), NEW e \in S
  PROVE  /\ [s EXCEPT ![k] = e] \in Seq(S) /\ Len([s EXCEPT ![k] = e]) = Len(s)
         /\ \A n \in 1 .. Len(s) : [s EXCEPT ![k] = e][n] = IF n = k THEN e ELSE s[n]
OBVIOUS

LEMMA Shortened ==
  ASSUME NEW S, NEW s \in Seq(S), Len(s) > 0
  PROVE  LET t == SubSeq(s, 1, Len(s) - 1) IN
         t \in Seq(S) /\ Len(t) = Len(s) - 1 /\ \A n \in 1 .. Len(t) : t[n] = s[n]
<1> DEFINE last == Len(s) - 1
           t == SubSeq(s, 1, last)
<1>1. last \in Nat /\ \A n \in 1 .. last : s[n] \in S OBVIOUS
<1> HIDE DEF last
<1>2. /\ t \in Seq(S) /\ Len(t) = IF 1 <= last THEN last - 1 + 1 ELSE 0
      /\ \A n \in 1 .. last - 1 + 1 : t[n] = s[1 + n - 1]
  BY <1>1, SubSeqProperties
<1> HIDE DEF t
<1>3. Len(t) = last BY <1>1, <1>2
<1>4. ASSUME NEW n \in 1 .. last PROVE t[n] = s[n]
  <2>1. n \in 1 .. last - 1 + 1 /\ 1 + n - 1 = n BY <1>1
  <2> QED BY <1>2, <2>1
<1> QED BY <1>2, <1>3, <1>4 DEF last, t

LEMMA Lengthened ==
  ASSUME NEW S, NEW s \in Seq(S), NEW e \in S
  PROVE  LET t == Append(s, e) IN
         /\ t \in Seq(S) /\ Len(t) = Len(s) + 1 /\ t[Len(t)] = e
         /\ \A n \in 1 .. Len(s) : t[n] = s[n]
OBVIOUS

LEMMA BlockAt ==
  ASSUME Types, NEW k \in 1 .. block_count
  PROVE  /\ blocks[k] \in Blocks /\ blocks[k].x \in Nat /\ blocks[k].x <= BossX
         /\ blocks[k].w \in Nat /\ blocks[k].w >= 1
<1>1. blocks[k] \in Blocks BY DEF Types, block_count
<1> QED BY <1>1, NumbersAssumption DEF Blocks

LEMMA Count ==
  ASSUME Types
  PROVE  block_count \in Nat /\ block_count = Len(blocks)
BY DEF Types, block_count

\* A block one step further to the left.
LEMMA StepLeft ==
  ASSUME NEW b \in Blocks, b.x >= 1
  PROVE  LET c == [b EXCEPT !.x = @ - 1] IN c \in Blocks /\ c.x = b.x - 1 /\ c.w = b.w
BY NumbersAssumption DEF Blocks

LEMMA InitArenaInv == Init => ArenaInv
<1> SUFFICES ASSUME Init PROVE ArenaInv OBVIOUS
<1>1. Types BY NumbersAssumption, MapAssumption DEF Init, Types
<1>0. Beating BY DEF Init, Beating
<1>2. Spaced BY PaceAssumption DEF Init, Spaced, block_count
<1>3. Removing BY DEF Init, Removing
<1>4. Moved = 0 BY DEF Init, Moved
<1>5. Paced
  <2>1. blocks = MapBlocks /\ attack_time = FirstAttack BY DEF Init
  <2>2. FirstAttack - 0 = FirstAttack BY NumbersAssumption
  <2> QED BY <1>4, <2>1, <2>2, PaceAssumption DEF Paced, block_count, Room
<1> QED BY <1>0, <1>1, <1>2, <1>3, <1>5 DEF ArenaInv

--------------------------------------------------------------------------------
\* The new block has its room behind the last one, and leaves some for the next.
LEMMA StepAttack ==
  ASSUME ArenaInv, NEW enemy \in BOOLEAN, Attack(enemy)
  PROVE  ArenaInv'
<1> USE DEF ArenaInv
<1> DEFINE new == [x |-> BossX, w |-> HalfWidth[life]]
           n == block_count
<1>1. life \in Lives /\ attack_time <= 0 /\ pc = "attack" BY DEF Attack, Attacks
<1>2. HalfWidth[life] \in Nat \ {0} /\ Interval[life] \in Nat \ {0}
  BY <1>1, TablesAssumption
<1>3. new \in Blocks BY <1>2, NumbersAssumption DEF Blocks
<1>4. blocks' = Append(blocks, new) BY DEF Attack
<1>5. n \in Nat /\ n = Len(blocks) BY Count
<1>6. /\ blocks' \in Seq(Blocks) /\ Len(blocks') = n + 1 /\ blocks'[n + 1] = new
      /\ \A k \in 1 .. n : blocks'[k] = blocks[k]
  <2> HIDE DEF new
  <2> QED BY <1>3, <1>4, <1>5, Lengthened DEF Types
<1>7. enemys' \in Seq(Nat) BY <1>5 DEF Attack, Types
<1>8. UNCHANGED <<life, won, i, j>> /\ pc' = "strike" /\ attack_time' = Interval[life]
  BY DEF Attack
<1>9. Types' BY <1>2, <1>6, <1>7, <1>8 DEF Types
<1>10. block_count' = n + 1 BY <1>6 DEF block_count
<1> HIDE DEF n
<1>11. new.x = BossX /\ new.w = HalfWidth[life] OBVIOUS
<1> HIDE DEF new
<1>12. Spaced'
  <2>1. ASSUME NEW k \in 1 .. n PROVE Apart(blocks'[k], blocks'[k + 1])
    <3>1. CASE k < n
      <4>1. Apart(blocks[k], blocks[k + 1]) BY <1>1, <1>5, <3>1 DEF Spaced, n
      <4> QED BY <1>5, <1>6, <3>1, <4>1
    <3>2. CASE k = n
      <4>1. Room(blocks[n], life, attack_time - 0)
        BY <1>1, <1>5, <3>2 DEF Paced, Moved, n, Types
      <4>2. blocks[n].x \in Nat /\ blocks[n].w \in Nat BY <3>2, BlockAt DEF n
      <4>3. blocks'[k] = blocks[n] /\ blocks'[k + 1] = new BY <1>6, <3>2
      <4>4. blocks[n].x + blocks[n].w + HalfWidth[life] <= BossX + attack_time
        BY <4>1 DEF Room, Types
      <4>5. blocks[n].x + blocks[n].w <= BossX - HalfWidth[life]
        <5>1. attack_time \in Int /\ BossX \in Nat BY NumbersAssumption DEF Types
        <5> HIDE DEF ArenaInv
        <5> QED BY <1>1, <1>2, <4>2, <4>4, <5>1
      <4> QED BY <1>11, <4>3, <4>5 DEF Apart
    <3> QED BY <1>5, <3>1, <3>2
  <2>2. block_count' - 1 = n BY <1>5, <1>10
  <2> QED BY <1>8, <2>1, <2>2 DEF Spaced
<1>13. Removing' BY <1>8 DEF Removing
<1>14. Paced'
  <2>1. Moved' = 0 BY <1>8 DEF Moved
  <2>2. ASSUME NEW m \in Lives, m <= life PROVE Room(new, m, Interval[life] - 0)
    <3>1. m \in 1 .. life BY <2>2 DEF Lives, Types
    <3>2. HalfWidth[life] + HalfWidth[m] <= Interval[life] BY <1>1, <3>1, PaceAssumption
    <3>3. HalfWidth[m] \in Nat BY TablesAssumption
    <3> QED BY <1>2, <1>11, <3>2, <3>3, NumbersAssumption DEF Room
  <2> QED BY <1>6, <1>8, <1>10, <2>1, <2>2 DEF Paced
<1>15. Beating' BY <1>8 DEF Beating
<1> QED BY <1>9, <1>12, <1>13, <1>14, <1>15

\* No attack, and what the players do: nothing moves.
LEMMA StepStill ==
  ASSUME ArenaInv, pc \in {"attack", "strike"},
         NoAttack \/ (\E hits \in 0 .. MAX_PLAYERS : Strike(hits)) \/ Beaten
  PROVE  ArenaInv'
<1> USE DEF ArenaInv
<1>1. blocks' = blocks /\ block_count' = block_count /\ attack_time' = attack_time
  BY DEF NoAttack, Strike, Beaten, block_count
<1>2. pc' \in {"attack", "strike", "scroll"} /\ (pc' = "scroll" => i' = 0)
  BY DEF NoAttack, Strike, Beaten
<1>3. life' \in Int /\ life' <= life
  BY NumbersAssumption DEF NoAttack, Strike, Beaten, Types
<1>4. Types'
  <2>1. i' \in Nat /\ j' \in Nat /\ enemys' = enemys
    BY DEF NoAttack, Strike, Beaten, Types
  <2> QED BY <1>1, <1>2, <1>3, <2>1, NumbersAssumption DEF Types
<1>5. Spaced' BY <1>1, <1>2 DEF Spaced
<1>6. Removing' BY <1>2 DEF Removing
<1>7. Paced'
  <2> SUFFICES ASSUME block_count > 0 PROVE Paced' BY <1>1 DEF Paced
  <2>1. Moved = 0 /\ Moved' = 0
    <3>1. block_count \in Nat BY Count
    <3> QED BY <1>1, <1>2, <3>1 DEF Moved
  <2>2. \A m \in Lives : m <= life' => m <= life BY <1>3 DEF Types, Lives
  <2> QED BY <1>1, <2>1, <2>2 DEF Paced
<1>8. Beating' BY DEF NoAttack, Strike, Beaten, Beating
<1> QED BY <1>4, <1>5, <1>6, <1>7, <1>8

\* A block that moves gives room to the one behind it and takes what it got
\* from the one before.
LEMMA StepMove ==
  ASSUME ArenaInv, Move
  PROVE  ArenaInv'
<1> USE DEF ArenaInv
<1> DEFINE n == block_count
           b == blocks[i + 1]
           c == [b EXCEPT !.x = @ - 1]
<1>1. n \in Nat /\ n = Len(blocks) /\ i \in Nat /\ i < n /\ pc = "scroll" /\ i + 1 \in 1 .. n
  BY Count DEF Move, Types
<1>2. b \in Blocks /\ b.x \in Nat /\ b.w \in Nat /\ b.w >= 1 BY <1>1, BlockAt
<1>3. b.x >= 1 BY <1>2 DEF Move, OffScreen, block
<1>4. c \in Blocks /\ c.x = b.x - 1 /\ c.w = b.w BY <1>2, <1>3, StepLeft
<1>5. blocks' = [blocks EXCEPT ![i + 1] = c]
  <2>1. blocks' = [blocks EXCEPT ![i + 1].x = @ - 1] BY DEF Move, MovedLeft
  <2> QED BY <2>1
<1> HIDE DEF n, c
<1>6. /\ blocks' \in Seq(Blocks) /\ Len(blocks') = n
      /\ \A k \in 1 .. n : blocks'[k] = IF k = i + 1 THEN c ELSE blocks[k]
  BY <1>1, <1>4, <1>5, Updated DEF Types
<1>7. i' = i + 1 /\ UNCHANGED <<enemys, life, attack_time, won, pc, j>> BY DEF Move
<1>8. block_count' = n BY <1>6 DEF block_count
<1>9. Types' BY <1>6, <1>7 DEF Types
<1>10. Spaced'
  <2>1. ASSUME NEW k \in 1 .. n - 1 PROVE Apart(blocks'[k], blocks'[k + 1])
    <3>0. k \in 1 .. n /\ k + 1 \in 1 .. n BY <1>1
    <3>1. blocks[k].x \in Nat /\ blocks[k].w \in Nat /\ blocks[k + 1].x \in Nat
          /\ blocks[k + 1].w \in Nat
      BY <3>0, BlockAt DEF n
    <3>2. Apart(blocks[k], blocks[k + 1]) BY <1>1 DEF Spaced, n
    <3>3. CASE k = i + 1
      <4>1. blocks'[k] = c /\ blocks'[k + 1] = blocks[k + 1] BY <1>1, <1>6, <3>0, <3>3
      <4> QED BY <1>2, <1>4, <3>1, <3>2, <3>3, <4>1 DEF Apart
    <3>4. CASE k = i
      <4>1. blocks'[k] = blocks[k] /\ blocks'[k + 1] = c BY <1>1, <1>6, <3>0, <3>4
      <4>2. Slack(blocks[k], b) BY <1>1, <3>0, <3>4 DEF Spaced, n
      <4> QED BY <1>2, <1>4, <3>1, <4>1, <4>2 DEF Apart, Slack
    <3>5. CASE k # i /\ k # i + 1
      <4>1. blocks'[k] = blocks[k] /\ blocks'[k + 1] = blocks[k + 1]
        BY <1>1, <1>6, <3>0, <3>5
      <4> QED BY <3>2, <4>1
    <3> QED BY <3>3, <3>4, <3>5
  <2>2. ASSUME i + 1 < n PROVE Slack(blocks'[i + 1], blocks'[i + 2])
    <3>1. blocks'[i + 1] = c /\ blocks'[i + 2] = blocks[i + 2] /\ i + 2 \in 1 .. n
      BY <1>1, <1>6, <2>2
    <3>2. Apart(b, blocks[i + 2])
      <4>1. i + 1 \in 1 .. n - 1 /\ (i + 1) + 1 = i + 2 BY <1>1, <2>2
      <4> QED BY <1>1, <4>1 DEF Spaced, n
    <3>3. blocks[i + 2].x \in Nat /\ blocks[i + 2].w \in Nat BY <3>1, BlockAt DEF n
    <3> QED BY <1>2, <1>4, <3>1, <3>2, <3>3 DEF Apart, Slack
  <2>3. (i + 1) + 1 = i + 2 BY <1>1
  <2> QED BY <1>7, <1>8, <2>1, <2>2, <2>3 DEF Spaced
<1>11. Removing' BY <1>1, <1>7 DEF Removing
<1>12. Paced'
  <2> SUFFICES ASSUME NEW m \in Lives, m <= life
               PROVE  Room(blocks'[n], m, attack_time - Moved')
    BY <1>7, <1>8 DEF Paced
  <2>1. Room(blocks[n], m, attack_time - 0)
    BY <1>1 DEF Paced, Moved, n
  <2>2. HalfWidth[m] \in Nat /\ attack_time \in Int BY TablesAssumption DEF Types
  <2>3. CASE i + 1 = n
    <3>1. blocks'[n] = c /\ blocks[n] = b BY <1>1, <1>6, <2>3
    <3>2. Moved' = 1 BY <1>1, <1>7, <1>8, <2>3 DEF Moved
    <3> QED BY <1>2, <1>4, <2>1, <2>2, <3>1, <3>2, NumbersAssumption DEF Room
  <2>4. CASE i + 1 # n
    <3>1. blocks'[n] = blocks[n] BY <1>1, <1>6, <2>4
    <3>2. Moved' = 0 BY <1>1, <1>7, <1>8, <2>4 DEF Moved
    <3> QED BY <2>1, <3>1, <3>2
  <2> QED BY <2>3, <2>4
<1>13. Beating' BY <1>7 DEF Beating
<1> QED BY <1>9, <1>10, <1>11, <1>12, <1>13

LEMMA StepStartRemoval ==
  ASSUME ArenaInv, StartRemoval
  PROVE  ArenaInv'
<1> USE DEF ArenaInv
<1>1. /\ pc = "scroll" /\ pc' = "remove" /\ i < block_count /\ j' = i
      /\ UNCHANGED <<blocks, enemys, life, attack_time, won, i>> /\ block_count' = block_count
  BY DEF StartRemoval, block_count
<1>2. i \in Nat /\ block_count \in Nat BY Count DEF Types
<1>3. Types' BY <1>1 DEF Types
<1>4. Spaced' BY <1>1 DEF Spaced
<1>5. Removing' BY <1>1, <1>2 DEF Removing
<1>6. Moved = 0 /\ Moved' = 0 BY <1>1, <1>2 DEF Moved
<1>7. Paced' BY <1>1, <1>6 DEF Paced
<1>8. Beating' BY <1>1 DEF Beating
<1> QED BY <1>3, <1>4, <1>5, <1>7, <1>8

\* The enemies keep numbers, whichever of them the loops delete.
LEMMA RenumberedType ==
  ASSUME Types
  PROVE  Renumbered \in Seq(Nat)
<1>1. enemy_count \in Nat /\ \A k \in 1 .. enemy_count : enemys[k] \in Nat
  BY DEF Types, enemy_count
<1>2. \A k \in 1 .. enemy_count : Followed(k) \in Nat BY <1>1 DEF Followed, Types
<1>3. CASE OnGone = {}
  <2>1. Renumbered = [k \in 1 .. enemy_count |-> Followed(k)] BY <1>3 DEF Renumbered
  <2> QED BY <1>1, <1>2, <2>1
<1>4. CASE OnGone # {}
  <2>1. \A k \in 1 .. enemy_count - 1 : k \in 1 .. enemy_count /\ k + 1 \in 1 .. enemy_count
    BY <1>1
  <2> DEFINE e(k) == CASE k < FirstGone -> Followed(k)
                       [] k = FirstGone -> enemys[k + 1]
                       [] OTHER -> enemys[k]
  <2>2. \A k \in 1 .. enemy_count - 1 : e(k) \in Nat BY <1>1, <1>2, <2>1
  <2>3. Renumbered = [k \in 1 .. enemy_count - 1 |-> e(k)] BY <1>4 DEF Renumbered
  <2>4. CASE enemy_count > 0
    <3>1. enemy_count - 1 \in Nat BY <1>1, <2>4
    <3> HIDE DEF e
    <3> QED BY <2>2, <2>3, <3>1
  <2>5. CASE enemy_count = 0
    <3>1. OnGone = {} BY <2>5 DEF OnGone, enemy_count, Types
    <3> QED BY <1>4, <3>1
  <2> QED BY <1>1, <2>4, <2>5
<1> QED BY <1>3, <1>4

\* One place further, the copy of blocks[j + 1] is the block that is twice there.
LEMMA StepRemovalRound ==
  ASSUME ArenaInv, RemovalRound
  PROVE  ArenaInv'
<1> USE DEF ArenaInv
<1> DEFINE n == block_count
           d == blocks[j + 2]
<1>1. /\ n \in Nat /\ n = Len(blocks) /\ i \in Nat /\ j \in Nat /\ i <= j /\ j + 1 < n
      /\ pc = "remove" /\ j + 1 \in 1 .. n /\ j + 2 \in 1 .. n
  BY Count DEF RemovalRound, Types, Removing
<1>2. d \in Blocks /\ d.x \in Nat /\ d.w \in Nat /\ d.w >= 1 BY <1>1, BlockAt
<1>3. blocks' = [blocks EXCEPT ![j + 1] = d]
  <2>1. (j + 1) + 1 = j + 2 BY <1>1
  <2> QED BY <2>1 DEF RemovalRound, block
<1> HIDE DEF n
<1>4. /\ blocks' \in Seq(Blocks) /\ Len(blocks') = n
      /\ \A k \in 1 .. n : blocks'[k] = IF k = j + 1 THEN d ELSE blocks[k]
  BY <1>1, <1>2, <1>3, Updated DEF Types
<1>5. j' = j + 1 /\ UNCHANGED <<life, attack_time, won, pc, i>> /\ enemys' \in Seq(Nat)
  BY RenumberedType DEF RemovalRound
<1>6. block_count' = n BY <1>4 DEF block_count
<1>7. Types' BY <1>1, <1>4, <1>5 DEF Types
<1>8. /\ blocks[j + 1].x \in Nat /\ blocks[j + 1].w \in Nat /\ blocks[j + 1].w >= 1
  BY <1>1, BlockAt DEF n
<1>9. Apart(blocks[j + 1], d)
  <2>1. j + 1 \in 1 .. n - 1 /\ j + 1 # j /\ (j + 1) + 1 = j + 2 BY <1>1
  <2> QED BY <2>1 DEF Spaced, n
<1>10. d.x >= 1 BY <1>2, <1>8, <1>9 DEF Apart
<1>11. Spaced'
  <2>1. ASSUME NEW k \in 1 .. n - 1, k # j + 1 PROVE Apart(blocks'[k], blocks'[k + 1])
    <3>0. k \in 1 .. n /\ k + 1 \in 1 .. n BY <1>1
    <3>1. CASE k # j
      <4>1. blocks'[k] = blocks[k] /\ blocks'[k + 1] = blocks[k + 1]
        BY <1>1, <1>4, <2>1, <3>0, <3>1
      <4>2. Apart(blocks[k], blocks[k + 1]) BY <3>1 DEF Spaced, n
      <4> QED BY <4>1, <4>2
    <3>2. CASE k = j /\ i < j
      <4>1. blocks'[k] = blocks[j + 1] /\ blocks'[k + 1] = d
        BY <1>1, <1>4, <3>0, <3>2 DEF Removing
      <4> QED BY <1>9, <4>1
    <3>3. CASE k = j /\ i = j
      <4>1. blocks'[k] = blocks[j] /\ blocks'[k + 1] = d BY <1>1, <1>4, <3>0, <3>3
      <4>2. Slack(blocks[j], blocks[j + 1]) BY <1>1, <3>0, <3>3 DEF Spaced, n
      <4>3. blocks[j].x \in Nat /\ blocks[j].w \in Nat BY <3>0, <3>3, BlockAt DEF n
      <4> QED BY <1>2, <1>8, <1>9, <4>1, <4>2, <4>3 DEF Apart, Slack
    <3> QED BY <1>1, <3>1, <3>2, <3>3
  <2>2. ASSUME 1 <= i PROVE Slack(blocks'[i], blocks'[i + 1])
    <3>0. i \in 1 .. n /\ i + 1 \in 1 .. n /\ i < n BY <1>1, <2>2
    <3>1. blocks'[i] = blocks[i] BY <1>1, <1>4, <3>0
    <3>2. Slack(blocks[i], blocks[i + 1]) BY <1>1, <2>2, <3>0 DEF Spaced, n
    <3>3. CASE i < j
      <4>1. blocks'[i + 1] = blocks[i + 1] BY <1>1, <1>4, <3>0, <3>3
      <4> QED BY <3>1, <3>2, <4>1
    <3>4. CASE i = j
      <4>1. blocks'[i + 1] = d BY <1>1, <1>4, <3>0, <3>4
      <4>2. blocks[i].x \in Nat /\ blocks[i].w \in Nat BY <3>0, BlockAt DEF n
      <4> QED BY <1>2, <1>8, <1>9, <3>1, <3>2, <3>4, <4>1, <4>2 DEF Apart, Slack
    <3> QED BY <1>1, <3>3, <3>4
  <2> QED BY <1>1, <1>5, <1>6, <2>1, <2>2 DEF Spaced
<1>12. Removing'
  <2>1. blocks'[j + 1] = d /\ blocks'[j + 2] = d /\ (j + 1) + 1 = j + 2 BY <1>1, <1>4
  <2>2. blocks'[i + 1].x >= 1
    <3>1. i + 1 \in 1 .. n BY <1>1
    <3>2. CASE i = j BY <1>1, <1>10, <2>1, <3>2
    <3>3. CASE i < j
      <4>1. blocks'[i + 1] = blocks[i + 1] BY <1>1, <1>4, <3>1, <3>3
      <4> QED BY <1>1, <3>3, <4>1 DEF Removing
    <3> QED BY <1>1, <3>2, <3>3
  <2> QED BY <1>1, <1>5, <1>6, <2>1, <2>2 DEF Removing
<1>13. Paced'
  <2>1. blocks'[n] = blocks[n] BY <1>1, <1>4
  <2>2. Moved = 0 /\ Moved' = 0 BY <1>1, <1>5 DEF Moved
  <2> QED BY <1>5, <1>6, <2>1, <2>2 DEF Paced, n
<1>14. Beating' BY <1>5 DEF Beating
<1> QED BY <1>7, <1>11, <1>12, <1>13, <1>14

\* The block is gone; its successor, if there is one, moves without a look at
\* the left edge, and need not look: it begins behind the block that is gone.
LEMMA StepEndRemoval ==
  ASSUME ArenaInv, EndRemoval
  PROVE  ArenaInv'
<1> USE DEF ArenaInv
<1> DEFINE n == block_count
           rest == WithoutLast
           b == rest[i + 1]
           c == [b EXCEPT !.x = @ - 1]
<1>1. /\ n \in Nat /\ n = Len(blocks) /\ i \in Nat /\ j \in Nat /\ i <= j /\ j = n - 1
      /\ n > 0 /\ pc = "remove" /\ pc' = "scroll"
  BY Count DEF EndRemoval, Types, Removing
<1>2. i' = i + 1 /\ UNCHANGED <<enemys, life, attack_time, won, j>> BY DEF EndRemoval
<1>3. rest \in Seq(Blocks) /\ Len(rest) = n - 1 /\ \A k \in 1 .. n - 1 : rest[k] = blocks[k]
  <2>1. Len(blocks) > 0 /\ blocks \in Seq(Blocks) BY <1>1 DEF Types
  <2>2. rest = SubSeq(blocks, 1, Len(blocks) - 1) BY DEF WithoutLast, block_count
  <2> HIDE DEF rest
  <2> QED BY <1>1, <2>1, <2>2, Shortened
<1> HIDE DEF n, rest
<1>4. \A k \in 1 .. n - 2 : Apart(rest[k], rest[k + 1])
  <2> TAKE k \in 1 .. n - 2
  <2>1. k \in 1 .. n - 1 /\ k + 1 \in 1 .. n - 1 /\ k # j BY <1>1
  <2>2. Apart(blocks[k], blocks[k + 1]) BY <2>1 DEF Spaced, n
  <2> QED BY <1>3, <2>1, <2>2
<1>5. \A k \in 1 .. n - 1 : /\ rest[k].x \in Nat /\ rest[k].x <= BossX
                             /\ rest[k].w \in Nat /\ rest[k].w >= 1 /\ rest[k] \in Blocks
  <2> TAKE k \in 1 .. n - 1
  <2>1. k \in 1 .. n BY <1>1
  <2> QED BY <1>3, <2>1, BlockAt DEF n
<1>6. \A m \in Lives : m <= life => Room(blocks[n], m, attack_time - 0)
  BY <1>1 DEF Paced, Moved, n
<1>7. Beating' BY <1>2 DEF Beating
<1>8. Removing' BY <1>1 DEF Removing
<1>9. CASE i < n - 1
  <2>1. i + 1 \in 1 .. n - 1 BY <1>1, <1>9
  <2>2. b = blocks[i + 1] BY <1>3, <2>1
  <2>3. b.x >= 1 BY <1>1, <1>9, <2>2 DEF Removing
  <2>4. b \in Blocks /\ b.x \in Nat /\ b.w \in Nat /\ b.w >= 1 BY <1>5, <2>1
  <2>5. c \in Blocks /\ c.x = b.x - 1 /\ c.w = b.w BY <2>3, <2>4, StepLeft
  <2>6. blocks' = [rest EXCEPT ![i + 1] = c]
    <3>1. blocks' = MovedLeft(rest, i) BY <1>9 DEF EndRemoval, SuccessorMoved, n, rest
    <3>2. blocks' = [rest EXCEPT ![i + 1].x = @ - 1] BY <3>1 DEF MovedLeft
    <3> QED BY <3>2
  <2> HIDE DEF b, c
  <2>7. /\ blocks' \in Seq(Blocks) /\ Len(blocks') = n - 1
        /\ \A k \in 1 .. n - 1 : blocks'[k] = IF k = i + 1 THEN c ELSE rest[k]
    BY <1>3, <2>1, <2>5, <2>6, Updated
  <2>8. block_count' = n - 1 BY <2>7 DEF block_count
  <2>9. Types' BY <1>1, <1>2, <2>7 DEF Types
  <2>10. Spaced'
    <3>1. ASSUME NEW k \in 1 .. n - 2 PROVE Apart(blocks'[k], blocks'[k + 1])
      <4>0. k \in 1 .. n - 1 /\ k + 1 \in 1 .. n - 1 BY <1>1
      <4>1. CASE k = i + 1
        <5>1. blocks'[k] = c /\ blocks'[k + 1] = rest[k + 1] BY <1>1, <2>7, <4>0, <4>1
        <5>2. Apart(b, rest[k + 1]) BY <1>4, <4>1 DEF b
        <5> QED BY <1>5, <2>4, <2>5, <4>0, <5>1, <5>2 DEF Apart
      <4>2. CASE k = i
        <5>1. blocks'[k] = rest[k] /\ blocks'[k + 1] = c BY <1>1, <2>7, <4>0, <4>2
        <5>2. Slack(blocks[i], blocks[i + 1]) BY <1>1, <1>9, <4>0, <4>2 DEF Spaced, n
        <5>3. Slack(rest[k], b) BY <1>3, <2>2, <4>0, <4>2, <5>2
        <5> QED BY <1>5, <2>4, <2>5, <4>0, <5>1, <5>3 DEF Apart, Slack
      <4>3. CASE k # i /\ k # i + 1
        <5>1. blocks'[k] = rest[k] /\ blocks'[k + 1] = rest[k + 1]
          BY <1>1, <2>7, <4>0, <4>3
        <5> QED BY <1>4, <5>1
      <4> QED BY <4>1, <4>2, <4>3
    <3>2. ASSUME i + 1 < n - 1 PROVE Slack(blocks'[i + 1], blocks'[i + 2])
      <4>1. i + 2 \in 1 .. n - 1 /\ i + 1 \in 1 .. n - 2 /\ (i + 1) + 1 = i + 2
        BY <1>1, <3>2
      <4>2. blocks'[i + 1] = c /\ blocks'[i + 2] = rest[i + 2] BY <1>1, <2>1, <2>7, <4>1
      <4>3. Apart(b, rest[i + 2]) BY <1>4, <4>1 DEF b
      <4> QED BY <1>5, <2>4, <2>5, <4>1, <4>2, <4>3 DEF Apart, Slack
    <3>3. (n - 1) - 1 = n - 2 /\ (i + 1) + 1 = i + 2 BY <1>1
    <3> QED BY <1>1, <1>2, <2>8, <3>1, <3>2, <3>3 DEF Spaced
  <2>11. Paced'
    <3> SUFFICES ASSUME NEW m \in Lives, m <= life
                 PROVE  Room(blocks'[n - 1], m, attack_time - Moved')
      BY <1>2, <2>8 DEF Paced
    <3>0. HalfWidth[m] \in Nat /\ attack_time \in Int BY TablesAssumption DEF Types
    <3>1. n - 1 \in 1 .. n - 1 /\ j = n - 1 /\ (n - 1) + 1 = n BY <1>1, <1>9
    <3>2. rest[n - 1] = blocks[n] BY <1>1, <1>3, <1>9, <3>1 DEF Removing
    <3>3. Room(rest[n - 1], m, attack_time - 0) BY <1>6, <3>2
    <3>4. CASE i + 1 = n - 1
      <4>1. blocks'[n - 1] = c /\ rest[n - 1] = b BY <2>7, <3>1, <3>4 DEF b
      <4>2. Moved' = 1 BY <1>1, <1>2, <2>8, <3>4 DEF Moved
      <4> QED BY <2>4, <2>5, <3>0, <3>3, <4>1, <4>2, NumbersAssumption DEF Room
    <3>5. CASE i + 1 # n - 1
      <4>1. blocks'[n - 1] = rest[n - 1] BY <2>7, <3>1, <3>5
      <4>2. Moved' = 0 BY <1>1, <1>2, <1>9, <2>8, <3>5 DEF Moved
      <4> QED BY <3>3, <4>1, <4>2
    <3> QED BY <3>4, <3>5
  <2> QED BY <1>7, <1>8, <2>9, <2>10, <2>11
<1>10. CASE i = n - 1
  <2>1. blocks' = rest BY <1>1, <1>10 DEF EndRemoval, SuccessorMoved, n, rest
  <2>2. block_count' = n - 1 BY <1>3, <2>1 DEF block_count
  <2>3. Types' BY <1>1, <1>2, <1>3, <2>1 DEF Types
  <2>4. Spaced'
    <3>1. ~(i + 1 < n - 1) /\ (n - 1) - 1 = n - 2 BY <1>1, <1>10
    <3> QED BY <1>1, <1>2, <1>4, <2>1, <2>2, <3>1 DEF Spaced
  <2>5. Paced'
    <3> SUFFICES ASSUME n - 1 > 0, NEW m \in Lives, m <= life
                 PROVE  Room(rest[n - 1], m, attack_time - Moved')
      BY <1>2, <2>1, <2>2 DEF Paced
    <3>0. HalfWidth[m] \in Nat /\ attack_time \in Int BY TablesAssumption DEF Types
    <3>1. n - 1 \in 1 .. n - 1 /\ n \in 1 .. n /\ i + 1 = n /\ 1 <= i /\ i < n BY <1>1, <1>10
    <3>2. Slack(blocks[n - 1], blocks[n]) BY <1>1, <1>10, <3>1 DEF Spaced, n
    <3>3. rest[n - 1] = blocks[n - 1] BY <1>3, <3>1
    <3>4. blocks[n].x \in Nat /\ blocks[n].w \in Nat BY <3>1, BlockAt DEF n
    <3>5. rest[n - 1].x \in Nat /\ rest[n - 1].w \in Nat BY <1>5, <3>1
    <3>6. Moved' = 1 BY <1>1, <1>2, <1>10, <2>2 DEF Moved
    <3>7. Room(blocks[n], m, attack_time - 0) BY <1>6
    <3> QED BY <3>0, <3>2, <3>3, <3>4, <3>5, <3>6, <3>7, NumbersAssumption DEF Room, Slack
  <2> QED BY <1>7, <1>8, <2>3, <2>4, <2>5
<1> QED BY <1>1, <1>9, <1>10

\* All have moved and the time until the next attack is one frame less.
LEMMA StepEndFrame ==
  ASSUME ArenaInv, EndFrame
  PROVE  ArenaInv'
<1> USE DEF ArenaInv
<1>1. /\ pc = "scroll" /\ pc' = "attack" /\ i >= block_count /\ attack_time' = attack_time - 1
      /\ UNCHANGED <<blocks, enemys, life, won, i, j>> /\ block_count' = block_count
  BY DEF EndFrame, block_count
<1>2. Types' BY <1>1 DEF Types
<1>3. Spaced' BY <1>1 DEF Spaced
<1>4. Removing' BY <1>1 DEF Removing
<1>5. Paced'
  <2>1. Moved = 1 /\ Moved' = 0 BY <1>1 DEF Moved
  <2>2. (attack_time - 1) - 0 = attack_time - 1 BY DEF Types
  <2> QED BY <1>1, <2>1, <2>2 DEF Paced
<1>6. Beating' BY <1>1 DEF Beating
<1> QED BY <1>2, <1>3, <1>4, <1>5, <1>6

--------------------------------------------------------------------------------
\* The strengthened invariant: within a frame the moved blocks are ahead of the
\* others by one step, and the last one leaves the room of the next attack.
THEOREM ArenaSafe == Spec => []ArenaInv
<1>1. ArenaInv /\ [Next]_vars => ArenaInv'
  <2> SUFFICES ASSUME ArenaInv, [Next]_vars PROVE ArenaInv' OBVIOUS
  <2>1. ASSUME NEW enemy \in BOOLEAN, Attack(enemy) PROVE ArenaInv' BY <2>1, StepAttack
  <2>2. CASE NoAttack BY <2>2, StepStill DEF NoAttack
  <2>3. ASSUME NEW hits \in 0 .. MAX_PLAYERS, Strike(hits) PROVE ArenaInv'
    BY <2>3, StepStill DEF Strike
  <2>4. CASE Beaten BY <2>4, StepStill DEF Beaten
  <2>5. CASE Move BY <2>5, StepMove
  <2>6. CASE StartRemoval BY <2>6, StepStartRemoval
  <2>7. CASE RemovalRound BY <2>7, StepRemovalRound
  <2>8. CASE EndRemoval BY <2>8, StepEndRemoval
  <2>9. CASE EndFrame BY <2>9, StepEndFrame
  <2>10. CASE UNCHANGED vars
    BY <2>10 DEF vars, ArenaInv, Types, Beating, Spaced, Removing, Paced, Moved, block_count
  <2> QED BY <2>1, <2>2, <2>3, <2>4, <2>5, <2>6, <2>7, <2>8, <2>9, <2>10 DEF Next
<1> QED BY InitArenaInv, <1>1, PTL DEF Spec

\* No block passes the left edge, and no index leaves its type, although the
\* successor of a removed block moves unseen.
THEOREM ArenaTypeCorrect == Spec => []TypeOK
<1>1. ArenaInv => TypeOK
  <2>1. ArenaInv => Types /\ won \in BOOLEAN BY DEF ArenaInv, Beating
  <2> QED BY <2>1 DEF TypeOK, Types
<1> QED BY ArenaSafe, <1>1, PTL

\* Between two frames no block overlaps the next, however often the boss has
\* changed its pace.
THEOREM BlocksStayApart == Spec => []BlocksApart
<1>1. ArenaInv => BlocksApart BY DEF ArenaInv, Spaced, BlocksApart
<1> QED BY ArenaSafe, <1>1, PTL

--------------------------------------------------------------------------------
\* While the boss lives the last block is on the screen until the next attack.
Lasting ==
  life > 0 =>
    /\ block_count > 0 /\ blocks[block_count].x >= attack_time - Moved
    /\ attack_time >= 0 /\ (pc # "attack" => attack_time >= 1)
    /\ pc = "remove" => i < block_count - 1

LEMMA InitLasting == Init => Lasting
<1> SUFFICES ASSUME Init PROVE Lasting OBVIOUS
<1>1. blocks = MapBlocks /\ attack_time = FirstAttack /\ pc = "attack" BY DEF Init
<1>2. Len(MapBlocks) \in Nat /\ Len(MapBlocks) > 0 BY MapAssumption, WayAssumption
<1>3. Moved = 0 BY <1>1 DEF Moved
<1>4. FirstAttack \in Nat /\ FirstAttack - 0 = FirstAttack BY NumbersAssumption
<1> QED BY <1>1, <1>2, <1>3, <1>4, WayAssumption DEF Lasting, block_count

\* Blocks come and go, but the last one of them is never taken out.
LEMMA LastingStep ==
  ASSUME ArenaInv, ArenaInv', Lasting, [Next]_vars
  PROVE  Lasting'
<1> SUFFICES ASSUME life' > 0
             PROVE  /\ block_count' > 0 /\ blocks'[block_count'].x >= attack_time' - Moved'
                    /\ attack_time' >= 0 /\ (pc' # "attack" => attack_time' >= 1)
                    /\ pc' = "remove" => i' < block_count' - 1
  BY DEF Lasting
<1> DEFINE n == block_count
<1>0. /\ n \in Nat /\ n = Len(blocks) /\ blocks \in Seq(Blocks) /\ life \in Int /\ i \in Nat
      /\ j \in Nat /\ life' \in Int /\ attack_time \in Int /\ life <= BossLife
  BY Count DEF ArenaInv, Types
<1>a. Types /\ Spaced /\ Removing BY DEF ArenaInv
<1> HIDE DEF n
<1>1. ASSUME NEW enemy \in BOOLEAN, Attack(enemy) PROVE Lasting'
  <2> DEFINE new == [x |-> BossX, w |-> HalfWidth[life]]
  <2>1. life \in Lives /\ pc' = "strike" /\ attack_time' = Interval[life]
        /\ blocks' = Append(blocks, new)
    BY <1>1 DEF Attack, Attacks
  <2>2. new \in Blocks BY <2>1, TablesAssumption, NumbersAssumption DEF Blocks
  <2>3. new.x = BossX OBVIOUS
  <2> HIDE DEF new
  <2>4. Len(blocks') = n + 1 /\ blocks'[n + 1] = new BY <1>0, <2>1, <2>2, Lengthened
  <2>5. block_count' = n + 1 BY <2>4 DEF block_count
  <2>6. Interval[life] \in Nat \ {0} /\ Interval[life] <= BossX
    BY <2>1, TablesAssumption, WayAssumption
  <2>7. Moved' = 0 BY <2>1 DEF Moved
  <2> QED BY <1>0, <2>1, <2>3, <2>4, <2>5, <2>6, <2>7, NumbersAssumption DEF Lasting
<1>2. ASSUME NoAttack \/ Beaten \/ \E hits \in 0 .. MAX_PLAYERS : Strike(hits) PROVE Lasting'
  <2>1. blocks' = blocks /\ block_count' = n /\ attack_time' = attack_time
    BY <1>2 DEF NoAttack, Beaten, Strike, block_count, n
  <2>2. ~Beaten BY <1>0 DEF Beaten
  <2>3. life > 0
    BY <1>0, <1>2, <2>2, NumbersAssumption DEF NoAttack, Strike
  <2>4. attack_time >= 1
    <3>1. CASE NoAttack
      <4>1. life \in Lives BY <1>0, <2>3, NumbersAssumption DEF Lives
      <4> QED BY <1>0, <3>1, <4>1 DEF NoAttack, Attacks
    <3>2. CASE ~NoAttack BY <1>2, <2>2, <2>3, <3>2 DEF Strike, Lasting
    <3> QED BY <3>1, <3>2
  <2>5. pc' \in {"strike", "scroll"} /\ (pc' = "scroll" => i' = 0) /\ pc # "scroll"
    BY <1>2, <2>2 DEF NoAttack, Strike
  <2>6. n > 0 /\ blocks[n].x >= attack_time - Moved BY <2>3 DEF Lasting, n
  <2>7. Moved = 0 /\ Moved' = 0 BY <1>0, <2>1, <2>5, <2>6 DEF Moved
  <2> QED BY <1>0, <2>1, <2>4, <2>5, <2>6, <2>7 DEF Lasting
<1>3. ASSUME life' = life, attack_time' = attack_time, pc \in {"scroll", "remove"}
      PROVE  /\ n > 0 /\ attack_time >= 1 /\ blocks[n].x >= attack_time - Moved
             /\ pc = "remove" => i < n - 1
             /\ n \in 1 .. n /\ blocks[n].x \in Nat /\ blocks[n] \in Blocks
  <2>1. n > 0 /\ attack_time >= 1 /\ blocks[n].x >= attack_time - Moved
        /\ (pc = "remove" => i < n - 1)
    BY <1>3 DEF Lasting, n
  <2>2. n \in 1 .. n BY <1>0, <2>1
  <2> QED BY <1>a, <2>1, <2>2, BlockAt DEF n
<1>4. CASE Move
  <2>1. /\ life' = life /\ attack_time' = attack_time /\ pc = "scroll" /\ pc' = "scroll"
        /\ i' = i + 1 /\ i < n /\ blocks' = [blocks EXCEPT ![i + 1].x = @ - 1]
    BY <1>4 DEF Move, MovedLeft, n
  <2>2. Moved = 0 BY <1>0, <2>1 DEF Moved, n
  <2>3. Len(blocks') = n /\ block_count' = n BY <1>0, <2>1 DEF block_count
  <2>4. CASE i + 1 = n
    <3>1. blocks'[n].x = blocks[n].x - 1 BY <1>0, <1>3, <2>1, <2>4 DEF Blocks
    <3>2. Moved' = 1 BY <1>0, <2>1, <2>3, <2>4 DEF Moved
    <3> QED BY <1>0, <1>3, <2>1, <2>2, <2>3, <3>1, <3>2 DEF Lasting
  <2>5. CASE i + 1 # n
    <3>1. blocks'[n] = blocks[n] BY <1>0, <1>3, <2>1, <2>5
    <3>2. Moved' = 0 BY <1>0, <2>1, <2>3, <2>5 DEF Moved
    <3> QED BY <1>0, <1>3, <2>1, <2>2, <2>3, <3>1, <3>2 DEF Lasting
  <2> QED BY <2>4, <2>5
<1>5. CASE StartRemoval
  <2>1. /\ pc = "scroll" /\ pc' = "remove" /\ i < n /\ blocks[i + 1].x <= 0
        /\ UNCHANGED <<blocks, life, attack_time, i>> /\ block_count' = n
    BY <1>5 DEF StartRemoval, OffScreen, block, block_count, n
  <2>2. Moved = 0 /\ Moved' = 0 BY <1>0, <2>1 DEF Moved, n
  <2>3. i + 1 # n BY <1>0, <1>3, <2>1, <2>2
  <2> QED BY <1>0, <1>3, <2>1, <2>2, <2>3 DEF Lasting
<1>6. CASE RemovalRound
  <2>1. /\ pc = "remove" /\ pc' = "remove" /\ j + 1 < n /\ UNCHANGED <<life, attack_time, i>>
        /\ blocks' = [blocks EXCEPT ![j + 1] = block(j + 1)]
    BY <1>0, <1>6 DEF RemovalRound, n
  <2>2. Len(blocks') = n /\ block_count' = n BY <1>0, <2>1 DEF block_count
  <2>3. blocks'[n] = blocks[n] BY <1>0, <1>3, <2>1
  <2>4. Moved = 0 /\ Moved' = 0 BY <2>1 DEF Moved
  <2> QED BY <1>0, <1>3, <2>1, <2>2, <2>3, <2>4 DEF Lasting
<1>7. CASE EndRemoval
  <2> DEFINE rest == WithoutLast
  <2>1. /\ pc = "remove" /\ pc' = "scroll" /\ UNCHANGED <<life, attack_time>> /\ i' = i + 1
        /\ j = n - 1 /\ i < n - 1
    BY <1>0, <1>3, <1>7, <1>a DEF EndRemoval, Removing, n
  <2>2. /\ rest \in Seq(Blocks) /\ Len(rest) = n - 1
        /\ \A k \in 1 .. n - 1 : rest[k] = blocks[k]
    <3>1. rest = SubSeq(blocks, 1, Len(blocks) - 1) /\ Len(blocks) > 0
      BY <1>0, <1>3, <2>1 DEF WithoutLast, block_count
    <3> HIDE DEF rest
    <3> QED BY <1>0, <3>1, Shortened
  <2>3. rest[n - 1] = blocks[n]
    <3>1. blocks[j] = blocks[j + 1] /\ j + 1 = n /\ n - 1 \in 1 .. n - 1
      BY <1>0, <1>a, <2>1 DEF Removing
    <3> QED BY <2>1, <2>2, <3>1
  <2>4. blocks' = [rest EXCEPT ![i + 1].x = @ - 1]
    BY <1>7, <2>1 DEF EndRemoval, SuccessorMoved, MovedLeft, n
  <2> HIDE DEF rest
  <2>5. Len(blocks') = n - 1 /\ block_count' = n - 1 BY <2>2, <2>4 DEF block_count
  <2>6. Moved = 0 BY <2>1 DEF Moved
  <2>7. n - 1 \in 1 .. n - 1 BY <1>0, <2>1
  <2>8. CASE i + 1 = n - 1
    <3>1. blocks'[n - 1].x = blocks[n].x - 1
      BY <1>3, <2>1, <2>2, <2>3, <2>4, <2>7, <2>8 DEF Blocks
    <3>2. Moved' = 1 BY <1>0, <2>1, <2>5, <2>8 DEF Moved
    <3> QED BY <1>0, <1>3, <2>1, <2>5, <2>6, <2>7, <3>1, <3>2 DEF Lasting
  <2>9. CASE i + 1 # n - 1
    <3>1. blocks'[n - 1] = blocks[n] BY <2>2, <2>3, <2>4, <2>7, <2>9
    <3>2. Moved' = 0 BY <1>0, <2>1, <2>5, <2>9 DEF Moved
    <3> QED BY <1>0, <1>3, <2>1, <2>5, <2>6, <2>7, <3>1, <3>2 DEF Lasting
  <2> QED BY <2>8, <2>9
<1>8. CASE EndFrame
  <2>1. /\ pc = "scroll" /\ pc' = "attack" /\ i >= n /\ attack_time' = attack_time - 1
        /\ UNCHANGED <<blocks, life>> /\ block_count' = n
    BY <1>8 DEF EndFrame, block_count, n
  <2>2. n > 0 /\ attack_time >= 1 /\ blocks[n].x >= attack_time - Moved
    BY <2>1 DEF Lasting, n
  <2>3. Moved = 1 /\ Moved' = 0 BY <2>1 DEF Moved, n
  <2> QED BY <1>0, <2>1, <2>2, <2>3 DEF Lasting
<1>9. CASE UNCHANGED vars
  BY <1>9 DEF vars, Lasting, Moved, block_count
<1>10. CASE (\E enemy \in BOOLEAN : Attack(enemy)) \/ NoAttack \/ Beaten
            \/ \E hits \in 0 .. MAX_PLAYERS : Strike(hits)
  BY <1>1, <1>2, <1>10 DEF Lasting
<1> QED BY <1>4, <1>5, <1>6, <1>7, <1>8, <1>9, <1>10 DEF Next

\* While the boss lives there is always a block, from which P_Start_Loc[0] is
\* taken in every frame without a test.
THEOREM ThereIsAlwaysABlock == Spec => []AlwaysABlock
<1>1. Lasting => AlwaysABlock BY DEF Lasting, AlwaysABlock
<1>2. Spec => []Lasting BY InitLasting, LastingStep, ArenaSafe, PTL DEF Spec
<1> QED BY <1>1, <1>2, PTL

--------------------------------------------------------------------------------
\* How far the last block but m must be on its way to be there until the attacks
\* that follow are over, at the pace of l.
Ahead(m, l) ==
  attack_time + (IF m = 0 THEN 2 * Interval[l] ELSE IF m = 1 THEN Interval[l] ELSE 0)

\* The number of the block that is in place k, a copy if the removal has passed,
\* and whether it has moved in this frame.
Own(k) == IF pc = "remove" /\ k <= j THEN k + 1 ELSE k
Step(k) == IF pc = "scroll" /\ k <= i THEN 1 ELSE 0

\* While the boss lives the last three blocks are on the screen, and so only the
\* first of four or more is taken out.
Timely ==
  /\ block_count >= 3 /\ attack_time >= 0 /\ (pc # "attack" => attack_time >= 1)
  /\ pc = "remove" => i = 0 /\ block_count >= 4
OnTheWay ==
  \A k \in 1 .. block_count, m \in 0 .. 2, l \in Lives :
    Own(k) + m = block_count => blocks[k].x >= Ahead(m, l) - Step(k)
Crowded == life > 0 => Timely /\ OnTheWay

LEMMA InitCrowded == Init => Crowded
<1> SUFFICES ASSUME Init PROVE Crowded OBVIOUS
<1> DEFINE n == Len(MapBlocks)
<1>1. blocks = MapBlocks /\ attack_time = FirstAttack /\ pc = "attack" /\ block_count = n
  BY DEF Init, block_count
<1>2. n \in Nat /\ n >= 3 /\ FirstAttack \in Nat
  BY MapAssumption, CrowdAssumption, NumbersAssumption
<1>3. Timely BY <1>1, <1>2 DEF Timely
<1>4. ASSUME NEW k \in 1 .. n, NEW m \in 0 .. 2, NEW l \in Lives, Own(k) + m = n
      PROVE  blocks[k].x >= Ahead(m, l) - Step(k)
  <2>1. Own(k) = k /\ Step(k) = 0 BY <1>1 DEF Own, Step
  <2>2. /\ FirstAttack <= blocks[n - 2].x
        /\ FirstAttack + Interval[l] <= blocks[n - 1].x
        /\ FirstAttack + 2 * Interval[l] <= blocks[n].x
    BY <1>1, CrowdAssumption
  <2>3. blocks[k].x \in Nat /\ Interval[l] \in Nat
    <3>1. blocks[k] \in Blocks BY <1>1, MapAssumption
    <3> QED BY <3>1, TablesAssumption, NumbersAssumption DEF Blocks
  <2>4. (m = 0 /\ k = n) \/ (m = 1 /\ k = n - 1) \/ (m = 2 /\ k = n - 2) BY <1>2, <1>4, <2>1
  <2>5. Ahead(m, l) = FirstAttack + (IF m = 0 THEN 2 * Interval[l] ELSE IF m = 1 THEN Interval[l] ELSE 0)
    BY <1>1 DEF Ahead
  <2>6. Ahead(m, l) <= blocks[k].x /\ Ahead(m, l) \in Int
    <3>1. CASE m = 0 /\ k = n BY <1>2, <2>2, <2>3, <2>5, <3>1
    <3>2. CASE m = 1 /\ k = n - 1 BY <1>2, <2>2, <2>3, <2>5, <3>2
    <3>3. CASE m = 2 /\ k = n - 2 BY <1>2, <2>2, <2>3, <2>5, <3>3
    <3> QED BY <2>4, <3>1, <3>2, <3>3
  <2> QED BY <2>1, <2>3, <2>6
<1> HIDE DEF n
<1>5. OnTheWay BY <1>1, <1>4 DEF OnTheWay
<1> QED BY <1>3, <1>5 DEF Crowded

LEMMA AheadType ==
  ASSUME Types, NEW m \in 0 .. 2, NEW l \in Lives
  PROVE  Ahead(m, l) \in Int /\ Interval[l] \in Nat /\ Interval[l] >= 1
BY TablesAssumption DEF Ahead, Types

LEMMA CrowdedAttack ==
  ASSUME ArenaInv, ArenaInv', Crowded, NEW enemy \in BOOLEAN, Attack(enemy)
  PROVE  Crowded'
<1> DEFINE n == block_count
           new == [x |-> BossX, w |-> HalfWidth[life]]
<1>1. life \in Lives /\ attack_time <= 0 /\ pc = "attack" /\ pc' = "strike"
      /\ attack_time' = Interval[life] /\ blocks' = Append(blocks, new) /\ life' = life
  BY DEF Attack, Attacks
<1>2. n \in Nat /\ n = Len(blocks) /\ Types BY Count DEF ArenaInv
<1>3. Timely /\ OnTheWay BY <1>1 DEF Crowded, Lives
<1>4. attack_time = 0 /\ n >= 3 BY <1>1, <1>2, <1>3 DEF Timely, Types
<1>5. new \in Blocks /\ new.x = BossX
  BY <1>1, TablesAssumption, NumbersAssumption DEF Blocks
<1> HIDE DEF new
<1>6. /\ Len(blocks') = n + 1 /\ blocks'[n + 1] = new
      /\ \A k \in 1 .. n : blocks'[k] = blocks[k]
  BY <1>1, <1>2, <1>5, Lengthened DEF Types
<1>7. block_count' = n + 1 BY <1>6 DEF block_count
<1> HIDE DEF n
<1>8. Interval[life] \in Nat /\ Interval[life] >= 1 BY <1>1, TablesAssumption
<1>9. Timely' BY <1>1, <1>2, <1>4, <1>7, <1>8 DEF Timely
<1>10. ASSUME NEW k \in 1 .. n + 1, NEW m \in 0 .. 2, NEW l \in Lives, k + m = n + 1
       PROVE  blocks'[k].x
                >= Interval[life] + (IF m = 0 THEN 2 * Interval[l] ELSE IF m = 1 THEN Interval[l] ELSE 0)
  <2>1. Interval[l] \in Nat BY TablesAssumption
  <2>2. ASSUME NEW q \in 1 .. n, NEW p \in 0 .. 1, NEW u \in Lives, q + p = n
        PROVE  blocks[q].x >= IF p = 0 THEN 2 * Interval[u] ELSE Interval[u]
    <3>1. Own(q) = q /\ Step(q) = 0 BY <1>1 DEF Own, Step
    <3>2. blocks[q].x >= Ahead(p, u) - 0 BY <1>3, <2>2, <3>1 DEF OnTheWay, n
    <3>3. Interval[u] \in Nat BY TablesAssumption
    <3>4. Ahead(p, u) = IF p = 0 THEN 2 * Interval[u] ELSE Interval[u]
      BY <1>4, <3>3 DEF Ahead
    <3> QED BY <3>2, <3>3, <3>4
  <2>3. CASE m = 0
    <3>1. k = n + 1 BY <1>2, <1>10, <2>3
    <3>2. 3 * Interval[l] <= BossX /\ 3 * Interval[life] <= BossX BY <1>1, CrowdAssumption
    <3>3. blocks'[k].x = BossX BY <1>5, <1>6, <3>1
    <3> QED BY <1>8, <2>1, <2>3, <3>2, <3>3, NumbersAssumption
  <2>4. CASE m = 1
    <3>1. k = n /\ n \in 1 .. n /\ n + 0 = n BY <1>2, <1>4, <1>10, <2>4
    <3>2. blocks[n].x >= 2 * Interval[l] /\ blocks[n].x >= 2 * Interval[life]
      BY <1>1, <2>2, <3>1
    <3>3. blocks'[k].x = blocks[n].x /\ blocks[n].x \in Nat BY <1>2, <1>6, <3>1, BlockAt DEF n
    <3> QED BY <1>8, <2>1, <2>4, <3>2, <3>3
  <2>5. CASE m = 2
    <3>1. k = n - 1 /\ n - 1 \in 1 .. n /\ (n - 1) + 1 = n BY <1>2, <1>4, <1>10, <2>5
    <3>2. blocks[n - 1].x >= Interval[life] BY <1>1, <2>2, <3>1
    <3>3. blocks'[k].x = blocks[n - 1].x /\ blocks[n - 1].x \in Nat
      BY <1>2, <1>6, <3>1, BlockAt DEF n
    <3> QED BY <1>8, <2>1, <2>5, <3>2, <3>3
  <2> QED BY <2>3, <2>4, <2>5
<1>11. OnTheWay'
  <2>1. ASSUME NEW k \in 1 .. n + 1, NEW m \in 0 .. 2, NEW l \in Lives, Own(k)' + m = n + 1
        PROVE  blocks'[k].x >= Ahead(m, l)' - Step(k)'
    <3>1. Own(k)' = k /\ Step(k)' = 0 BY <1>1 DEF Own, Step
    <3>2. Ahead(m, l)' = Interval[life] + (IF m = 0 THEN 2 * Interval[l] ELSE IF m = 1 THEN Interval[l] ELSE 0)
      BY <1>1 DEF Ahead
    <3>3. Ahead(m, l)' \in Int BY <1>8, <3>2, TablesAssumption
    <3>4. blocks'[k].x >= Ahead(m, l)' BY <1>10, <2>1, <3>1, <3>2
    <3> QED BY <3>1, <3>3, <3>4
  <2> QED BY <1>7, <2>1 DEF OnTheWay
<1> QED BY <1>9, <1>11 DEF Crowded

LEMMA CrowdedStill ==
  ASSUME ArenaInv, Crowded,
         NoAttack \/ (\E hits \in 0 .. MAX_PLAYERS : Strike(hits)) \/ Beaten
  PROVE  Crowded'
<1> SUFFICES ASSUME life' > 0 PROVE Timely' /\ OnTheWay' BY DEF Crowded
<1>1. Types /\ life \in Int /\ life <= BossLife /\ life' \in Int /\ attack_time \in Int
  BY NumbersAssumption DEF ArenaInv, Types, NoAttack, Strike, Beaten
<1>2. ~Beaten BY <1>1 DEF Beaten
<1>3. life > 0 BY <1>1, <1>2, NumbersAssumption DEF NoAttack, Strike
<1>4. Timely /\ OnTheWay BY <1>3 DEF Crowded
<1>5. /\ blocks' = blocks /\ block_count' = block_count /\ attack_time' = attack_time
      /\ pc' \in {"strike", "scroll"} /\ (pc' = "scroll" => i' = 0)
      /\ pc \in {"attack", "strike"}
  BY <1>2 DEF NoAttack, Strike, block_count
<1>6. attack_time >= 1
  <2>1. CASE NoAttack
    <3>1. life \in Lives BY <1>1, <1>3, NumbersAssumption DEF Lives
    <3> QED BY <1>1, <2>1, <3>1 DEF NoAttack, Attacks
  <2>2. CASE ~NoAttack BY <1>2, <1>4, <2>2 DEF Timely, Strike
  <2> QED BY <2>1, <2>2
<1>7. Timely' BY <1>1, <1>4, <1>5, <1>6 DEF Timely
<1>8. OnTheWay'
  <2>1. ASSUME NEW k \in 1 .. block_count, NEW m \in 0 .. 2, NEW l \in Lives,
               Own(k)' + m = block_count
        PROVE  blocks[k].x >= Ahead(m, l)' - Step(k)'
    <3>1. Own(k)' = k /\ Own(k) = k BY <1>5 DEF Own
    <3>2. Step(k)' = 0 /\ Step(k) = 0
      <4>1. k >= 1 OBVIOUS
      <4>2. pc' = "scroll" => ~(k <= i') BY <1>5, <4>1
      <4> QED BY <1>5, <4>2 DEF Step
    <3>3. Ahead(m, l)' = Ahead(m, l) BY <1>5 DEF Ahead
    <3> QED BY <1>4, <2>1, <3>1, <3>2, <3>3 DEF OnTheWay
  <2> QED BY <1>5, <2>1 DEF OnTheWay
<1> QED BY <1>7, <1>8

\* Neither do the blocks move further than they may in a frame.
LEMMA CrowdedMove ==
  ASSUME ArenaInv, Crowded, Move
  PROVE  Crowded'
<1> SUFFICES ASSUME life > 0 PROVE Timely' /\ OnTheWay' BY DEF Crowded, Move
<1> DEFINE n == block_count
<1>1. Types /\ Timely /\ OnTheWay BY DEF ArenaInv, Crowded
<1>2. /\ n \in Nat /\ n = Len(blocks) /\ i \in Nat /\ i + 1 \in 1 .. n
      /\ pc = "scroll" /\ pc' = "scroll" /\ i' = i + 1 /\ attack_time' = attack_time
  BY <1>1, Count DEF Move, Types
<1>3. blocks' = [blocks EXCEPT ![i + 1].x = @ - 1] BY DEF Move, MovedLeft
<1>4. Len(blocks') = n /\ block_count' = n BY <1>1, <1>2, <1>3 DEF Types, block_count
<1>5. /\ blocks'[i + 1].x = blocks[i + 1].x - 1
      /\ \A k \in 1 .. n : k # i + 1 => blocks'[k] = blocks[k]
  <2>1. blocks[i + 1] \in Blocks BY <1>1, <1>2, BlockAt
  <2> QED BY <1>1, <1>2, <1>3, <2>1 DEF Types, Blocks
<1> HIDE DEF n
<1>6. Timely' BY <1>1, <1>2, <1>4 DEF Timely, n
<1>7. OnTheWay'
  <2>1. ASSUME NEW k \in 1 .. n, NEW m \in 0 .. 2, NEW l \in Lives, Own(k)' + m = n
        PROVE  blocks'[k].x >= Ahead(m, l)' - Step(k)'
    <3>1. Own(k)' = k /\ Own(k) = k BY <1>2 DEF Own
    <3>2. Ahead(m, l)' = Ahead(m, l) /\ Ahead(m, l) \in Int
      BY <1>1, <1>2, AheadType DEF Ahead
    <3>3. blocks[k].x >= Ahead(m, l) - Step(k) BY <1>1, <2>1, <3>1 DEF OnTheWay, n
    <3>4. blocks[k].x \in Nat BY <1>1, BlockAt DEF n
    <3>5. CASE k = i + 1
      <4>1. Step(k) = 0 /\ Step(k)' = 1 BY <1>2, <3>5 DEF Step
      <4>2. blocks'[k].x = blocks[k].x - 1 BY <1>5, <3>5
      <4> QED BY <3>2, <3>3, <3>4, <4>1, <4>2
    <3>6. CASE k # i + 1
      <4>1. k <= i + 1 <=> k <= i BY <1>2, <3>6
      <4>2. Step(k)' = Step(k) BY <1>2, <4>1 DEF Step
      <4> QED BY <1>5, <3>2, <3>3, <3>6, <4>2
    <3> QED BY <3>5, <3>6
  <2> QED BY <1>4, <2>1 DEF OnTheWay
<1> QED BY <1>6, <1>7

\* The block at the edge is the first, and three more are behind it.
LEMMA CrowdedStartRemoval ==
  ASSUME ArenaInv, Crowded, StartRemoval
  PROVE  Crowded'
<1> SUFFICES ASSUME life > 0 PROVE Timely' /\ OnTheWay' BY DEF Crowded, StartRemoval
<1> DEFINE n == block_count
<1>1. Types /\ Spaced /\ Timely /\ OnTheWay BY DEF ArenaInv, Crowded
<1>2. /\ n \in Nat /\ i \in Nat /\ i + 1 \in 1 .. n /\ pc = "scroll" /\ pc' = "remove"
      /\ j' = i /\ UNCHANGED <<blocks, attack_time, i>> /\ block_count' = n
      /\ blocks[i + 1].x <= 0
  BY <1>1, Count DEF StartRemoval, Types, OffScreen, block, block_count
<1> HIDE DEF n
<1>3. blocks[i + 1].x \in Nat /\ blocks[i + 1].w \in Nat BY <1>1, <1>2, BlockAt DEF n
<1>4. i = 0
  <2> SUFFICES ASSUME i # 0 PROVE FALSE OBVIOUS
  <2>1. 1 <= i /\ i < n /\ i \in 1 .. n BY <1>2
  <2>2. Slack(blocks[i], blocks[i + 1]) BY <1>1, <1>2, <2>1 DEF Spaced, n
  <2>3. blocks[i].x \in Nat /\ blocks[i].w \in Nat BY <1>1, <2>1, BlockAt DEF n
  <2> QED BY <1>2, <1>3, <2>2, <2>3 DEF Slack
<1>5. life \in Lives BY <1>1, NumbersAssumption DEF Types, Lives
<1>6. n # 3
  <2> SUFFICES ASSUME n = 3 PROVE FALSE OBVIOUS
  <2>1. 1 \in 1 .. n /\ Own(1) + 2 = n /\ Step(1) = 0 BY <1>2, <1>4 DEF Own, Step
  <2>2. Ahead(2, life) = attack_time BY <1>1 DEF Ahead, Types
  <2>3. blocks[1].x >= attack_time - 0 BY <1>1, <1>5, <2>1, <2>2 DEF OnTheWay, n
  <2>4. attack_time \in Int /\ attack_time >= 1 BY <1>1, <1>2 DEF Types, Timely
  <2> QED BY <1>2, <1>3, <1>4, <2>3, <2>4
<1>7. Timely' BY <1>1, <1>2, <1>4, <1>6 DEF Timely, n
<1>8. OnTheWay'
  <2>1. ASSUME NEW k \in 1 .. n, NEW m \in 0 .. 2, NEW l \in Lives, Own(k)' + m = n
        PROVE  blocks[k].x >= Ahead(m, l)' - Step(k)'
    <3>1. ~(k <= 0) OBVIOUS
    <3>2. Own(k)' = k /\ Own(k) = k /\ Step(k)' = 0 /\ Step(k) = 0
      BY <1>2, <1>4, <3>1 DEF Own, Step
    <3>3. Ahead(m, l)' = Ahead(m, l) BY <1>2 DEF Ahead
    <3> QED BY <1>1, <2>1, <3>2, <3>3 DEF OnTheWay, n
  <2> QED BY <1>2, <2>1 DEF OnTheWay
<1> QED BY <1>7, <1>8

LEMMA CrowdedRemovalRound ==
  ASSUME ArenaInv, Crowded, RemovalRound
  PROVE  Crowded'
<1> SUFFICES ASSUME life > 0 PROVE Timely' /\ OnTheWay' BY DEF Crowded, RemovalRound
<1> DEFINE n == block_count
<1>1. Types /\ Timely /\ OnTheWay BY DEF ArenaInv, Crowded
<1>2. /\ n \in Nat /\ n = Len(blocks) /\ j \in Nat /\ j + 1 \in 1 .. n /\ j + 2 \in 1 .. n
      /\ pc = "remove" /\ pc' = "remove" /\ j' = j + 1 /\ UNCHANGED <<attack_time, i>>
      /\ blocks' = [blocks EXCEPT ![j + 1] = blocks[j + 2]]
  <2>1. (j + 1) + 1 = j + 2 BY <1>1 DEF Types
  <2>2. n \in Nat /\ n = Len(blocks) /\ j \in Nat /\ j < n - 1 BY <1>1, Count DEF RemovalRound, Types
  <2>3. j + 1 \in 1 .. n /\ j + 2 \in 1 .. n BY <2>2
  <2> QED BY <2>1, <2>2, <2>3 DEF RemovalRound, block
<1>3. /\ Len(blocks') = n /\ block_count' = n /\ blocks'[j + 1] = blocks[j + 2]
      /\ \A k \in 1 .. n : k # j + 1 => blocks'[k] = blocks[k]
  BY <1>1, <1>2 DEF Types, block_count
<1> HIDE DEF n
<1>4. Timely' BY <1>1, <1>2, <1>3 DEF Timely, n
<1>5. OnTheWay'
  <2>1. ASSUME NEW k \in 1 .. n, NEW m \in 0 .. 2, NEW l \in Lives, Own(k)' + m = n
        PROVE  blocks'[k].x >= Ahead(m, l)' - Step(k)'
    <3>1. Ahead(m, l)' = Ahead(m, l) /\ Step(k)' = 0 BY <1>2 DEF Ahead, Step
    <3>2. CASE k = j + 1
      <4>1. Own(k)' = j + 2 /\ Own(j + 2) = j + 2 /\ Step(j + 2) = 0 BY <1>2, <3>2 DEF Own, Step
      <4> QED BY <1>1, <1>2, <1>3, <2>1, <3>1, <3>2, <4>1 DEF OnTheWay, n
    <3>3. CASE k # j + 1
      <4>1. k <= j + 1 <=> k <= j BY <1>2, <3>3
      <4>2. Own(k)' = Own(k) /\ Step(k) = 0 BY <1>2, <4>1 DEF Own, Step
      <4> QED BY <1>1, <1>3, <2>1, <3>1, <3>3, <4>2 DEF OnTheWay, n
    <3> QED BY <3>2, <3>3
  <2> QED BY <1>3, <2>1 DEF OnTheWay
<1> QED BY <1>4, <1>5

LEMMA CrowdedEndRemoval ==
  ASSUME ArenaInv, Crowded, EndRemoval
  PROVE  Crowded'
<1> SUFFICES ASSUME life > 0 PROVE Timely' /\ OnTheWay' BY DEF Crowded, EndRemoval
<1> DEFINE n == block_count
           rest == WithoutLast
<1>1. Types /\ Timely /\ OnTheWay /\ Removing BY DEF ArenaInv, Crowded
<1>2. /\ n \in Nat /\ n = Len(blocks) /\ n >= 4 /\ j = n - 1 /\ i = 0
      /\ pc = "remove" /\ pc' = "scroll" /\ i' = 1 /\ UNCHANGED attack_time
  BY <1>1, Count DEF EndRemoval, Types, Timely, Removing
<1>3. /\ rest \in Seq(Blocks) /\ Len(rest) = n - 1
      /\ \A k \in 1 .. n - 1 : rest[k] = blocks[k]
  <2>1. rest = SubSeq(blocks, 1, Len(blocks) - 1) /\ Len(blocks) > 0
    BY <1>2 DEF WithoutLast, block_count
  <2> HIDE DEF rest
  <2> QED BY <1>1, <1>2, <2>1, Shortened DEF Types
<1>4. blocks' = [rest EXCEPT ![1].x = @ - 1]
  <2>1. i < block_count - 1 /\ i + 1 = 1 BY <1>2
  <2> QED BY <2>1 DEF EndRemoval, SuccessorMoved, MovedLeft
<1> HIDE DEF rest, n
<1>5. Len(blocks') = n - 1 /\ block_count' = n - 1 BY <1>3, <1>4 DEF block_count
<1>6. /\ blocks'[1].x = blocks[1].x - 1
      /\ \A k \in 1 .. n - 1 : k # 1 => blocks'[k] = blocks[k]
  <2>1. 1 \in 1 .. n - 1 BY <1>2
  <2>2. rest[1] \in Blocks BY <1>3, <2>1
  <2>3. blocks'[1].x = rest[1].x - 1 BY <1>3, <1>4, <2>1, <2>2 DEF Blocks
  <2>4. \A k \in 1 .. n - 1 : k # 1 => blocks'[k] = rest[k] BY <1>3, <1>4
  <2> QED BY <1>3, <2>1, <2>3, <2>4
<1>7. Timely' BY <1>1, <1>2, <1>5 DEF Timely
<1>8. OnTheWay'
  <2>1. ASSUME NEW k \in 1 .. n - 1, NEW m \in 0 .. 2, NEW l \in Lives, Own(k)' + m = n - 1
        PROVE  blocks'[k].x >= Ahead(m, l)' - Step(k)'
    <3>1. Own(k)' = k /\ Own(k) = k + 1 /\ Step(k) = 0 /\ k \in 1 .. n BY <1>2 DEF Own, Step
    <3>2. Ahead(m, l)' = Ahead(m, l) /\ Ahead(m, l) \in Int
      BY <1>1, <1>2, AheadType DEF Ahead
    <3>3. Own(k) + m = n BY <1>2, <2>1, <3>1
    <3>4. blocks[k].x >= Ahead(m, l) - 0 BY <1>1, <3>1, <3>3 DEF OnTheWay, n
    <3>5. blocks[k].x \in Nat BY <1>1, <3>1, BlockAt DEF n
    <3>6. CASE k = 1
      <4>1. Step(k)' = 1 BY <1>2, <3>6 DEF Step
      <4> QED BY <1>6, <3>2, <3>4, <3>5, <3>6, <4>1
    <3>7. CASE k # 1
      <4>1. Step(k)' = 0 BY <1>2, <3>7 DEF Step
      <4> QED BY <1>6, <3>2, <3>4, <3>7, <4>1
    <3> QED BY <3>6, <3>7
  <2> QED BY <1>5, <2>1 DEF OnTheWay
<1> QED BY <1>7, <1>8

LEMMA CrowdedEndFrame ==
  ASSUME ArenaInv, Crowded, EndFrame
  PROVE  Crowded'
<1> SUFFICES ASSUME life > 0 PROVE Timely' /\ OnTheWay' BY DEF Crowded, EndFrame
<1> DEFINE n == block_count
<1>1. Types /\ Timely /\ OnTheWay BY DEF ArenaInv, Crowded
<1>2. /\ n \in Nat /\ i \in Nat /\ i >= n /\ pc = "scroll" /\ pc' = "attack" /\ UNCHANGED blocks
      /\ attack_time' = attack_time - 1 /\ attack_time \in Int /\ block_count' = n
  BY <1>1, Count DEF EndFrame, Types, block_count
<1> HIDE DEF n
<1>3. Timely' BY <1>1, <1>2 DEF Timely, n
<1>4. OnTheWay'
  <2>1. ASSUME NEW k \in 1 .. n, NEW m \in 0 .. 2, NEW l \in Lives, Own(k)' + m = n
        PROVE  blocks[k].x >= Ahead(m, l)' - Step(k)'
    <3>1. k <= i BY <1>2
    <3>2. Own(k)' = k /\ Own(k) = k /\ Step(k) = 1 /\ Step(k)' = 0 BY <1>2, <3>1 DEF Own, Step
    <3>3. blocks[k].x >= Ahead(m, l) - 1 BY <1>1, <2>1, <3>2 DEF OnTheWay, n
    <3>4. Interval[l] \in Nat BY TablesAssumption
    <3>5. Ahead(m, l)' = Ahead(m, l) - 1 /\ Ahead(m, l) \in Int BY <1>2, <3>4 DEF Ahead
    <3>6. blocks[k].x \in Nat BY <1>1, BlockAt DEF n
    <3> QED BY <3>2, <3>3, <3>5, <3>6
  <2> QED BY <1>2, <2>1 DEF OnTheWay
<1> QED BY <1>3, <1>4

LEMMA CrowdedStep ==
  ASSUME ArenaInv, ArenaInv', Crowded, [Next]_vars
  PROVE  Crowded'
<1>1. CASE UNCHANGED vars
  BY <1>1 DEF vars, Crowded, Timely, OnTheWay, Ahead, Own, Step, block_count
<1> QED
  BY <1>1, CrowdedAttack, CrowdedStill, CrowdedMove, CrowdedStartRemoval, CrowdedRemovalRound,
     CrowdedEndRemoval, CrowdedEndFrame DEF Next

--------------------------------------------------------------------------------
\* Enemies are in the order of their blocks; only on the block of the first may
\* there be several.
Rising(s) ==
  /\ \A k, m \in 1 .. Len(s) : k <= m => s[k] <= s[m]
  /\ \A k, m \in 1 .. Len(s) : k < m /\ s[1] < s[k] => s[k] + (m - k) <= s[m]

\* Between two removals every enemy has its block.
Standing ==
  /\ \A k \in 1 .. enemy_count : enemys[k] < block_count
  /\ enemy_count <= block_count
  /\ enemy_count > 0 => enemy_count + enemys[1] <= block_count + 1

\* In a removal whose rounds have come to j: without an enemy on the block that
\* goes, and with one.
Following ==
  /\ \A k \in 1 .. enemy_count : enemys[k] = j => enemys[1] = j
  /\ enemy_count + enemys[1] <= block_count + (IF j < enemys[1] THEN 1 ELSE 0)
Deleting ==
  /\ j <= 1 => enemy_count <= block_count
  /\ j >= 2 => enemy_count < block_count
  /\ enemy_count >= 2 /\ enemys[2] # 0 => j = 0 \/ (j = 1 /\ enemys[2] >= 2)
Thinning ==
  /\ \A k \in 1 .. enemy_count :
       enemys[k] < block_count /\ (j = block_count - 1 => enemys[k] < j)
  /\ enemy_count > 0 => IF enemys[1] # 0 THEN Following ELSE Deleting

Orderly ==
  life > 0 => Rising(enemys) /\ IF pc = "remove" THEN Thinning ELSE Standing

LEMMA EnemyAt ==
  ASSUME Types
  PROVE  /\ enemy_count \in Nat /\ enemy_count = Len(enemys) /\ DOMAIN enemys = 1 .. enemy_count
         /\ \A k \in 1 .. enemy_count : enemys[k] \in Nat
BY DEF Types, enemy_count

LEMMA InitStanding == Init => Rising(enemys) /\ Standing
<1> SUFFICES ASSUME Init PROVE Rising(enemys) /\ Standing OBVIOUS
<1> DEFINE n == Len(MapBlocks)
           t == Len(MapEnemys)
<1>1. enemys = MapEnemys /\ enemy_count = t /\ block_count = n /\ pc = "attack"
  BY DEF Init, enemy_count, block_count
<1>2. n \in Nat /\ t \in Nat /\ \A k \in 1 .. t : MapEnemys[k] \in Nat BY MapAssumption
<1>3. /\ \A k \in 1 .. t : MapEnemys[k] < n
      /\ \A k, m \in 1 .. t : k < m => MapEnemys[k] + (m - k) <= MapEnemys[m]
  BY EnemysAssumption
<1> HIDE DEF n
<1>4. Rising(MapEnemys)
  <2>1. ASSUME NEW k \in 1 .. t, NEW m \in 1 .. t, k <= m PROVE MapEnemys[k] <= MapEnemys[m]
    <3>1. CASE k = m BY <1>2, <3>1
    <3>2. CASE k < m
      <4>1. MapEnemys[k] + (m - k) <= MapEnemys[m] BY <1>3, <3>2
      <4>2. MapEnemys[k] \in Nat /\ MapEnemys[m] \in Nat BY <1>2
      <4> QED BY <3>2, <4>1, <4>2
    <3> QED BY <2>1, <3>1, <3>2
  <2> QED BY <1>3, <2>1 DEF Rising
<1>5. ASSUME t > 0 PROVE t + MapEnemys[1] <= n
  <2>1. 1 \in 1 .. t /\ t \in 1 .. t /\ MapEnemys[1] \in Nat /\ MapEnemys[t] \in Nat /\ MapEnemys[t] < n
    BY <1>2, <1>3, <1>5
  <2>2. CASE t = 1 BY <1>2, <2>1, <2>2
  <2>3. CASE 1 < t
    <3>1. MapEnemys[1] + (t - 1) <= MapEnemys[t] BY <1>3, <2>1, <2>3
    <3> QED BY <1>2, <2>1, <3>1
  <2> QED BY <1>2, <1>5, <2>2, <2>3
<1> HIDE DEF t
<1>6. t <= n /\ (t > 0 => t + MapEnemys[1] <= n + 1)
  <2>1. CASE t = 0 BY <1>2, <2>1
  <2>2. CASE t > 0
    <3>1. MapEnemys[1] \in Nat BY <1>2, <2>2
    <3> QED BY <1>2, <1>5, <2>2, <3>1
  <2> QED BY <1>2, <2>1, <2>2
<1>7. Standing BY <1>1, <1>3, <1>6 DEF Standing
<1> QED BY <1>1, <1>4, <1>7

LEMMA InitOrderly == Init => Orderly
BY InitStanding DEF Init, Orderly

\* A new enemy is on the last block, behind all others.
LEMMA OrderlyAttack ==
  ASSUME Types, Types', Orderly, NEW enemy \in BOOLEAN, Attack(enemy)
  PROVE  Orderly'
<1> DEFINE n == block_count
           t == enemy_count
<1>1. life \in Lives /\ pc = "attack" /\ pc' = "strike" /\ life' = life
      /\ enemys' = IF enemy THEN Append(enemys, n) ELSE enemys
  BY DEF Attack, Attacks
<1>2. n \in Nat /\ t \in Nat /\ t = Len(enemys) /\ \A k \in 1 .. t : enemys[k] \in Nat
  BY Count, EnemyAt
<1>3. block_count' = n + 1
  <2>1. blocks \in Seq(Blocks) BY DEF Types
  <2> QED BY <2>1 DEF Attack, block_count
<1>4. Rising(enemys) /\ Standing BY <1>1 DEF Orderly, Lives
<1> HIDE DEF n
<1>5. /\ \A k \in 1 .. t : enemys[k] < n
      /\ t <= n /\ (t > 0 => t + enemys[1] <= n + 1)
  BY <1>4 DEF Standing, n
<1> HIDE DEF t
<1>6. ASSUME ~enemy PROVE Rising(enemys') /\ Standing'
  <2>1. enemys' = enemys /\ enemy_count' = t BY <1>1, <1>6 DEF enemy_count, t
  <2>2. \A k \in 1 .. t : enemys[k] < n + 1 BY <1>2, <1>5
  <2>3. t > 0 => t + enemys[1] <= (n + 1) + 1
    <3>1. t > 0 => enemys[1] \in Nat BY <1>2
    <3> QED BY <1>2, <1>5, <3>1
  <2>4. t <= n + 1 BY <1>2, <1>5
  <2>5. Standing' BY <1>3, <2>1, <2>2, <2>3, <2>4 DEF Standing
  <2> QED BY <1>4, <2>1, <2>5
<1>7. ASSUME enemy PROVE Rising(enemys') /\ Standing'
  <2>1. enemys' = Append(enemys, n) /\ enemys \in Seq(Nat) BY <1>1, <1>7 DEF Types
  <2>2. /\ Len(enemys') = t + 1 /\ enemys'[t + 1] = n
        /\ \A k \in 1 .. t : enemys'[k] = enemys[k]
    BY <1>2, <2>1, Lengthened
  <2>3. \A k \in 1 .. t + 1 : k = t + 1 \/ k \in 1 .. t BY <1>2
  <2>4. ASSUME NEW k \in 1 .. t + 1, NEW m \in 1 .. t + 1, k <= m PROVE enemys'[k] <= enemys'[m]
    <3>1. CASE m = t + 1
      <4>1. enemys'[k] = n \/ (enemys'[k] < n /\ enemys'[k] \in Nat) BY <1>2, <1>5, <2>2, <2>3
      <4> QED BY <1>2, <2>2, <3>1, <4>1
    <3>2. CASE m \in 1 .. t
      <4>1. k \in 1 .. t BY <1>2, <2>4, <3>2
      <4> QED BY <1>2, <1>4, <2>2, <2>4, <3>2, <4>1 DEF Rising
    <3> QED BY <2>3, <3>1, <3>2
  <2>5. ASSUME NEW k \in 1 .. t + 1, NEW m \in 1 .. t + 1, k < m, enemys'[1] < enemys'[k]
        PROVE  enemys'[k] + (m - k) <= enemys'[m]
    <3>1. k \in 1 .. t /\ 1 \in 1 .. t BY <1>2, <2>5
    <3>2. enemys[1] < enemys[k] BY <2>2, <2>5, <3>1
    <3>3. CASE m = t + 1
      <4>1. t \in 1 .. t BY <1>2, <3>1
      <4>2. enemys[t] \in Nat /\ enemys[t] < n /\ enemys[k] \in Nat BY <1>2, <1>5, <3>1, <4>1
      <4>3. enemys[k] + (t - k) <= enemys[t]
        <5>1. CASE k = t BY <1>2, <4>2, <5>1
        <5>2. CASE k < t BY <1>2, <1>4, <3>1, <3>2, <4>1, <5>2 DEF Rising
        <5> QED BY <1>2, <3>1, <5>1, <5>2
      <4> QED BY <1>2, <2>2, <3>1, <3>3, <4>2, <4>3
    <3>4. CASE m \in 1 .. t BY <1>2, <1>4, <2>2, <2>5, <3>1, <3>2, <3>4 DEF Rising
    <3> QED BY <2>3, <3>3, <3>4
  <2>6. Rising(enemys') BY <2>2, <2>4, <2>5 DEF Rising
  <2>7. \A k \in 1 .. t + 1 : enemys'[k] < n + 1 BY <1>2, <1>5, <2>2, <2>3
  <2>8. t + 1 <= n + 1 /\ (t + 1) + enemys'[1] <= (n + 1) + 1
    <3>1. CASE t = 0
      <4>1. enemys'[1] = n BY <2>2, <3>1
      <4> QED BY <1>2, <3>1, <4>1
    <3>2. CASE t > 0
      <4>1. enemys'[1] = enemys[1] /\ enemys[1] \in Nat BY <1>2, <2>2, <3>2
      <4> QED BY <1>2, <1>5, <3>2, <4>1
    <3> QED BY <1>2, <3>1, <3>2
  <2>9. enemy_count' = t + 1 BY <2>2 DEF enemy_count
  <2>10. Standing' BY <1>3, <2>7, <2>8, <2>9 DEF Standing
  <2> QED BY <2>6, <2>10
<1> QED BY <1>1, <1>6, <1>7 DEF Orderly

LEMMA OrderlyStill ==
  ASSUME Types, Orderly,
         NoAttack \/ (\E hits \in 0 .. MAX_PLAYERS : Strike(hits)) \/ Beaten
  PROVE  Orderly'
<1>1. /\ UNCHANGED <<blocks, enemys>> /\ pc # "remove" /\ pc' # "remove"
      /\ life' > 0 => life > 0
  <2>1. life \in Int BY DEF Types
  <2>2. CASE NoAttack BY <2>2 DEF NoAttack
  <2>3. CASE \E hits \in 0 .. MAX_PLAYERS : Strike(hits)
    <3>1. PICK hits \in 0 .. MAX_PLAYERS : Strike(hits) BY <2>3
    <3>2. hits \in Int /\ hits >= 0 BY NumbersAssumption
    <3> QED BY <2>1, <3>1, <3>2 DEF Strike
  <2>4. CASE Beaten
    <3>1. life' > 0 => life > 0 BY <2>1, <2>4 DEF Beaten
    <3> QED BY <2>4, <3>1 DEF Beaten
  <2> QED BY <2>2, <2>3, <2>4
<1>2. block_count' = block_count /\ enemy_count' = enemy_count
  BY <1>1 DEF block_count, enemy_count
<1> QED BY <1>1, <1>2 DEF Orderly, Standing

LEMMA OrderlyMove ==
  ASSUME Types, Orderly, Move
  PROVE  Orderly'
<1>1. pc = "scroll" /\ pc' = "scroll" /\ UNCHANGED <<enemys, life>> BY DEF Move
<1>2. block_count' = block_count /\ enemy_count' = enemy_count
  BY <1>1 DEF Move, MovedLeft, block_count, enemy_count, Types
<1> QED BY <1>1, <1>2 DEF Orderly, Standing

LEMMA OrderlyEndFrame ==
  ASSUME Orderly, EndFrame
  PROVE  Orderly'
BY DEF EndFrame, Orderly, Standing, block_count, enemy_count

\* There are four blocks and so more than enemies that move up in a round.
LEMMA OrderlyStartRemoval ==
  ASSUME Types, Orderly, Crowded', StartRemoval
  PROVE  Orderly'
<1> SUFFICES ASSUME life > 0 PROVE Rising(enemys)' /\ Thinning'
  BY DEF Orderly, StartRemoval
<1> DEFINE n == block_count
           t == enemy_count
<1>1. /\ UNCHANGED <<blocks, enemys, life>> /\ pc = "scroll" /\ pc' = "remove" /\ j' = i' /\ i' = i
      /\ block_count' = n /\ enemy_count' = t
  BY DEF StartRemoval, block_count, enemy_count
<1>2. i' = 0 /\ n >= 4 BY <1>1 DEF Crowded, Timely
<1>3. n \in Nat /\ t \in Nat /\ t = Len(enemys) /\ \A k \in 1 .. t : enemys[k] \in Nat BY Count, EnemyAt
<1>4. Rising(enemys) /\ Standing BY <1>1 DEF Orderly
<1> HIDE DEF n
<1>5. /\ \A k \in 1 .. t : enemys[k] < n
      /\ t <= n /\ (t > 0 => t + enemys[1] <= n + 1)
  BY <1>4 DEF Standing, n
<1>6. ASSUME NEW k \in 1 .. t PROVE enemys[1] <= enemys[k]
  <2>1. 1 \in 1 .. t /\ 1 <= k BY <1>3
  <2> QED BY <1>3, <1>4, <2>1 DEF Rising
<1>7. n - 1 # 0 BY <1>2, <1>3
<1> HIDE DEF t
<1>8. j' = 0 BY <1>1, <1>2
<1>9. ASSUME t > 0, enemys[1] # 0 PROVE Following'
  <2>1. enemys[1] \in Nat /\ enemys[1] >= 1 BY <1>3, <1>9
  <2>2. \A k \in 1 .. t : enemys[k] # 0 BY <1>3, <1>6, <2>1
  <2>3. t + enemys[1] <= n + 1 BY <1>5, <1>9
  <2>4. 0 < enemys[1] BY <2>1
  <2> QED BY <1>1, <1>8, <2>2, <2>3, <2>4 DEF Following
<1>10. ASSUME t > 0, enemys[1] = 0 PROVE Deleting'
  <2>1. ~(0 >= 2) OBVIOUS
  <2> QED BY <1>1, <1>5, <1>8, <2>1 DEF Deleting
<1>11. Thinning'
  <2>1. \A k \in 1 .. t : enemys[k] < n /\ (0 = n - 1 => enemys[k] < 0) BY <1>5, <1>7
  <2> QED BY <1>1, <1>8, <1>9, <1>10, <2>1 DEF Thinning
<1> QED BY <1>1, <1>4, <1>11

LEMMA OneMore ==
  ASSUME NEW a \in Nat, NEW b \in Nat, NEW d \in Int, NEW q \in Nat, a + d <= b, b + 1 <= q
  PROVE  a + (d + 1) <= q
OBVIOUS

\* Enemies on the block behind follow it one place down.
LEMMA OrderlyFollowing ==
  ASSUME NEW n \in Nat, NEW t \in Nat, NEW q \in Nat, NEW e, NEW f,
         Len(e) = t, Len(f) = t, t > 0, q + 1 < n,
         \A k \in 1 .. t : e[k] \in Nat /\ e[k] < n,
         \A k \in 1 .. t : f[k] = IF e[k] = q + 1 THEN q ELSE e[k],
         Rising(e), \A k \in 1 .. t : e[k] = q => e[1] = q
  PROVE  /\ Rising(f)
         /\ \A k \in 1 .. t : f[k] < n /\ f[k] # q + 1 /\ (q + 1 = n - 1 => f[k] < q + 1)
<1>1. \A k \in 1 .. t : f[k] \in Nat /\ f[k] <= e[k] OBVIOUS
<1>2. /\ \A k, m \in 1 .. t : k <= m => e[k] <= e[m]
      /\ \A k, m \in 1 .. t : k < m /\ e[1] < e[k] => e[k] + (m - k) <= e[m]
  BY DEF Rising
<1>3. ASSUME NEW k \in 1 .. t, NEW m \in 1 .. t, k <= m PROVE f[k] <= f[m]
  <2>1. e[k] <= e[m] /\ e[k] \in Nat /\ e[m] \in Nat BY <1>2, <1>3
  <2>2. CASE e[m] = q + 1 BY <2>1, <2>2
  <2>3. CASE e[m] # q + 1 BY <1>1, <2>1, <2>3
  <2> QED BY <2>2, <2>3
<1>4. ASSUME NEW k \in 1 .. t, NEW m \in 1 .. t, k < m, f[1] < f[k] PROVE f[k] + (m - k) <= f[m]
  <2>1. 1 \in 1 .. t /\ m - 1 \in 1 .. t /\ 1 <= k /\ k <= m - 1 /\ m - 1 < m BY <1>4
  <2>2. e[1] \in Nat /\ e[k] \in Nat /\ e[m] \in Nat /\ e[m - 1] \in Nat BY <2>1
  <2>3. e[1] <= e[k] /\ e[k] <= e[m - 1] BY <1>2, <2>1
  <2>4. e[1] # e[k]
    <3> SUFFICES ASSUME e[1] = e[k] PROVE FALSE OBVIOUS
    <3>1. f[1] = f[k] BY <2>1
    <3> QED BY <1>1, <1>4, <3>1
  <2>5. e[1] < e[k] /\ e[1] < e[m - 1] BY <2>2, <2>3, <2>4
  <2>6. e[k] + (m - k) <= e[m] BY <1>2, <1>4, <2>5
  <2>7. CASE e[m] # q + 1
    <3>1. f[m] = e[m] /\ f[k] <= e[k] /\ f[k] \in Nat BY <1>1, <2>7
    <3> QED BY <2>2, <2>6, <3>1
  <2>8. CASE e[m] = q + 1
    <3>1. e[m - 1] + (m - (m - 1)) <= e[m] BY <1>2, <2>1, <2>5
    <3>2. m - (m - 1) = 1 OBVIOUS
    <3>3. e[m - 1] <= q BY <2>2, <2>8, <3>1, <3>2
    <3>4. e[m - 1] # q
      <4> SUFFICES ASSUME e[m - 1] = q PROVE FALSE OBVIOUS
      <4>1. e[1] = q BY <2>1
      <4> QED BY <2>2, <2>5, <4>1
    <3>5. e[k] + ((m - 1) - k) <= e[m - 1]
      <4>1. CASE k = m - 1 BY <2>2, <4>1
      <4>2. CASE k # m - 1
        <5>1. k < m - 1 BY <2>1, <4>2
        <5> QED BY <1>2, <2>1, <2>5, <5>1
      <4> QED BY <4>1, <4>2
    <3>6. f[m] = q /\ f[k] <= e[k] /\ f[k] \in Nat BY <1>1, <2>8
    <3>7. e[m - 1] + 1 <= q BY <2>2, <3>3, <3>4
    <3>a. (m - 1) - k \in Int /\ q \in Nat OBVIOUS
    <3>8. e[k] + (((m - 1) - k) + 1) <= q BY <2>2, <3>5, <3>7, <3>a, OneMore, Zenon
    <3>9. ((m - 1) - k) + 1 = m - k OBVIOUS
    <3> QED BY <2>2, <3>6, <3>8, <3>9
  <2> QED BY <2>7, <2>8
<1>5. Rising(f) BY <1>3, <1>4 DEF Rising
<1>6. ASSUME NEW k \in 1 .. t
      PROVE  f[k] < n /\ f[k] # q + 1 /\ (q + 1 = n - 1 => f[k] < q + 1)
  BY <1>6
<1> QED BY <1>5, <1>6

\* The first enemy, on the block that goes, is overwritten with the second.
LEMMA OrderlyDeleting ==
  ASSUME NEW n \in Nat, NEW t \in Nat, NEW e, NEW f,
         Len(e) = t, t >= 2, Len(f) = t - 1,
         \A k \in 1 .. t : e[k] \in Nat /\ e[k] < n,
         \A k \in 1 .. t - 1 : f[k] = IF k = 1 THEN e[2] ELSE e[k],
         Rising(e), e[1] = 0
  PROVE  /\ Rising(f)
         /\ \A k \in 1 .. t - 1 : f[k] < n
         /\ e[2] = 0 => \A k \in 1 .. t - 1 : f[k] = 0 \/ f[k] < n - 1
         /\ e[2] # 0 => e[2] + (t - 1) <= n
<1>1. /\ \A k, m \in 1 .. t : k <= m => e[k] <= e[m]
      /\ \A k, m \in 1 .. t : k < m /\ e[1] < e[k] => e[k] + (m - k) <= e[m]
  BY DEF Rising
<1>2. 1 \in 1 .. t /\ 2 \in 1 .. t /\ t \in 1 .. t /\ 1 \in 1 .. t - 1 OBVIOUS
<1>3. \A k \in 1 .. t - 1 : k \in 1 .. t /\ f[k] \in Nat /\ f[k] < n BY <1>2
<1>4. f[1] = e[2] /\ \A k \in 1 .. t - 1 : k # 1 => f[k] = e[k] BY <1>2
<1>5. ASSUME NEW k \in 1 .. t - 1, NEW m \in 1 .. t - 1, k <= m PROVE f[k] <= f[m]
  <2>1. CASE k = 1 /\ m = 1 BY <1>3, <2>1
  <2>2. CASE k = 1 /\ m # 1 BY <1>1, <1>2, <1>3, <1>4, <2>2
  <2>3. CASE k # 1
    <3>1. m # 1 BY <1>5, <2>3
    <3> QED BY <1>1, <1>3, <1>4, <1>5, <2>3, <3>1
  <2> QED BY <2>1, <2>2, <2>3
<1>6. ASSUME NEW k \in 1 .. t - 1, NEW m \in 1 .. t - 1, k < m, f[1] < f[k]
      PROVE  f[k] + (m - k) <= f[m]
  <2>1. k # 1 BY <1>3, <1>6
  <2>2. m # 1 BY <1>6
  <2>3. e[1] < e[k] BY <1>2, <1>3, <1>4, <1>6, <2>1
  <2> QED BY <1>1, <1>3, <1>4, <1>6, <2>1, <2>2, <2>3
<1>7. Rising(f) BY <1>5, <1>6 DEF Rising
<1>8. ASSUME e[2] = 0, NEW k \in 1 .. t - 1 PROVE f[k] = 0 \/ f[k] < n - 1
  <2>1. CASE k = 1 BY <1>4, <1>8, <2>1
  <2>2. CASE k # 1 /\ e[k] = 0 BY <1>4, <2>2
  <2>3. CASE k # 1 /\ e[k] # 0
    <3>1. e[1] < e[k] /\ k < t BY <1>3, <2>3
    <3>2. e[k] + (t - k) <= e[t] BY <1>1, <1>2, <1>3, <3>1
    <3>3. e[t] < n /\ e[t] \in Nat /\ e[k] \in Nat BY <1>2, <1>3
    <3> QED BY <1>4, <2>3, <3>1, <3>2, <3>3
  <2> QED BY <2>1, <2>2, <2>3
<1>9. ASSUME e[2] # 0 PROVE e[2] + (t - 1) <= n
  <2>1. e[t] < n /\ e[t] \in Nat /\ e[2] \in Nat BY <1>2
  <2>2. CASE t = 2 BY <2>1, <2>2
  <2>3. CASE t # 2
    <3>1. 2 < t /\ e[1] < e[2] BY <1>9, <2>1, <2>3
    <3>2. e[2] + (t - 2) <= e[t] BY <1>1, <1>2, <3>1
    <3> QED BY <2>1, <3>2
  <2> QED BY <2>2, <2>3
<1> QED BY <1>3, <1>7, <1>8, <1>9

\* What a round of the removal of blocks[0] makes of the enemies.
LEMMA RoundCases ==
  ASSUME Types, i = 0, Rising(enemys)
  PROVE  \/ /\ enemy_count > 0 => enemys[1] # 0
            /\ Len(Renumbered) = enemy_count
            /\ \A k \in 1 .. enemy_count : Renumbered[k] = Followed(k)
         \/ /\ enemy_count > 0 /\ enemys[1] = 0
            /\ Len(Renumbered) = enemy_count - 1
            /\ \A k \in 1 .. enemy_count - 1 :
                 Renumbered[k] = IF k = 1 THEN enemys[2] ELSE enemys[k]
<1> DEFINE t == enemy_count
           r == Renumbered
<1>1. t \in Nat /\ t = Len(enemys) /\ DOMAIN enemys = 1 .. t /\ \A k \in 1 .. t : enemys[k] \in Nat
  BY EnemyAt
<1>2. OnGone = {k \in 1 .. t : enemys[k] = 0} BY <1>1 DEF OnGone
<1>3. r \in Seq(Nat) BY RenumberedType
<1>4. CASE OnGone = {}
  <2>1. t > 0 => enemys[1] # 0
    <3>1. t > 0 => 1 \in 1 .. t BY <1>1
    <3> QED BY <1>2, <1>4, <3>1
  <2>2. r = [k \in 1 .. t |-> Followed(k)] BY <1>4 DEF Renumbered
  <2> HIDE DEF r, t
  <2>3. Len(r) = t BY <1>1, <1>3, <2>2
  <2>4. \A k \in 1 .. t : r[k] = Followed(k) BY <2>2
  <2> QED BY <2>1, <2>3, <2>4 DEF r, t
<1>5. CASE OnGone # {}
  <2>1. PICK g \in 1 .. t : enemys[g] = 0 BY <1>2, <1>5
  <2>2. 1 \in 1 .. t /\ 1 <= g /\ t > 0 BY <1>1, <2>1
  <2>3. enemys[1] <= enemys[g] BY <1>1, <2>1, <2>2 DEF Rising
  <2>4. enemys[1] = 0 BY <1>1, <2>1, <2>2, <2>3
  <2>5. 1 \in OnGone /\ \A m \in OnGone : m \in Nat /\ 1 <= m BY <1>2, <2>2, <2>4
  <2>6. FirstGone \in OnGone /\ \A m \in OnGone : FirstGone <= m BY <2>5 DEF FirstGone
  <2>7. FirstGone = 1
    <3>1. FirstGone <= 1 /\ FirstGone \in Nat /\ 1 <= FirstGone BY <2>5, <2>6
    <3> QED BY <3>1
  <2> DEFINE q(k) == CASE k < FirstGone -> Followed(k)
                       [] k = FirstGone -> enemys[k + 1]
                       [] OTHER -> enemys[k]
  <2>8. r = [k \in 1 .. t - 1 |-> q(k)] BY <1>5 DEF Renumbered
  <2>9. ASSUME NEW k \in 1 .. t - 1 PROVE q(k) = IF k = 1 THEN enemys[2] ELSE enemys[k]
    <3>1. ~(k < 1) OBVIOUS
    <3>2. CASE k = 1
      <4>1. k + 1 = 2 BY <3>2
      <4> QED BY <2>7, <3>1, <3>2, <4>1
    <3>3. CASE k # 1 BY <2>7, <3>1, <3>3
    <3> QED BY <3>2, <3>3
  <2> HIDE DEF r, t, q
  <2>10. Len(r) = t - 1
    <3>1. t - 1 \in Nat BY <1>1, <2>2
    <3> QED BY <1>3, <2>8, <3>1
  <2>11. \A k \in 1 .. t - 1 : r[k] = IF k = 1 THEN enemys[2] ELSE enemys[k]
    <3> SUFFICES ASSUME NEW k \in 1 .. t - 1
                 PROVE  r[k] = IF k = 1 THEN enemys[2] ELSE enemys[k]
      OBVIOUS
    <3>1. r[k] = q(k) BY <2>8
    <3> QED BY <2>9, <3>1
  <2> QED BY <2>2, <2>4, <2>10, <2>11 DEF r, t
<1> QED BY <1>4, <1>5

\* A round that finds no enemy on the block that goes.
LEMMA OrderlyRound ==
  ASSUME Types, Types', Rising(enemys), Thinning,
         i = 0, block_count >= 4, j < block_count - 1, j' = j + 1, block_count' = block_count,
         enemys' = Renumbered
  PROVE  Rising(enemys') /\ Thinning'
<1> DEFINE n == block_count
           t == enemy_count
           f == enemys'
<1>1. /\ n \in Nat /\ n >= 4 /\ j \in Nat /\ j + 1 < n
      /\ t \in Nat /\ t = Len(enemys) /\ \A k \in 1 .. t : enemys[k] \in Nat
  BY Count, EnemyAt DEF Types
<1>2. enemy_count' = Len(f) BY DEF enemy_count
<1> HIDE DEF n
<1>3. /\ \A k \in 1 .. t : enemys[k] < n
      /\ t > 0 => IF enemys[1] # 0 THEN Following ELSE Deleting
  BY DEF Thinning, n
<1> HIDE DEF t, f
<1>4. CASE /\ t > 0 => enemys[1] # 0
           /\ Len(f) = t /\ \A k \in 1 .. t : f[k] = Followed(k)
  <2>1. \A k \in 1 .. t : f[k] = IF enemys[k] = j + 1 THEN j ELSE enemys[k] BY <1>4 DEF Followed
  <2>2. CASE t = 0
    <3>1. Rising(f) BY <1>4, <2>2 DEF Rising
    <3>2. Thinning' BY <1>2, <1>4, <2>2 DEF Thinning, f
    <3> QED BY <3>1, <3>2 DEF f
  <2>3. CASE t > 0
    <3>1. /\ \A k \in 1 .. t : enemys[k] = j => enemys[1] = j
          /\ t + enemys[1] <= n + (IF j < enemys[1] THEN 1 ELSE 0)
      BY <1>3, <1>4, <2>3 DEF Following, n, t
    <3>2. Rising(f) /\ \A k \in 1 .. t : f[k] < n /\ f[k] # j + 1 /\ (j + 1 = n - 1 => f[k] < j + 1)
      BY <1>1, <1>3, <1>4, <2>1, <2>3, <3>1, OrderlyFollowing
    <3>3. 1 \in 1 .. t /\ enemys[1] \in Nat /\ enemys[1] # 0 BY <1>1, <1>4, <2>3
    <3>4. ASSUME f[1] # 0 PROVE t + f[1] <= n + (IF j + 1 < f[1] THEN 1 ELSE 0)
      <4>1. CASE enemys[1] = j + 1
        <5>1. f[1] = j BY <2>1, <3>3, <4>1
        <5> QED BY <1>1, <3>1, <4>1, <5>1
      <4>2. CASE enemys[1] # j + 1
        <5>1. f[1] = enemys[1] BY <2>1, <3>3, <4>2
        <5> QED BY <1>1, <3>1, <3>3, <4>2, <5>1
      <4> QED BY <4>1, <4>2
    <3>5. ASSUME f[1] = 0
          PROVE  j = 0 /\ t <= n /\ (t >= 2 /\ f[2] # 0 => f[2] >= 2)
      <4>1. enemys[1] = j + 1 /\ j = 0 BY <1>1, <2>1, <3>3, <3>5
      <4>2. t <= n BY <1>1, <3>1, <4>1
      <4>3. ASSUME t >= 2, f[2] # 0 PROVE f[2] >= 2
        <5>1. 2 \in 1 .. t BY <1>1, <4>3
        <5>2. f[2] = IF enemys[2] = j + 1 THEN j ELSE enemys[2] BY <2>1, <5>1
        <5>3. enemys[2] \in Nat BY <1>1, <5>1
        <5>4. f[2] # 1 BY <3>2, <4>1, <5>1
        <5> QED BY <4>1, <4>3, <5>2, <5>3, <5>4
      <4> QED BY <4>1, <4>2, <4>3
    <3>6. ASSUME f[1] # 0 PROVE Following'
      <4>1. block_count' = n /\ enemy_count' = t /\ enemys' = f /\ j' = j + 1 BY <1>2, <1>4 DEF n, f
      <4>2. \A k \in 1 .. t : f[k] = j + 1 => f[1] = j + 1 BY <3>2
      <4> QED BY <3>4, <3>6, <4>1, <4>2 DEF Following
    <3>7. ASSUME f[1] = 0 PROVE Deleting'
      <4>1. block_count' = n /\ enemy_count' = t /\ enemys' = f BY <1>2, <1>4 DEF n, f
      <4>2. j' = 1 BY <3>5, <3>7
      <4>3. ~(1 >= 2) OBVIOUS
      <4> QED BY <3>5, <3>7, <4>1, <4>2, <4>3 DEF Deleting
    <3>8. Thinning'
      <4>1. block_count' = n /\ enemy_count' = t /\ enemys' = f /\ j' = j + 1 BY <1>2, <1>4 DEF n, f
      <4>2. \A k \in 1 .. t : f[k] < n /\ (j + 1 = n - 1 => f[k] < j + 1) BY <3>2
      <4> QED BY <3>6, <3>7, <4>1, <4>2 DEF Thinning
    <3> QED BY <3>2, <3>8 DEF f
  <2> QED BY <1>1, <2>2, <2>3
<1>5. CASE /\ t > 0 /\ enemys[1] = 0
           /\ Len(f) = t - 1
           /\ \A k \in 1 .. t - 1 : f[k] = IF k = 1 THEN enemys[2] ELSE enemys[k]
  <2>1. CASE t = 1
    <3>1. Len(f) = 0 BY <1>5, <2>1
    <3>2. Rising(f) BY <3>1 DEF Rising
    <3>3. Thinning' BY <1>2, <3>1 DEF Thinning, f
    <3> QED BY <3>2, <3>3 DEF f
  <2>2. CASE t >= 2
    <3>1. /\ Rising(f) /\ \A k \in 1 .. t - 1 : f[k] < n
          /\ enemys[2] = 0 => \A k \in 1 .. t - 1 : f[k] = 0 \/ f[k] < n - 1
          /\ enemys[2] # 0 => enemys[2] + (t - 1) <= n
      BY <1>1, <1>3, <1>5, <2>2, OrderlyDeleting
    <3>2. /\ j <= 1 => t <= n
          /\ j >= 2 => t < n
          /\ enemys[2] # 0 => j = 0 \/ (j = 1 /\ enemys[2] >= 2)
      BY <1>3, <1>5, <2>2 DEF Deleting, n, t
    <3>3. f[1] = enemys[2] /\ enemys[2] \in Nat /\ 1 \in 1 .. t - 1 BY <1>1, <1>5, <2>2
    <3>4. block_count' = n /\ enemy_count' = t - 1 /\ enemys' = f /\ j' = j + 1
      BY <1>2, <1>5 DEF n, f
    <3>5. CASE enemys[2] = 0
      <4>1. \A k \in 1 .. t - 1 : f[k] < n /\ (j + 1 = n - 1 => f[k] < j + 1)
        BY <1>1, <3>1, <3>5
      <4>2. (j + 1 <= 1 => t - 1 <= n) /\ (j + 1 >= 2 => t - 1 < n) BY <1>1, <3>2
      <4>3. t - 1 >= 2 => f[2] = 0
        <5>1. t - 1 >= 2 => 2 \in 1 .. t - 1 BY <1>1
        <5> QED BY <1>5, <3>5, <5>1
      <4>4. Deleting' BY <3>4, <4>2, <4>3 DEF Deleting
      <4>5. Thinning' BY <3>3, <3>4, <3>5, <4>1, <4>4 DEF Thinning
      <4> QED BY <3>1, <4>5 DEF f
    <3>6. CASE enemys[2] # 0
      <4>1. enemys[2] >= j + 1 /\ j <= 1 BY <3>2, <3>3, <3>6
      <4>2. \A k \in 1 .. t - 1 : f[k] < n /\ (j + 1 = n - 1 => f[k] < j + 1)
        BY <1>1, <3>1, <4>1
      <4>3. ASSUME NEW k \in 1 .. t - 1, f[k] = j + 1 PROVE f[1] = j + 1
        <5>1. f[1] <= f[k]
          <6>1. 1 <= k /\ 1 \in 1 .. Len(f) /\ k \in 1 .. Len(f) BY <1>5, <3>3
          <6> QED BY <3>1, <6>1 DEF Rising
        <5> QED BY <1>1, <3>3, <4>1, <4>3, <5>1
      <4>4. (t - 1) + f[1] <= n + (IF j + 1 < f[1] THEN 1 ELSE 0) BY <1>1, <3>1, <3>3, <3>6
      <4>5. Following' BY <3>4, <4>3, <4>4 DEF Following
      <4>6. Thinning' BY <3>3, <3>4, <3>6, <4>2, <4>5 DEF Thinning
      <4> QED BY <3>1, <4>6 DEF f
    <3> QED BY <3>5, <3>6
  <2> QED BY <1>1, <1>5, <2>1, <2>2
<1>6. \/ /\ t > 0 => enemys[1] # 0
         /\ Len(f) = t /\ \A k \in 1 .. t : f[k] = Followed(k)
      \/ /\ t > 0 /\ enemys[1] = 0
         /\ Len(f) = t - 1
         /\ \A k \in 1 .. t - 1 : f[k] = IF k = 1 THEN enemys[2] ELSE enemys[k]
  BY RoundCases DEF t, f
<1> QED BY <1>4, <1>5, <1>6

LEMMA OrderlyRemovalRound ==
  ASSUME ArenaInv, ArenaInv', Crowded, Orderly, RemovalRound
  PROVE  Orderly'
<1> SUFFICES ASSUME life > 0 PROVE Rising(enemys)' /\ Thinning'
  BY DEF RemovalRound, Orderly
<1>1. Types /\ Types' BY DEF ArenaInv
<1>2. /\ pc = "remove" /\ j < block_count - 1 /\ j' = j + 1 /\ enemys' = Renumbered
      /\ Len(blocks') = Len(blocks)
  BY <1>1 DEF RemovalRound, Types
<1>3. block_count' = block_count BY <1>2 DEF block_count
<1>4. Rising(enemys) /\ Thinning /\ i = 0 /\ block_count >= 4 BY <1>2 DEF Orderly, Crowded, Timely
<1> QED BY <1>1, <1>2, <1>3, <1>4, OrderlyRound

LEMMA OrderlyEndRemoval ==
  ASSUME ArenaInv, ArenaInv', Crowded, Orderly, EndRemoval
  PROVE  Orderly'
<1> SUFFICES ASSUME life > 0 PROVE Rising(enemys)' /\ Standing'
  BY DEF EndRemoval, Orderly
<1> DEFINE n == block_count
           t == enemy_count
<1>1. Types /\ Types' /\ Removing BY DEF ArenaInv
<1>2. pc = "remove" /\ j >= n - 1 /\ enemys' = enemys /\ enemy_count' = t
  BY DEF EndRemoval, enemy_count
<1>3. /\ Rising(enemys) /\ Thinning /\ i = 0 /\ n >= 4 /\ n \in Nat /\ j \in Nat /\ j = n - 1
      /\ t \in Nat /\ \A k \in 1 .. t : enemys[k] \in Nat
  <2>1. Rising(enemys) /\ Thinning /\ i = 0 /\ n >= 4 /\ j < n
    BY <1>1, <1>2 DEF Orderly, Crowded, Timely, Removing
  <2>2. n \in Nat /\ j \in Nat BY <1>1, Count DEF Types
  <2>3. j = n - 1 BY <1>2, <2>1, <2>2
  <2> QED BY <1>1, <2>1, <2>2, <2>3, EnemyAt
<1>4. block_count' = n - 1
  <2>1. WithoutLast \in Seq(Blocks) /\ Len(WithoutLast) = n - 1
    <3>1. blocks \in Seq(Blocks) /\ Len(blocks) > 0 /\ n = Len(blocks)
      BY <1>1, <1>3 DEF Types, block_count
    <3> QED BY <3>1, Shortened DEF WithoutLast
  <2>2. Len(MovedLeft(WithoutLast, i)) = n - 1 BY <2>1 DEF MovedLeft
  <2>3. Len(SuccessorMoved) = n - 1 BY <2>1, <2>2 DEF SuccessorMoved
  <2> QED BY <2>3 DEF EndRemoval, block_count
<1> HIDE DEF n
<1>5. /\ \A k \in 1 .. t : enemys[k] < n - 1
      /\ t > 0 => IF enemys[1] # 0 THEN Following ELSE Deleting
  BY <1>3 DEF Thinning, n
<1>6. ASSUME t > 0 PROVE t <= n - 1 /\ t + enemys[1] <= (n - 1) + 1
  <2>1. 1 \in 1 .. t /\ enemys[1] \in Nat /\ enemys[1] < n - 1 BY <1>3, <1>5, <1>6
  <2>2. CASE enemys[1] # 0
    <3>1. t + enemys[1] <= n + (IF j < enemys[1] THEN 1 ELSE 0) BY <1>5, <1>6, <2>2 DEF Following, n
    <3> QED BY <1>3, <2>1, <2>2, <3>1
  <2>3. CASE enemys[1] = 0
    <3>1. j >= 2 => t < n BY <1>5, <1>6, <2>3 DEF Deleting, n
    <3> QED BY <1>3, <2>3, <3>1
  <2> QED BY <2>2, <2>3
<1> HIDE DEF t
<1>7. t <= n - 1 BY <1>3, <1>6
<1>8. Standing' BY <1>2, <1>4, <1>5, <1>6, <1>7 DEF Standing
<1> QED BY <1>2, <1>3, <1>8

LEMMA OrderlyStep ==
  ASSUME ArenaInv, ArenaInv', Crowded, Crowded', Orderly, [Next]_vars
  PROVE  Orderly'
<1> USE DEF ArenaInv
<1>1. CASE UNCHANGED vars
  BY <1>1 DEF vars, Orderly, Standing, Thinning, Following, Deleting, block_count, enemy_count
<1> QED
  BY <1>1, OrderlyAttack, OrderlyStill, OrderlyMove, OrderlyStartRemoval, OrderlyRemovalRound,
     OrderlyEndRemoval, OrderlyEndFrame DEF Next

LEMMA AlwaysOrderly == Spec => []Orderly
<1>1. Init /\ [][Next]_vars /\ []ArenaInv => []Crowded BY InitCrowded, CrowdedStep, PTL
<1>2. Init /\ [][Next]_vars /\ []ArenaInv /\ []Crowded => []Orderly
  BY InitOrderly, OrderlyStep, PTL
<1> QED BY <1>1, <1>2, ArenaSafe, PTL DEF Spec

\* While the boss lives every enemy stands on a block that is there, whatever
\* the removal in ServerSystem::BossLogic does to the list of enemies: it only
\* ever takes out the first of four or more blocks.
THEOREM EnemysKeepPlatforms == Spec => []PlatformExists
<1>1. Orderly => PlatformExists BY DEF Orderly, Standing, PlatformExists
<1> QED BY <1>1, AlwaysOrderly, PTL

--------------------------------------------------------------------------------
\* Blocks are at least twice Width apart, and so only so many fit on the way.
Width == CHOOSE d \in 1 .. BossX : Fits(d)
Wide == \A k \in 1 .. block_count : Width <= blocks[k].w
Sized == ArraysSuffice /\ Wide

LEMMA WidthFits ==
  /\ Width \in Nat /\ Width >= 1
  /\ \A l \in Lives : Width <= HalfWidth[l]
  /\ \A k \in 1 .. Len(MapBlocks) : Width <= MapBlocks[k].w
  /\ BossX \div (2 * Width) < BlockCap /\ BossX \div (2 * Width) < EnemyCap
<1>1. Width \in 1 .. BossX /\ Fits(Width) BY CapAssumption DEF Width
<1>2. Width \in Nat /\ Width >= 1 BY <1>1, NumbersAssumption
<1> QED BY <1>1, <1>2 DEF Fits

\* The quotient is the largest multiple that does not exceed.
LEMMA Multiple ==
  ASSUME NEW d \in Nat, d >= 1, NEW n \in Nat, NEW m \in Nat, n * d <= m
  PROVE  n <= m \div d /\ m \div d \in Nat
<1> DEFINE q == m \div d
<1>1. q \in Nat /\ q * d <= m /\ m < q * d + d OBVIOUS
<1> HIDE DEF q
<1>2. ASSUME q < n PROVE FALSE
  <2>1. PICK r \in Nat : n = q + 1 + r
    <3>1. n - q - 1 \in Nat /\ n = q + 1 + (n - q - 1) BY <1>1, <1>2
    <3> QED BY <3>1
  <2>2. n * d = q * d + d + r * d BY <1>1, <2>1
  <2>3. r * d \in Nat /\ q * d \in Nat BY <1>1, <2>1
  <2> QED BY <1>1, <2>2, <2>3
<1>3. n <= q BY <1>1, <1>2
<1> QED BY <1>1, <1>3 DEF q

\* What grows by c from one place to the next has grown by as many times c as
\* there are places: no place is the first where it has not.
LEMMA Spread ==
  ASSUME NEW s, NEW n \in Nat, NEW c \in Nat,
         \A k \in 1 .. n : s[k] \in Nat,
         \A k \in 1 .. n - 1 : s[k] + c <= s[k + 1],
         NEW m \in 1 .. n
  PROVE  (m - 1) * c <= s[m]
<1> SUFFICES ASSUME ~((m - 1) * c <= s[m]) PROVE FALSE OBVIOUS
<1> DEFINE T == {k \in 1 .. n : ~((k - 1) * c <= s[k])}
           R == {p \in Nat \X Nat : p[1] < p[2]}
<1>1. m \in T /\ T \subseteq Nat /\ T # {} OBVIOUS
<1>2. R = OpToRel(<, Nat) BY DEF OpToRel
<1>3. IsWellFoundedOn(R, Nat) BY <1>2, NatLessThanWellFounded
<1>4. PICK k \in T : \A l \in T : ~(<<l, k>> \in R)
  <2> HIDE DEF R, T
  <2> QED BY <1>1, <1>3, WFMin
<1>5. k \in 1 .. n /\ s[k] \in Nat /\ ~((k - 1) * c <= s[k]) OBVIOUS
<1>6. k # 1
  <2>1. (1 - 1) * c = 0 OBVIOUS
  <2> QED BY <1>5, <2>1
<1>7. k - 1 \in 1 .. n - 1 /\ k - 1 \in 1 .. n /\ (k - 1) + 1 = k BY <1>5, <1>6
<1>8. k - 1 \notin T
  <2>1. <<k - 1, k>> \in R BY <1>5, <1>7
  <2> HIDE DEF R, T
  <2> QED BY <1>4, <2>1
<1>9. ((k - 1) - 1) * c <= s[k - 1] BY <1>7, <1>8
<1>10. s[k - 1] + c <= s[k] /\ s[k - 1] \in Nat BY <1>7
<1>11. (k - 1) * c = ((k - 1) - 1) * c + c
  <2>1. PICK r \in Nat : k - 1 = r + 1
    <3>1. k - 2 \in Nat /\ k - 1 = (k - 2) + 1 BY <1>7
    <3> QED BY <3>1
  <2>2. (r + 1) * c = r * c + c BY <2>1
  <2>3. (k - 1) - 1 = r BY <1>5, <2>1
  <2> QED BY <2>1, <2>2, <2>3
<1>12. ((k - 1) - 1) * c \in Int BY <1>7
<1> QED BY <1>5, <1>9, <1>10, <1>11, <1>12

LEMMA Distances ==
  ASSUME Types, Spaced, Wide, pc # "remove", NEW m \in 1 .. block_count
  PROVE  (m - 1) * (2 * Width) <= blocks[m].x
<1> DEFINE n == block_count
           s == [k \in 1 .. n |-> blocks[k].x]
           c == 2 * Width
<1>1. n \in Nat /\ c \in Nat BY Count, WidthFits
<1>2. \A k \in 1 .. n : s[k] \in Nat BY BlockAt
<1>3. ASSUME NEW k \in 1 .. n - 1 PROVE s[k] + c <= s[k + 1]
  <2>1. k \in 1 .. n /\ k + 1 \in 1 .. n BY <1>1
  <2>2. Apart(blocks[k], blocks[k + 1]) BY <2>1 DEF Spaced
  <2>3. Width <= blocks[k].w /\ Width <= blocks[k + 1].w BY <2>1 DEF Wide
  <2>4. /\ blocks[k].x \in Nat /\ blocks[k].w \in Nat
        /\ blocks[k + 1].x \in Nat /\ blocks[k + 1].w \in Nat
    BY <2>1, BlockAt
  <2>5. s[k] = blocks[k].x /\ s[k + 1] = blocks[k + 1].x BY <2>1
  <2>6. blocks[k].x + blocks[k].w <= blocks[k + 1].x - blocks[k + 1].w BY <2>2 DEF Apart
  <2>7. Width \in Nat BY WidthFits
  <2>8. blocks[k].x + 2 * Width <= blocks[k + 1].x BY <2>3, <2>4, <2>6, <2>7
  <2> QED BY <2>5, <2>8
<1>4. m \in 1 .. n /\ s[m] = blocks[m].x OBVIOUS
<1> HIDE DEF n, s, c
<1>5. (m - 1) * c <= s[m] BY <1>1, <1>2, <1>3, <1>4, Spread
<1> QED BY <1>4, <1>5 DEF c

LEMMA InitSized == Init => Sized
<1> SUFFICES ASSUME Init PROVE Sized OBVIOUS
<1> DEFINE n == block_count
<1>1. Types /\ Spaced BY InitArenaInv DEF ArenaInv
<1>2. blocks = MapBlocks /\ pc = "attack" /\ n = Len(MapBlocks) BY DEF Init, block_count
<1>3. n \in Nat /\ n >= 3 BY <1>2, MapAssumption, CrowdAssumption
<1>4. Wide BY <1>2, WidthFits DEF Wide
<1>5. n \in 1 .. n /\ n - 1 \in Nat BY <1>3
<1>6. (n - 1) * (2 * Width) <= blocks[n].x BY <1>1, <1>2, <1>4, <1>5, Distances
<1>7. blocks[n].x \in Nat /\ blocks[n].x <= BossX /\ BossX \in Nat
  BY <1>1, <1>5, BlockAt, NumbersAssumption
<1> DEFINE c == 2 * Width
<1>8. c \in Nat /\ c >= 1 BY WidthFits
<1> HIDE DEF n, c
<1>9. (n - 1) * c \in Int BY <1>3, <1>8
<1>10. (n - 1) * c <= BossX BY <1>6, <1>7, <1>9 DEF c
<1>11. n - 1 <= BossX \div c /\ BossX \div c \in Nat BY <1>5, <1>7, <1>8, <1>10, Multiple
<1>12. BossX \div c < BlockCap /\ BossX \div c < EnemyCap BY WidthFits DEF c
<1>13. n <= BlockCap /\ n <= EnemyCap BY <1>3, <1>11, <1>12, NumbersAssumption
<1>14. enemy_count \in Nat /\ enemy_count <= n BY <1>1, EnemyAt, InitStanding DEF Standing, n
<1>15. enemy_count <= EnemyCap BY <1>3, <1>13, <1>14, NumbersAssumption
<1> QED BY <1>4, <1>13, <1>15 DEF Sized, ArraysSuffice, n

\* There is room behind the last block, and so one more in the arrays.
LEMMA SizedAttack ==
  ASSUME ArenaInv, Orderly, Sized, NEW enemy \in BOOLEAN, Attack(enemy)
  PROVE  Sized'
<1> DEFINE n == block_count
           t == enemy_count
           c == 2 * Width
           new == [x |-> BossX, w |-> HalfWidth[life]]
<1>1. Types /\ Spaced /\ Paced /\ Wide BY DEF ArenaInv, Sized
<1>2. /\ pc = "attack" /\ life \in Lives /\ attack_time <= 0 /\ attack_time \in Int
      /\ blocks' = Append(blocks, new) /\ enemys' = IF enemy THEN Append(enemys, n) ELSE enemys
  BY <1>1 DEF Attack, Attacks, Types
<1>3. n \in Nat /\ t \in Nat /\ t = Len(enemys) /\ n = Len(blocks) /\ c \in Nat /\ c >= 1
      /\ BossX \in Nat /\ BlockCap \in Nat /\ EnemyCap \in Nat
  BY <1>1, Count, EnemyAt, WidthFits, NumbersAssumption
<1>4. new \in Blocks /\ new.w = HalfWidth[life] BY <1>2, TablesAssumption, NumbersAssumption DEF Blocks
<1> HIDE DEF new
<1>5. /\ Len(blocks') = n + 1 /\ blocks'[n + 1] = new
      /\ \A k \in 1 .. n : blocks'[k] = blocks[k]
  BY <1>1, <1>2, <1>3, <1>4, Lengthened DEF Types
<1>6. Len(enemys') <= t + 1
  <2>1. enemys \in Seq(Nat) /\ n \in Nat BY <1>1, <1>3 DEF Types
  <2>2. Len(Append(enemys, n)) = t + 1 BY <1>3, <2>1, Lengthened
  <2> QED BY <1>2, <1>3, <2>2
<1>7. n * c <= BossX
  <2>1. CASE n = 0 BY <1>3, <2>1
  <2>2. CASE n # 0
    <3>1. n \in 1 .. n BY <1>3, <2>2
    <3>2. (n - 1) * c <= blocks[n].x BY <1>1, <1>2, <3>1, Distances
    <3>3. Moved = 0 BY <1>2 DEF Moved
    <3>4. Room(blocks[n], life, attack_time - Moved)
      <4>1. n > 0 /\ life <= life BY <1>3, <2>2, <1>2 DEF Lives
      <4> QED BY <1>1, <1>2, <4>1 DEF Paced
    <3>5. blocks[n].x \in Nat /\ blocks[n].w \in Nat BY <1>1, <3>1, BlockAt
    <3>6. Width <= blocks[n].w /\ Width <= HalfWidth[life] /\ Width \in Nat /\ HalfWidth[life] \in Nat
      BY <1>1, <1>2, <3>1, WidthFits, TablesAssumption DEF Wide
    <3>7. blocks[n].x + c <= BossX
      <4> DEFINE x == blocks[n].x
                 w == blocks[n].w
                 h == HalfWidth[life]
      <4>1. x + w + h <= BossX + (attack_time - 0) BY <3>3, <3>4 DEF Room
      <4>2. x \in Nat /\ w \in Nat /\ h \in Nat /\ Width <= w /\ Width <= h BY <3>5, <3>6
      <4>3. Width \in Nat /\ c = Width + Width BY <3>6
      <4>4. attack_time \in Int /\ attack_time <= 0 /\ BossX \in Nat BY <1>2, <1>3
      <4> HIDE DEF n, c, x, w, h
      <4>5. x + c <= BossX BY <4>1, <4>2, <4>3, <4>4
      <4> QED BY <4>5 DEF x
    <3> HIDE DEF n, c
    <3>8. PICK r \in Nat : n = r + 1
      <4>1. n - 1 \in Nat /\ n = (n - 1) + 1 BY <1>3, <2>2
      <4> QED BY <4>1
    <3>9. n * c = r * c + c /\ r * c \in Nat /\ n - 1 = r BY <1>3, <3>8
    <3>10. r * c <= blocks[n].x BY <3>2, <3>9
    <3> QED BY <1>3, <3>5, <3>7, <3>9, <3>10
  <2> QED BY <2>1, <2>2
<1>8. BossX \div c < BlockCap /\ BossX \div c < EnemyCap BY WidthFits
<1>9. t <= n BY <1>2 DEF Orderly, Standing, Lives
<1> HIDE DEF n, t, c
<1>10. n <= BossX \div c /\ BossX \div c \in Nat BY <1>3, <1>7, Multiple
<1>11. n + 1 <= BlockCap /\ t + 1 <= EnemyCap BY <1>3, <1>8, <1>9, <1>10
<1>12. block_count' = n + 1 /\ enemy_count' = Len(enemys') BY <1>5 DEF block_count, enemy_count
<1>13. Len(enemys') \in Nat
  <2>1. enemys \in Seq(Nat) /\ n \in Nat BY <1>1, <1>3 DEF Types
  <2> QED BY <1>2, <2>1
<1>14. ArraysSuffice' BY <1>3, <1>6, <1>11, <1>12, <1>13 DEF ArraysSuffice
<1>15. Wide'
  <2>1. ASSUME NEW k \in 1 .. n + 1 PROVE Width <= blocks'[k].w
    <3>1. CASE k = n + 1 BY <1>2, <1>4, <1>5, <3>1, WidthFits
    <3>2. CASE k # n + 1
      <4>1. k \in 1 .. n BY <1>3, <3>2
      <4> QED BY <1>1, <1>5, <4>1 DEF Wide, n
    <3> QED BY <3>1, <3>2
  <2> QED BY <1>12, <2>1 DEF Wide
<1> QED BY <1>14, <1>15 DEF Sized

LEMMA RenumberedLength ==
  ASSUME Types
  PROVE  Len(Renumbered) \in Nat /\ Len(Renumbered) <= enemy_count
<1> DEFINE t == enemy_count
           r == Renumbered
<1>1. t \in Nat /\ t = Len(enemys) /\ DOMAIN enemys = 1 .. t BY EnemyAt
<1>2. r \in Seq(Nat) BY RenumberedType
<1>3. DOMAIN r = 1 .. t \/ (t # 0 /\ DOMAIN r = 1 .. t - 1)
  <2>1. CASE OnGone = {}
    <3>1. r = [k \in 1 .. t |-> Followed(k)] BY <2>1 DEF Renumbered
    <3> HIDE DEF r, t
    <3> QED BY <3>1
  <2>2. CASE OnGone # {}
    <3>1. t # 0 BY <1>1, <2>2 DEF OnGone
    <3>2. DOMAIN r = 1 .. t - 1 BY <2>2 DEF Renumbered
    <3> QED BY <3>1, <3>2
  <2> QED BY <2>1, <2>2
<1> HIDE DEF r, t
<1>4. Len(r) = t \/ (t # 0 /\ Len(r) = t - 1)
  <2>1. CASE DOMAIN r = 1 .. t BY <1>1, <1>2, <2>1
  <2>2. CASE t # 0 /\ DOMAIN r = 1 .. t - 1
    <3>1. t - 1 \in Nat BY <1>1, <2>2
    <3> QED BY <1>2, <2>2, <3>1
  <2> QED BY <1>3, <2>1, <2>2
<1> QED BY <1>1, <1>4 DEF r, t

\* Nothing but an attack puts anything into the arrays, and no block changes its
\* width.
LEMMA SizedStill ==
  ASSUME Sized, UNCHANGED <<blocks, enemys>>
  PROVE  Sized'
BY DEF Sized, ArraysSuffice, Wide, block_count, enemy_count

LEMMA SizedLeft ==
  ASSUME NEW s \in Seq(Blocks), NEW k \in 0 .. Len(s) - 1, \A m \in 1 .. Len(s) : Width <= s[m].w
  PROVE  /\ Len(MovedLeft(s, k)) = Len(s)
         /\ \A m \in 1 .. Len(s) : Width <= MovedLeft(s, k)[m].w
<1>1. k + 1 \in 1 .. Len(s) OBVIOUS
<1>2. \A m \in 1 .. Len(s) : s[m] \in Blocks OBVIOUS
<1>3. MovedLeft(s, k) = [s EXCEPT ![k + 1] = [s[k + 1] EXCEPT !.x = @ - 1]] BY DEF MovedLeft
<1>4. ASSUME NEW m \in 1 .. Len(s) PROVE MovedLeft(s, k)[m].w = s[m].w
  <2>1. CASE m = k + 1 BY <1>1, <1>2, <1>3, <2>1 DEF Blocks
  <2>2. CASE m # k + 1 BY <1>3, <2>2
  <2> QED BY <2>1, <2>2
<1>5. Len(MovedLeft(s, k)) = Len(s) BY <1>3
<1> QED BY <1>4, <1>5

LEMMA SizedStep ==
  ASSUME ArenaInv, ArenaInv', Orderly, Sized, [Next]_vars
  PROVE  Sized'
<1> DEFINE n == block_count
           t == enemy_count
<1>1. Types /\ Wide /\ n <= BlockCap /\ t <= EnemyCap BY DEF ArenaInv, Sized, ArraysSuffice
<1>2. n \in Nat /\ n = Len(blocks) /\ t \in Nat /\ BlockCap \in Nat /\ EnemyCap \in Nat
      /\ i \in Nat /\ j \in Nat /\ blocks \in Seq(Blocks)
  BY <1>1, Count, EnemyAt, NumbersAssumption DEF Types
<1>3. \A k \in 1 .. n : Width <= blocks[k].w BY <1>1 DEF Wide
<1> HIDE DEF n, t
<1>4. ASSUME Len(blocks') <= n, Len(blocks') \in Nat, Len(enemys') <= t, Len(enemys') \in Nat,
             \A k \in 1 .. Len(blocks') : Width <= blocks'[k].w
      PROVE  Sized'
  <2>1. block_count' = Len(blocks') /\ enemy_count' = Len(enemys') BY DEF block_count, enemy_count
  <2>2. Len(blocks') <= BlockCap /\ Len(enemys') <= EnemyCap BY <1>1, <1>2, <1>4
  <2> QED BY <1>4, <2>1, <2>2 DEF Sized, ArraysSuffice, Wide
<1>5. CASE Move
  <2>1. i \in 0 .. Len(blocks) - 1 /\ blocks' = MovedLeft(blocks, i) /\ enemys' = enemys
    BY <1>2, <1>5 DEF Move, n
  <2>2. Len(enemys') = t BY <2>1 DEF t, enemy_count
  <2>3. Len(blocks') = n /\ \A k \in 1 .. n : Width <= blocks'[k].w
    BY <1>2, <1>3, <2>1, SizedLeft
  <2> QED BY <1>2, <1>4, <2>2, <2>3
<1>6. CASE RemovalRound
  <2>1. j + 1 \in 1 .. n /\ j + 2 \in 1 .. n /\ (j + 1) + 1 = j + 2 BY <1>2, <1>6 DEF RemovalRound, n
  <2>2. blocks' = [blocks EXCEPT ![j + 1] = blocks[j + 2]] /\ enemys' = Renumbered
    BY <1>6, <2>1 DEF RemovalRound, block
  <2>3. blocks[j + 2] \in Blocks BY <1>2, <2>1
  <2>4. Len(blocks') = n /\ \A k \in 1 .. n : blocks'[k] = IF k = j + 1 THEN blocks[j + 2] ELSE blocks[k]
    BY <1>2, <2>1, <2>2, <2>3, Updated
  <2>5. \A k \in 1 .. n : Width <= blocks'[k].w BY <1>3, <2>1, <2>4
  <2>6. Len(enemys') \in Nat /\ Len(enemys') <= t BY <1>1, <2>2, RenumberedLength DEF t
  <2> QED BY <1>2, <1>4, <2>4, <2>5, <2>6
<1>7. CASE EndRemoval
  <2> DEFINE rest == WithoutLast
  <2>1. n > 0 BY <1>7 DEF EndRemoval, ArenaInv, Removing, Types, n, block_count
  <2>2. /\ rest \in Seq(Blocks) /\ Len(rest) = n - 1
        /\ \A k \in 1 .. n - 1 : rest[k] = blocks[k]
    <3>1. rest = SubSeq(blocks, 1, Len(blocks) - 1) /\ Len(blocks) > 0
      BY <1>2, <2>1 DEF WithoutLast, block_count
    <3> HIDE DEF rest
    <3> QED BY <1>2, <3>1, Shortened
  <2> HIDE DEF rest
  <2>3. \A k \in 1 .. n - 1 : Width <= rest[k].w
    <3>1. \A k \in 1 .. n - 1 : k \in 1 .. n BY <1>2
    <3> QED BY <1>3, <2>2, <3>1
  <2>4. blocks' = (IF i < n - 1 THEN MovedLeft(rest, i) ELSE rest) /\ enemys' = enemys
    BY <1>7 DEF EndRemoval, SuccessorMoved, rest, n
  <2>5. Len(blocks') = n - 1 /\ \A k \in 1 .. n - 1 : Width <= blocks'[k].w
    <3>1. CASE i < n - 1
      <4>1. i \in 0 .. Len(rest) - 1 BY <1>2, <2>2, <3>1
      <4> QED BY <2>2, <2>3, <2>4, <3>1, <4>1, SizedLeft
    <3>2. CASE ~(i < n - 1) BY <2>2, <2>3, <2>4, <3>2
    <3> QED BY <3>1, <3>2
  <2>6. Len(enemys') = t BY <2>4 DEF t, enemy_count
  <2> QED BY <1>2, <1>4, <2>1, <2>5, <2>6
<1>8. CASE UNCHANGED vars BY <1>8, SizedStill DEF vars
<1>9. CASE NoAttack \/ Beaten \/ StartRemoval \/ EndFrame \/ \E hits \in 0 .. MAX_PLAYERS : Strike(hits)
  BY <1>9, SizedStill DEF NoAttack, Beaten, StartRemoval, EndFrame, Strike
<1>10. CASE \E enemy \in BOOLEAN : Attack(enemy) BY <1>10, SizedAttack
<1> QED BY <1>5, <1>6, <1>7, <1>8, <1>9, <1>10 DEF Next

\* The appends of BossLogic, which test no bound, stay within the arrays of the
\* map: the blocks on the screen are apart, and an enemy is never without a block
\* of its own or one that is about to go.
THEOREM ArraysAreLargeEnough == Spec => []ArraysSuffice
<1>1. Sized => ArraysSuffice BY DEF Sized
<1>2. Init /\ [][Next]_vars /\ []ArenaInv /\ []Orderly => []Sized
  BY InitSized, SizedStep, PTL
<1> QED BY <1>1, <1>2, AlwaysOrderly, ArenaSafe, PTL DEF Spec
================================================================================

---------------------------- MODULE MapEditor_proofs ----------------------------
(***************************************************************************)
(* Theorems about MapEditor, for any places, any bounds and maps of any    *)
(* length: search_near finds what nothing is nearer than, a block that has *)
(* been drawn stays as it is, and an enemy stays on its block.  The search *)
(* is a loop over data, so what it finds is proved by an induction.        *)
(***************************************************************************)
EXTENDS MapEditor, SequenceTheorems, WellFoundedInduction, TLAPS

Flags == open \in BOOLEAN /\ down \in BOOLEAN /\ uploaded \in BOOLEAN
Numbers ==
  /\ start_x \in Nat /\ boss_count \in {0, 1} /\ P_Start_Loc \in [0 .. 2 -> Nat]
  /\ presses \in Nat
Mode == curDrawmod \in Modes /\ (down => open /\ curDrawmod = "D_Block")

\* The blocks lie in the order they were drawn in, and so no two have one name;
\* only the one being drawn has no centre.
BlocksInv ==
  /\ blocks \in Seq(BlockRecord)
  /\ down => blocks # <<>>
  /\ \A k \in DOMAIN blocks : blocks[k].x = NoCentre <=> down /\ k = Len(blocks)
  /\ \A k \in DOMAIN blocks : blocks[k].name < presses
  /\ \A k, m \in DOMAIN blocks : k < m => blocks[k].name < blocks[m].name

Named(e, bs) == e.on_block < Len(bs) /\ bs[e.on_block + 1].name = e.name
EnemysInv ==
  /\ enemys \in Seq(EnemyRecord)
  /\ \A k \in DOMAIN enemys : Named(enemys[k], blocks)
PlayedInv ==
  /\ played \in [blocks : Seq(BlockRecord), enemys : Seq(EnemyRecord)]
  /\ \A k \in DOMAIN played.enemys : Named(played.enemys[k], played.blocks)

EditorInv ==
  /\ Flags /\ Numbers /\ Mode
  /\ BlocksInv /\ objects \in Seq(ObjectRecord) /\ EnemysInv /\ PlayedInv

--------------------------------------------------------------------------------
\* Induction over the naturals, stated with sets: a set of naturals that is not
\* empty has a least element, and a set with 0 and the successor of each of its
\* members has them all.
LEMMA LeastElement ==
  ASSUME NEW T, T \subseteq Nat, T # {}
  PROVE  \E n \in T : \A m \in T : n <= m
<1> DEFINE R == {p \in Nat \X Nat : p[1] < p[2]}
<1>1. R = OpToRel(<, Nat) BY DEF OpToRel
<1>2. IsWellFoundedOn(R, Nat) BY <1>1, NatLessThanWellFounded
<1>3. PICK n \in T : \A m \in T : ~(<<m, n>> \in R)
  <2> HIDE DEF R
  <2> QED BY <1>2, WFMin
<1>4. ASSUME NEW m \in T PROVE n <= m
  <2>1. ~(<<m, n>> \in R) BY <1>3
  <2>2. <<m, n>> \in Nat \X Nat OBVIOUS
  <2>3. ~(m < n) BY <2>1, <2>2
  <2> QED BY <2>3
<1> QED BY <1>4

LEMMA Induction ==
  ASSUME NEW S, 0 \in S, \A n \in Nat : n \in S => n + 1 \in S
  PROVE  \A n \in Nat : n \in S
<1> SUFFICES ASSUME NEW k \in Nat, k \notin S PROVE FALSE OBVIOUS
<1> DEFINE T == {n \in Nat : n \notin S}
<1>1. PICK n \in T : \A m \in T : n <= m BY LeastElement
<1>2. n - 1 \in Nat BY <1>1
<1>3. n - 1 \in S BY <1>1, <1>2
<1> QED BY <1>1, <1>2, <1>3

--------------------------------------------------------------------------------
LEMMA LengthType ==
  ASSUME NEW a \in Int, NEW b \in Int
  PROVE  Length(a, b) \in Nat
BY DEF Length

LEMMA LengthAt ==
  ASSUME NEW xs \in Seq(Int), NEW c \in Int, NEW m \in 1 .. Len(xs)
  PROVE  Length(c, xs[m]) \in Nat
<1>1. xs[m] \in Int OBVIOUS
<1> QED BY <1>1, LengthType

\* The thing k + 1 is the nearest to c of the first n, and the last one of equals.
Near(xs, c, n, k) ==
  /\ k \in 0 .. n - 1
  /\ \A m \in 1 .. n :
       /\ Length(c, xs[k + 1]) <= Length(c, xs[m])
       /\ Length(c, xs[k + 1]) = Length(c, xs[m]) => m <= k + 1

\* What one turn of the loop of search_near makes of the one found before.
Turn(xs, c, i, k) == IF Length(c, xs[i]) <= Length(c, xs[k + 1]) THEN i - 1 ELSE k
Turns(xs, c, f) == [i \in 0 .. Len(xs) |-> IF i = 0 THEN 0 ELSE Turn(xs, c, i, f[i - 1])]

LEMMA FirstTurn ==
  ASSUME NEW xs \in Seq(Int), NEW c \in Int, Len(xs) >= 1
  PROVE  Turn(xs, c, 1, 0) = 0 /\ Near(xs, c, 1, 0)
<1>1. xs[1] \in Int OBVIOUS
<1>2. Length(c, xs[1]) \in Nat BY <1>1, LengthType
<1> QED BY <1>2 DEF Turn, Near

LEMMA NextTurn ==
  ASSUME NEW xs \in Seq(Int), NEW c \in Int, NEW i \in 1 .. Len(xs), i + 1 <= Len(xs), NEW k,
         Near(xs, c, i, k)
  PROVE  Near(xs, c, i + 1, Turn(xs, c, i + 1, k))
<1> DEFINE d == [m \in 1 .. Len(xs) |-> Length(c, xs[m])]
<1>1. \A m \in 1 .. Len(xs) : d[m] \in Nat BY LengthAt
<1>2. /\ k \in 0 .. i - 1
      /\ \A m \in 1 .. i : d[k + 1] <= d[m] /\ (d[k + 1] = d[m] => m <= k + 1)
  BY DEF Near
<1>3. Turn(xs, c, i + 1, k) = IF d[i + 1] <= d[k + 1] THEN i ELSE k BY <1>2 DEF Turn
<1>4. ASSUME NEW q \in 0 .. i,
             \A m \in 1 .. i + 1 : d[q + 1] <= d[m] /\ (d[q + 1] = d[m] => m <= q + 1)
      PROVE  Near(xs, c, i + 1, q)
  <2>1. ASSUME NEW m \in 1 .. i + 1
        PROVE  /\ Length(c, xs[q + 1]) <= Length(c, xs[m])
               /\ Length(c, xs[q + 1]) = Length(c, xs[m]) => m <= q + 1
    <3>1. m \in 1 .. Len(xs) /\ q + 1 \in 1 .. Len(xs) OBVIOUS
    <3>2. d[m] = Length(c, xs[m]) /\ d[q + 1] = Length(c, xs[q + 1]) BY <3>1
    <3> HIDE DEF d
    <3> QED BY <3>2, <1>4
  <2>2. q \in 0 .. (i + 1) - 1 OBVIOUS
  <2> QED BY <2>1, <2>2 DEF Near
<1> HIDE DEF d
<1>5. CASE d[i + 1] <= d[k + 1]
  <2>1. ASSUME NEW m \in 1 .. i + 1 PROVE d[i + 1] <= d[m] /\ m <= i + 1
    <3>1. m \in 1 .. i \/ m = i + 1 OBVIOUS
    <3>2. d[i + 1] \in Nat /\ d[m] \in Nat /\ d[k + 1] \in Nat BY <1>1, <1>2
    <3>3. m \in 1 .. i => d[k + 1] <= d[m] BY <1>2
    <3> QED BY <1>5, <3>1, <3>2, <3>3
  <2> QED BY <2>1, <1>3, <1>4, <1>5
<1>6. CASE ~(d[i + 1] <= d[k + 1])
  <2>1. ASSUME NEW m \in 1 .. i + 1
        PROVE  d[k + 1] <= d[m] /\ (d[k + 1] = d[m] => m <= k + 1)
    <3>1. m \in 1 .. i \/ m = i + 1 OBVIOUS
    <3>2. d[i + 1] \in Nat /\ d[m] \in Nat /\ d[k + 1] \in Nat BY <1>1, <1>2
    <3>3. m \in 1 .. i => d[k + 1] <= d[m] /\ (d[k + 1] = d[m] => m <= k + 1) BY <1>2
    <3> QED BY <1>6, <3>1, <3>2, <3>3
  <2> QED BY <2>1, <1>2, <1>3, <1>4, <1>6
<1> QED BY <1>5, <1>6

LEMMA OneIsNear ==
  ASSUME NEW xs \in Seq(Int), NEW c \in Int, NEW n \in 1 .. Len(xs), NEW k, NEW q,
         Near(xs, c, n, k), Near(xs, c, n, q)
  PROVE  k = q
<1>1. k \in 0 .. n - 1 /\ q \in 0 .. n - 1 BY DEF Near
<1>2. /\ Length(c, xs[k + 1]) \in Nat /\ Length(c, xs[q + 1]) \in Nat
  <2>1. k + 1 \in 1 .. Len(xs) /\ q + 1 \in 1 .. Len(xs) BY <1>1
  <2> QED BY <2>1, LengthAt
<1>3. /\ Length(c, xs[k + 1]) <= Length(c, xs[q + 1])
      /\ Length(c, xs[k + 1]) = Length(c, xs[q + 1]) => q <= k
  BY <1>1 DEF Near
<1>4. /\ Length(c, xs[q + 1]) <= Length(c, xs[k + 1])
      /\ Length(c, xs[k + 1]) = Length(c, xs[q + 1]) => k <= q
  BY <1>1 DEF Near
<1> QED BY <1>1, <1>2, <1>3, <1>4

LEMMA SomethingIsNear ==
  ASSUME NEW xs \in Seq(Int), NEW c \in Int
  PROVE  \A n \in 1 .. Len(xs) : \E k \in Nat : Near(xs, c, n, k)
<1> DEFINE S == {n \in Nat : n \in 1 .. Len(xs) => \E k \in Nat : Near(xs, c, n, k)}
<1>1. 0 \in S OBVIOUS
<1>2. ASSUME NEW n \in Nat, n \in S PROVE n + 1 \in S
  <2>1. CASE n = 0 BY <2>1, FirstTurn
  <2>2. CASE n # 0 /\ n + 1 \in 1 .. Len(xs)
    <3>1. PICK k \in Nat : Near(xs, c, n, k) BY <1>2, <2>2
    <3>2. Near(xs, c, n + 1, Turn(xs, c, n + 1, k)) BY <3>1, <2>2, NextTurn
    <3>3. Turn(xs, c, n + 1, k) \in Nat BY DEF Turn
    <3> QED BY <3>2, <3>3
  <2> QED BY <2>1, <2>2
<1> HIDE DEF S
<1>3. \A n \in Nat : n \in S BY <1>1, <1>2, Induction
<1> QED BY <1>3 DEF S

\* What the loop of search_near ends with, for every list of places and every
\* click: one of the things, none is nearer, and the last one of equals.
THEOREM NearestFound ==
  ASSUME NEW xs \in Seq(Int), NEW c \in Int, Len(xs) > 0
  PROVE  Near(xs, c, Len(xs), Nearest(xs, c))
<1> DEFINE n == Len(xs)
           g == [i \in 0 .. n |-> IF i = 0 THEN 0 ELSE CHOOSE k \in Nat : Near(xs, c, i, k)]
           f == CHOOSE h : h = Turns(xs, c, h)
<1>1. \A i \in 1 .. n : Near(xs, c, i, g[i])
  <2> TAKE i \in 1 .. n
  <2>1. \E k \in Nat : Near(xs, c, i, k) BY SomethingIsNear
  <2>2. g[i] = CHOOSE k \in Nat : Near(xs, c, i, k) OBVIOUS
  <2> HIDE DEF g
  <2> QED BY <2>1, <2>2
<1>2. g[0] = 0 /\ g = [i \in 0 .. n |-> g[i]] OBVIOUS
<1> HIDE DEF g
<1>3. ASSUME NEW i \in 1 .. n PROVE g[i] = Turn(xs, c, i, g[i - 1])
  <2>1. CASE i = 1 BY <2>1, <1>1, <1>2, FirstTurn, OneIsNear
  <2>2. CASE i # 1
    <3>1. i - 1 \in 1 .. n /\ (i - 1) + 1 = i BY <2>2
    <3>2. Near(xs, c, i - 1, g[i - 1]) BY <3>1, <1>1
    <3>3. Near(xs, c, i, Turn(xs, c, i, g[i - 1])) BY <3>1, <3>2, NextTurn
    <3> QED BY <3>3, <1>1, OneIsNear
  <2> QED BY <2>1, <2>2
<1>4. g = Turns(xs, c, g)
  <2>1. \A i \in 0 .. n : g[i] = IF i = 0 THEN 0 ELSE Turn(xs, c, i, g[i - 1])
    <3>1. \A i \in 0 .. n : i = 0 \/ i \in 1 .. n OBVIOUS
    <3> QED BY <1>2, <1>3, <3>1
  <2>2. [i \in 0 .. n |-> g[i]]
          = [i \in 0 .. n |-> IF i = 0 THEN 0 ELSE Turn(xs, c, i, g[i - 1])]
    BY <2>1
  <2> QED BY <1>2, <2>2 DEF Turns
<1>5. f = Turns(xs, c, f) BY <1>4
<1>6. f[n] = Nearest(xs, c) BY DEF Nearest, Turns, Turn
<1> HIDE DEF f
<1>7. f[0] = 0 /\ \A i \in 1 .. n : f[i] = Turn(xs, c, i, f[i - 1])
  <2>1. 0 \in 0 .. n /\ \A i \in 1 .. n : i \in 0 .. n /\ i # 0 OBVIOUS
  <2>2. f = [i \in 0 .. n |-> IF i = 0 THEN 0 ELSE Turn(xs, c, i, f[i - 1])]
    BY <1>5 DEF Turns
  <2>3. \A i \in 0 .. n : f[i] = IF i = 0 THEN 0 ELSE Turn(xs, c, i, f[i - 1]) BY <2>2
  <2> QED BY <2>1, <2>3
<1> DEFINE S == {i \in Nat : i \in 1 .. n => Near(xs, c, i, f[i])}
<1>8. 0 \in S OBVIOUS
<1>9. ASSUME NEW i \in Nat, i \in S PROVE i + 1 \in S
  <2>1. CASE i = 0 BY <2>1, <1>7, FirstTurn
  <2>2. CASE i # 0 /\ i + 1 \in 1 .. n
    <3>1. Near(xs, c, i, f[i]) BY <1>9, <2>2
    <3>2. Near(xs, c, i + 1, Turn(xs, c, i + 1, f[i])) BY <3>1, <2>2, NextTurn
    <3>3. f[i + 1] = Turn(xs, c, i + 1, f[i]) BY <1>7, <2>2
    <3> QED BY <3>2, <3>3
  <2> QED BY <2>1, <2>2
<1> HIDE DEF S
<1>10. \A i \in Nat : i \in S BY <1>8, <1>9, Induction
<1> QED BY <1>10, <1>6 DEF S

\* The same of the things on the map, whose x is a number.
LEMMA NearestThing ==
  ASSUME NEW S, NEW things \in Seq(S), \A t \in S : t.x \in Int, things # <<>>, NEW c \in Int
  PROVE  /\ NearestOf(things, c) \in 0 .. Len(things) - 1
         /\ NearestOf(things, c) + 1 \in 1 .. Len(things)
         /\ \A m \in 1 .. Len(things) :
              Length(c, things[NearestOf(things, c) + 1].x) <= Length(c, things[m].x)
<1> DEFINE xs == Places(things)
           k == NearestOf(things, c)
<1>1. DOMAIN things = 1 .. Len(things) /\ Len(things) \in Nat /\ Len(things) > 0 OBVIOUS
<1>2. \A m \in 1 .. Len(things) : xs[m] = things[m].x BY <1>1 DEF Places
<1>3. xs \in Seq(Int) /\ Len(xs) = Len(things)
  <2>1. \A m \in 1 .. Len(things) : things[m].x \in Int OBVIOUS
  <2>2. xs \in [1 .. Len(things) -> Int] BY <1>1, <2>1 DEF Places
  <2> HIDE DEF xs
  <2> QED BY <1>1, <2>2, IsASeq
<1>4. k = Nearest(xs, c) BY DEF NearestOf
<1> HIDE DEF xs, k
<1>5. Near(xs, c, Len(xs), k) BY <1>1, <1>3, <1>4, NearestFound
<1>6. k \in 0 .. Len(things) - 1 /\ k + 1 \in 1 .. Len(things) BY <1>1, <1>3, <1>5 DEF Near
<1>7. \A m \in 1 .. Len(things) : Length(c, xs[k + 1]) <= Length(c, xs[m])
  BY <1>3, <1>5 DEF Near
<1>8. \A m \in 1 .. Len(things) : Length(c, things[k + 1].x) <= Length(c, things[m].x)
  BY <1>2, <1>6, <1>7
<1> QED BY <1>6, <1>8 DEF k

--------------------------------------------------------------------------------
\* What becomes of a sequence when one is put behind it, put in or taken out.
LEMMA PutBehind ==
  ASSUME NEW S, NEW s \in Seq(S), NEW e \in S
  PROVE  LET t == Append(s, e) IN
         /\ t \in Seq(S) /\ Len(t) = Len(s) + 1 /\ t[Len(s) + 1] = e
         /\ \A n \in 1 .. Len(s) : t[n] = s[n]
OBVIOUS

LEMMA PutIn ==
  ASSUME NEW S, NEW s \in Seq(S), NEW k \in 1 .. Len(s), NEW e \in S
  PROVE  LET t == [s EXCEPT ![k] = e] IN
         /\ t \in Seq(S) /\ Len(t) = Len(s)
         /\ \A n \in 1 .. Len(s) : t[n] = IF n = k THEN e ELSE s[n]
OBVIOUS

LEMMA TakenAway ==
  ASSUME NEW S, NEW s \in Seq(S), NEW k \in 0 .. Len(s) - 1
  PROVE  LET t == Without(s, k) IN
         /\ t \in Seq(S) /\ Len(t) = Len(s) - 1
         /\ \A n \in 1 .. Len(s) - 1 : t[n] = IF n <= k THEN s[n] ELSE s[n + 1]
<1> DEFINE n == Len(s)
           a == SubSeq(s, 1, k)
           b == SubSeq(s, k + 2, n)
           t == a \o b
<1>1. /\ n \in Nat /\ k \in Nat /\ k < n /\ k + 2 \in Int
      /\ \A m \in 1 .. n : s[m] \in S
  OBVIOUS
<1>2. Without(s, k) = t
  <2>1. (k + 1) - 1 = k /\ (k + 1) + 1 = k + 2 OBVIOUS
  <2> QED BY <2>1 DEF Without, RemoveAt
<1> HIDE DEF n
<1>3. /\ a \in Seq(S) /\ Len(a) = IF 1 <= k THEN k - 1 + 1 ELSE 0
      /\ \A m \in 1 .. k - 1 + 1 : a[m] = s[1 + m - 1]
  BY <1>1, SubSeqProperties DEF n
<1>4. /\ b \in Seq(S) /\ Len(b) = IF k + 2 <= n THEN n - (k + 2) + 1 ELSE 0
      /\ \A m \in 1 .. n - (k + 2) + 1 : b[m] = s[(k + 2) + m - 1]
  BY <1>1, SubSeqProperties DEF n
<1> HIDE DEF a, b
<1>5. Len(a) = k /\ Len(b) = n - 1 - k BY <1>1, <1>3, <1>4
<1>6. /\ t \in Seq(S) /\ Len(t) = Len(a) + Len(b)
      /\ \A m \in 1 .. Len(a) + Len(b) : t[m] = IF m <= Len(a) THEN a[m] ELSE b[m - Len(a)]
  BY <1>3, <1>4, ConcatProperties
<1> HIDE DEF t
<1>7. ASSUME NEW m \in 1 .. n - 1 PROVE t[m] = IF m <= k THEN s[m] ELSE s[m + 1]
  <2>1. t[m] = IF m <= k THEN a[m] ELSE b[m - k] BY <1>1, <1>5, <1>6
  <2>2. CASE m <= k
    <3>1. m \in 1 .. k - 1 + 1 /\ 1 + m - 1 = m BY <1>1, <2>2
    <3> QED BY <1>3, <2>1, <2>2, <3>1
  <2>3. CASE ~(m <= k)
    <3>1. m - k \in 1 .. n - (k + 2) + 1 /\ (k + 2) + (m - k) - 1 = m + 1 BY <1>1, <2>3
    <3> QED BY <1>4, <2>1, <2>3, <3>1
  <2> QED BY <2>2, <2>3
<1> QED BY <1>1, <1>2, <1>5, <1>6, <1>7 DEF n

LEMMA CentreType ==
  ASSUME NEW l \in Nat, NEW r \in Nat
  PROVE  Centre(l, r) \in Nat
BY DEF Centre, Half

--------------------------------------------------------------------------------
LEMMA InitInv == Init => EditorInv
<1> SUFFICES ASSUME Init PROVE EditorInv OBVIOUS
<1>1. Flags /\ Numbers /\ Mode BY DEF Init, Flags, Numbers, Mode, Modes
<1>2. BlocksInv BY DEF Init, BlocksInv
<1>3. objects \in Seq(ObjectRecord) /\ EnemysInv BY DEF Init, EnemysInv
<1>4. PlayedInv BY DEF Init, PlayedInv, NoMap
<1> QED BY <1>1, <1>2, <1>3, <1>4 DEF EditorInv

\* What no action disturbs that leaves the variables of a part alone.
LEMMA BlocksStay ==
  ASSUME EditorInv, UNCHANGED <<blocks, down>>, presses' \in Nat, presses' >= presses
  PROVE  BlocksInv'
<1> USE DEF EditorInv, BlocksInv, Numbers
<1>1. blocks' \in Seq(BlockRecord) /\ (down' => blocks' # <<>>) OBVIOUS
<1>2. \A k \in DOMAIN blocks' : blocks'[k].x = NoCentre <=> down' /\ k = Len(blocks') OBVIOUS
<1>3. \A k, m \in DOMAIN blocks' : k < m => blocks'[k].name < blocks'[m].name OBVIOUS
<1>4. ASSUME NEW k \in DOMAIN blocks' PROVE blocks'[k].name < presses'
  <2>1. blocks[k] \in BlockRecord /\ blocks[k].name < presses OBVIOUS
  <2>2. blocks[k].name \in Nat BY <2>1 DEF BlockRecord
  <2> QED BY <2>1, <2>2
<1> QED BY <1>1, <1>2, <1>3, <1>4

LEMMA EnemysStay ==
  ASSUME EditorInv, UNCHANGED <<blocks, enemys>>
  PROVE  EnemysInv'
BY DEF EditorInv, EnemysInv, Named

LEMMA PlayedStay ==
  ASSUME EditorInv, UNCHANGED played
  PROVE  PlayedInv'
BY DEF EditorInv, PlayedInv, Named

LEMMA SwitchesHold ==
  ASSUME EditorInv, CarefulNext
  PROVE  Flags' /\ Numbers' /\ Mode'
<1> USE DEF EditorInv, Idle
<1>1. ASSUME NEW c \in Clicks, Idle, Press(c),
             UNCHANGED down \/ (curDrawmod = "D_Block" /\ down' = TRUE),
             boss_count' \in {0, 1}, P_Start_Loc' \in [0 .. 2 -> Nat]
      PROVE  Flags' /\ Numbers' /\ Mode'
  <2>1. open /\ UNCHANGED <<open, curDrawmod, uploaded>> /\ presses' = presses + 1 /\ start_x' = c
    BY <1>1 DEF Press
  <2>2. c \in Nat BY EditorBounds
  <2>3. Numbers'
    <3>1. presses' \in Nat /\ start_x' \in Nat BY <2>1, <2>2 DEF Numbers
    <3> QED BY <1>1, <3>1 DEF Numbers
  <2>4. CASE UNCHANGED down BY <2>1, <2>3, <2>4, <1>1 DEF Flags, Mode
  <2>5. CASE curDrawmod = "D_Block" /\ down' = TRUE BY <2>1, <2>3, <2>5 DEF Flags, Mode
  <2> QED BY <1>1, <2>4, <2>5
<1>2. ASSUME UNCHANGED <<start_x, boss_count, P_Start_Loc, presses>> PROVE Numbers'
  BY <1>2 DEF Numbers
<1>3. ASSUME NEW c \in Clicks, Idle, LeftDown(c) PROVE Flags' /\ Numbers' /\ Mode'
  <2>1. c \in Nat BY EditorBounds
  <2>2. CASE BeginBlock(c) BY <1>1, <1>3, <2>2 DEF BeginBlock, Numbers
  <2>3. CASE PutBoss(c) BY <1>1, <1>3, <2>3 DEF PutBoss, Numbers
  <2>4. CASE PutPlayer(c) BY <1>1, <1>3, <2>1, <2>4 DEF PutPlayer, Numbers
  <2>5. CASE PutObject(c) BY <1>1, <1>3, <2>5 DEF PutObject, Numbers
  <2>6. CASE PutEnemy(c) BY <1>1, <1>3, <2>6 DEF PutEnemy, Numbers
  <2> QED BY <1>3, <2>2, <2>3, <2>4, <2>5, <2>6 DEF LeftDown
<1>4. ASSUME NEW c \in Clicks, Idle, RightDown(c) PROVE Flags' /\ Numbers' /\ Mode'
  <2>1. CASE TakeBlock(c) BY <1>1, <1>4, <2>1 DEF TakeBlock, Numbers
  <2>2. CASE TakeObject(c) BY <1>1, <1>4, <2>2 DEF TakeObject, Numbers
  <2>3. CASE TakeEnemy(c) BY <1>1, <1>4, <2>3 DEF TakeEnemy, Numbers
  <2>4. CASE TakeBoss(c) BY <1>1, <1>4, <2>4 DEF TakeBoss, Numbers
  <2>5. CASE TakePlayer(c) BY <1>1, <1>4, <2>5 DEF TakePlayer, Numbers
  <2> QED BY <1>4, <2>1, <2>2, <2>3, <2>4, <2>5 DEF RightDown
<1>5. ASSUME NEW c \in Clicks, Draw(c) PROVE Flags' /\ Numbers' /\ Mode'
  <2>1. CASE MouseMove(c) BY <1>2, <1>5, <2>1 DEF MouseMove, mouse, Flags, Mode
  <2>2. CASE ButtonUp(c) BY <1>2, <1>5, <2>2 DEF ButtonUp, Flags, Mode
  <2> QED BY <1>5, <2>1, <2>2 DEF Draw
<1>6. CASE EditButton BY <1>2, <1>6 DEF EditButton, Modes, edited, Flags, Mode
<1>7. CASE UpdateAllPositions BY <1>2, <1>7 DEF UpdateAllPositions, mouse, edited, Flags, Mode
<1>8. CASE Idle /\ KeyQ BY <1>2, <1>8 DEF KeyQ, mouse, edited, Flags, Mode
<1>9. CASE Idle /\ KeyS BY <1>2, <1>9 DEF KeyS, mouse, edited, Flags, Mode
<1>10. ASSUME NEW m \in Modes, Idle, KeyMode(m) PROVE Flags' /\ Numbers' /\ Mode'
  BY <1>2, <1>10 DEF KeyMode, edited, Flags, Mode
<1> QED BY <1>3, <1>4, <1>5, <1>6, <1>7, <1>8, <1>9, <1>10 DEF CarefulNext, Keys

--------------------------------------------------------------------------------
LEMMA BlockAt ==
  ASSUME EditorInv, NEW k \in 1 .. Len(blocks)
  PROVE  /\ blocks[k] \in BlockRecord
         /\ blocks[k].name \in Nat /\ blocks[k].x \in Int /\ blocks[k].name < presses
         /\ blocks[k].x = NoCentre <=> down /\ k = Len(blocks)
<1>1. blocks[k] \in BlockRecord /\ k \in DOMAIN blocks BY DEF EditorInv, BlocksInv
<1>2. blocks[k].name \in Nat BY <1>1 DEF BlockRecord
<1>3. blocks[k].x \in Int BY <1>1 DEF BlockRecord, NoCentre
<1>4. /\ blocks[k].name < presses
      /\ blocks[k].x = NoCentre <=> down /\ k = Len(blocks)
  BY <1>1 DEF EditorInv, BlocksInv
<1> QED BY <1>1, <1>2, <1>3, <1>4

\* An enemy is on its block as long as the names up to it stay in their places.
LEMMA EnemysFollow ==
  ASSUME EditorInv, UNCHANGED enemys, blocks' \in Seq(BlockRecord),
         \A k \in 1 .. Len(blocks) :
           (\E q \in DOMAIN enemys : k = enemys[q].on_block + 1)
             => k <= Len(blocks') /\ blocks'[k].name = blocks[k].name
  PROVE  EnemysInv'
<1>1. ASSUME NEW q \in DOMAIN enemys PROVE Named(enemys[q], blocks')
  <2> DEFINE k == enemys[q].on_block + 1
  <2>1. /\ enemys[q].on_block \in Nat /\ enemys[q].on_block < Len(blocks)
        /\ blocks[k].name = enemys[q].name
    <3>1. enemys[q] \in EnemyRecord /\ Named(enemys[q], blocks) BY DEF EditorInv, EnemysInv
    <3>2. enemys[q].on_block \in Nat BY <3>1 DEF EnemyRecord
    <3> QED BY <3>1, <3>2 DEF Named
  <2>2. k \in 1 .. Len(blocks) BY <2>1 DEF EditorInv, BlocksInv
  <2>3. k <= Len(blocks') /\ blocks'[k].name = blocks[k].name BY <2>2
  <2>4. Len(blocks') \in Nat OBVIOUS
  <2> QED BY <2>1, <2>3, <2>4 DEF Named
<1> QED BY <1>1 DEF EditorInv, EnemysInv

\* A block that begins has the name of the button press, newer than any.
LEMMA BeginBlockStep ==
  ASSUME EditorInv, NEW c \in Clicks, Idle, BeginBlock(c)
  PROVE  BlocksInv' /\ EnemysInv'
<1> DEFINE n == Len(blocks)
           b == Block(presses, c, c, NoCentre)
<1>1. c \in Nat /\ presses \in Nat /\ blocks \in Seq(BlockRecord)
  BY EditorBounds DEF EditorInv, Numbers, BlocksInv
<1>2. b \in BlockRecord /\ b.x = NoCentre /\ b.name = presses
  BY <1>1 DEF Block, BlockRecord, NoCentre
<1>3. blocks' = Append(blocks, b) /\ down' = TRUE /\ presses' = presses + 1 /\ enemys' = enemys
  BY DEF BeginBlock, Press
<1>4. ~down BY DEF Idle
<1> HIDE DEF b
<1>5. /\ blocks' \in Seq(BlockRecord) /\ Len(blocks') = n + 1 /\ blocks'[n + 1] = b
      /\ \A k \in 1 .. n : blocks'[k] = blocks[k]
  BY <1>1, <1>2, <1>3, PutBehind
<1>6. n \in Nat /\ DOMAIN blocks' = 1 .. n + 1 BY <1>1, <1>5
<1> HIDE DEF n
<1>7. ASSUME NEW k \in 1 .. n + 1
      PROVE  /\ blocks'[k].x = NoCentre <=> k = n + 1
             /\ blocks'[k].name \in Nat /\ blocks'[k].name < presses'
  <2>1. CASE k = n + 1 BY <1>1, <1>2, <1>3, <1>5, <2>1
  <2>2. CASE k \in 1 .. n
    <3>1. blocks[k].name \in Nat /\ blocks[k].name < presses /\ blocks[k].x # NoCentre
      BY <1>4, <2>2, BlockAt DEF n
    <3>2. blocks'[k] = blocks[k] /\ k # n + 1 BY <1>5, <1>6, <2>2
    <3> QED BY <1>1, <1>3, <3>1, <3>2
  <2> QED BY <1>6, <2>1, <2>2
<1>8. ASSUME NEW k \in 1 .. n + 1, NEW m \in 1 .. n + 1, k < m
      PROVE  blocks'[k].name < blocks'[m].name
  <2>1. k \in 1 .. n /\ blocks'[k] = blocks[k] BY <1>5, <1>6, <1>8
  <2>2. CASE m = n + 1
    <3>1. blocks[k].name < presses BY <2>1, BlockAt DEF n
    <3> QED BY <1>2, <1>5, <2>1, <2>2, <3>1
  <2>3. CASE m \in 1 .. n
    <3>1. blocks[k].name < blocks[m].name
      BY <1>1, <1>8, <2>1, <2>3 DEF n, EditorInv, BlocksInv
    <3> QED BY <1>5, <2>1, <2>3, <3>1
  <2> QED BY <1>6, <2>2, <2>3
<1>9. BlocksInv'
  <2>1. blocks' # <<>> BY <1>5, <1>6
  <2>2. \A k \in DOMAIN blocks' : blocks'[k].x = NoCentre <=> down' /\ k = Len(blocks')
    BY <1>3, <1>5, <1>6, <1>7
  <2> QED BY <1>5, <1>6, <1>7, <1>8, <2>1, <2>2 DEF BlocksInv
<1>10. EnemysInv'
  <2>1. ASSUME NEW k \in 1 .. n PROVE k <= Len(blocks') /\ blocks'[k].name = blocks[k].name
    BY <1>5, <1>6
  <2> QED BY <1>3, <1>5, <2>1, EnemysFollow DEF n
<1> QED BY <1>9, <1>10

\* Only the last block is drawn, and its name stays.
LEMMA DrawStep ==
  ASSUME EditorInv, NEW c \in Clicks, Draw(c)
  PROVE  /\ BlocksInv' /\ EnemysInv'
         /\ Len(blocks') = Len(blocks)
         /\ \A k \in 1 .. Len(blocks) : blocks[k].x # NoCentre => blocks'[k] = blocks[k]
<1> DEFINE n == Len(blocks)
<1>1. /\ c \in Nat /\ start_x \in Nat /\ presses \in Nat /\ down
      /\ blocks \in Seq(BlockRecord) /\ blocks # <<>>
  BY EditorBounds DEF EditorInv, Numbers, BlocksInv, Draw
<1>2. n \in Nat /\ n \in 1 .. n /\ DOMAIN blocks = 1 .. n BY <1>1
<1>3. blocks[n] \in BlockRecord /\ blocks[n].name \in Nat /\ blocks[n].x = NoCentre
  BY <1>1, <1>2, BlockAt
<1>4. PICK d \in BlockRecord :
        /\ blocks' = Drawn(d) /\ d.name = blocks[n].name
        /\ d.x = NoCentre <=> down'
        /\ presses' = presses /\ enemys' = enemys
  <2>1. CASE MouseMove(c)
    <3> DEFINE d == [blocks[n] EXCEPT !.left = start_x, !.right = c]
    <3>1. d \in BlockRecord /\ d.name = blocks[n].name /\ d.x = blocks[n].x
      BY <1>1, <1>3 DEF BlockRecord
    <3>2. blocks' = Drawn(d) /\ UNCHANGED <<down, presses, enemys>>
      BY <2>1 DEF MouseMove, mouse
    <3> QED BY <1>1, <1>3, <3>1, <3>2
  <2>2. CASE ButtonUp(c)
    <3> DEFINE d == Block(blocks[n].name, start_x, c, Centre(start_x, c))
    <3>1. Centre(start_x, c) \in Nat BY <1>1, CentreType
    <3>2. d \in BlockRecord /\ d.name = blocks[n].name /\ d.x # NoCentre
      BY <1>1, <1>3, <3>1 DEF Block, BlockRecord, NoCentre
    <3>3. blocks' = Drawn(d) /\ down' = FALSE /\ UNCHANGED <<presses, enemys>>
      BY <2>2 DEF ButtonUp
    <3> QED BY <3>2, <3>3
  <2> QED BY <2>1, <2>2 DEF Draw
<1>5. /\ blocks' \in Seq(BlockRecord) /\ Len(blocks') = n
      /\ \A k \in 1 .. n : blocks'[k] = IF k = n THEN d ELSE blocks[k]
  BY <1>1, <1>2, <1>4, PutIn DEF Drawn
<1>6. DOMAIN blocks' = 1 .. n BY <1>5
<1>7. \A k \in 1 .. n : blocks'[k].name = blocks[k].name BY <1>4, <1>5
<1> HIDE DEF n
<1>8. \A k \in DOMAIN blocks' : blocks'[k].x = NoCentre <=> down' /\ k = Len(blocks')
  <2>1. ASSUME NEW k \in 1 .. n, k # n PROVE blocks'[k].x # NoCentre
    <3>1. blocks[k].x # NoCentre BY <2>1, BlockAt DEF n
    <3> QED BY <1>5, <2>1, <3>1
  <2> QED BY <1>2, <1>4, <1>5, <1>6, <2>1
<1>9. \A k \in DOMAIN blocks' : blocks'[k].name < presses'
  BY <1>4, <1>6, <1>7, BlockAt DEF n
<1>10. \A k, m \in DOMAIN blocks' : k < m => blocks'[k].name < blocks'[m].name
  BY <1>2, <1>6, <1>7 DEF EditorInv, BlocksInv
<1>11. BlocksInv'
  <2>1. blocks' # <<>> BY <1>2, <1>5
  <2> QED BY <1>5, <1>8, <1>9, <1>10, <2>1 DEF BlocksInv
<1>12. EnemysInv'
  <2>1. \A k \in 1 .. Len(blocks) : k <= Len(blocks') /\ blocks'[k].name = blocks[k].name
    <3>1. Len(blocks') = n BY <1>5
    <3>2. \A k \in 1 .. n : k <= n BY <1>2
    <3> QED BY <3>1, <3>2, <1>7 DEF n
  <2>2. UNCHANGED enemys /\ blocks' \in Seq(BlockRecord) BY <1>4, <1>5
  <2> HIDE DEF n
  <2> QED BY <2>1, <2>2, EnemysFollow
<1>13. \A k \in 1 .. n : blocks[k].x # NoCentre => blocks'[k] = blocks[k] BY <1>3, <1>5
<1> QED BY <1>5, <1>11, <1>12, <1>13 DEF n

\* A block is taken out behind the block of every enemy.
LEMMA TakeBlockStep ==
  ASSUME EditorInv, NEW c \in Clicks, Idle, Careful(c), TakeBlock(c)
  PROVE  /\ BlocksInv' /\ EnemysInv'
         /\ blocks' = blocks \/ \E r \in 1 .. Len(blocks) :
              /\ Len(blocks') = Len(blocks) - 1
              /\ \A k \in 1 .. Len(blocks') : blocks'[k] = IF k < r THEN blocks[k] ELSE blocks[k + 1]
<1> DEFINE n == Len(blocks)
           r == NearestOf(blocks, c)
<1>1. c \in Int /\ presses \in Nat /\ ~down /\ blocks \in Seq(BlockRecord)
  BY EditorBounds DEF EditorInv, Numbers, BlocksInv, Idle
<1>2. UNCHANGED <<down, enemys>> /\ presses' = presses + 1 /\ blocks' = TakenOut(blocks, c)
  BY DEF TakeBlock, Press
<1>3. CASE blocks = <<>>
  <2>1. blocks' = blocks BY <1>2, <1>3 DEF TakenOut
  <2> QED BY <1>1, <1>2, <2>1, BlocksStay, EnemysStay
<1>4. CASE blocks # <<>>
  <2>1. \A t \in BlockRecord : t.x \in Int BY DEF BlockRecord, NoCentre
  <2>2. r \in 0 .. n - 1 BY <1>1, <1>4, <2>1, NearestThing
  <2>3. blocks' = Without(blocks, r) BY <1>2, <1>4 DEF TakenOut
  <2> HIDE DEF r
  <2>4. /\ blocks' \in Seq(BlockRecord) /\ Len(blocks') = n - 1
        /\ \A k \in 1 .. n - 1 : blocks'[k] = IF k <= r THEN blocks[k] ELSE blocks[k + 1]
    BY <1>1, <2>2, <2>3, TakenAway
  <2>5. n \in Nat /\ DOMAIN blocks = 1 .. n /\ DOMAIN blocks' = 1 .. n - 1 BY <1>1, <2>4
  <2> HIDE DEF n
  <2>6. ASSUME NEW k \in 1 .. n PROVE blocks[k].x # NoCentre /\ blocks[k].name < presses /\ blocks[k].name \in Nat
    BY <1>1, <2>6, BlockAt DEF n
  <2>7. \A k \in DOMAIN blocks' : blocks'[k].x = NoCentre <=> down' /\ k = Len(blocks')
    BY <1>1, <1>2, <2>2, <2>4, <2>5, <2>6
  <2>8. ASSUME NEW k \in 1 .. n - 1 PROVE blocks'[k].name < presses'
    <3>1. blocks'[k] = blocks[k] \/ blocks'[k] = blocks[k + 1] BY <2>4
    <3>2. k \in 1 .. n /\ k + 1 \in 1 .. n BY <2>5
    <3> QED BY <1>1, <1>2, <2>6, <3>1, <3>2
  <2>9. ASSUME NEW k \in 1 .. n - 1, NEW m \in 1 .. n - 1, k < m
        PROVE  blocks'[k].name < blocks'[m].name
    <3> DEFINE p == IF k <= r THEN k ELSE k + 1
               q == IF m <= r THEN m ELSE m + 1
    <3>1. p \in 1 .. n /\ q \in 1 .. n /\ p < q BY <2>2, <2>5, <2>9
    <3>2. blocks'[k] = blocks[p] /\ blocks'[m] = blocks[q] BY <2>4
    <3> HIDE DEF p, q
    <3>3. blocks[p].name < blocks[q].name BY <2>5, <3>1 DEF EditorInv, BlocksInv
    <3> QED BY <3>2, <3>3
  <2>10. BlocksInv' BY <1>1, <1>2, <2>4, <2>5, <2>7, <2>8, <2>9 DEF BlocksInv
  <2>11. EnemysInv'
    <3>1. ASSUME NEW k \in 1 .. n, NEW q \in DOMAIN enemys, k = enemys[q].on_block + 1
          PROVE  k <= Len(blocks') /\ blocks'[k].name = blocks[k].name
      <4>1. enemys[q] \in Range(enemys) BY DEF Range
      <4>2. enemys[q].on_block < r BY <1>4, <4>1 DEF Careful, r
      <4>3. enemys[q].on_block \in Nat
        <5>1. enemys[q] \in EnemyRecord BY DEF EditorInv, EnemysInv
        <5> QED BY <5>1 DEF EnemyRecord
      <4>4. k <= r /\ k \in 1 .. n - 1 BY <2>2, <2>5, <3>1, <4>2, <4>3
      <4> QED BY <2>4, <2>5, <4>4
    <3> QED BY <1>2, <2>4, <3>1, EnemysFollow DEF n
  <2>12. r + 1 \in 1 .. n /\ \A k \in 1 .. n - 1 : k <= r <=> k < r + 1 BY <2>2, <2>5
  <2> QED BY <2>4, <2>10, <2>11, <2>12 DEF n
<1> QED BY <1>3, <1>4

\* A new enemy is on the block nearest to the click.
LEMMA PutEnemyStep ==
  ASSUME EditorInv, NEW c \in Clicks, blocks # <<>>, PutEnemy(c)
  PROVE  EnemysInv'
<1> DEFINE b == NearestOf(blocks, c)
           e == Make_Enemy(c, b)
<1>1. /\ c \in Nat /\ blocks \in Seq(BlockRecord) /\ enemys \in Seq(EnemyRecord)
      /\ \A k \in DOMAIN enemys : Named(enemys[k], blocks)
  BY EditorBounds DEF EditorInv, BlocksInv, EnemysInv
<1>2. UNCHANGED blocks /\ enemys' = Append(enemys, e) BY DEF PutEnemy
<1>3. b \in 0 .. Len(blocks) - 1 /\ b + 1 \in 1 .. Len(blocks)
  <2>1. \A t \in BlockRecord : t.x \in Int BY DEF BlockRecord, NoCentre
  <2> QED BY <1>1, <2>1, NearestThing
<1> HIDE DEF b
<1>4. blocks[b + 1].name \in Nat BY <1>3, BlockAt
<1>5. e \in EnemyRecord /\ Named(e, blocks)
  <2>1. e \in EnemyRecord BY <1>1, <1>3, <1>4 DEF Make_Enemy, EnemyRecord
  <2>2. e.on_block = b /\ e.name = blocks[b + 1].name BY DEF Make_Enemy
  <2>3. Len(blocks) \in Nat BY <1>1
  <2> QED BY <1>3, <2>1, <2>2, <2>3 DEF Named
<1> HIDE DEF e
<1>6. /\ enemys' \in Seq(EnemyRecord) /\ Len(enemys') = Len(enemys) + 1
      /\ enemys'[Len(enemys) + 1] = e
      /\ \A k \in 1 .. Len(enemys) : enemys'[k] = enemys[k]
  BY <1>1, <1>2, <1>5, PutBehind
<1>7. ASSUME NEW k \in DOMAIN enemys' PROVE Named(enemys'[k], blocks')
  <2>1. k = Len(enemys) + 1 \/ k \in 1 .. Len(enemys) BY <1>1, <1>6
  <2>2. k \in 1 .. Len(enemys) => Named(enemys[k], blocks) BY <1>1
  <2> QED BY <1>2, <1>5, <1>6, <2>1, <2>2
<1> QED BY <1>6, <1>7 DEF EnemysInv

\* What is taken out leaves the others as they are.
LEMMA ThingTaken ==
  ASSUME NEW S, NEW s \in Seq(S), \A t \in S : t.x \in Int, NEW c \in Int
  PROVE  /\ TakenOut(s, c) \in Seq(S)
         /\ \A k \in DOMAIN TakenOut(s, c) : \E m \in DOMAIN s : TakenOut(s, c)[k] = s[m]
<1> DEFINE t == TakenOut(s, c)
<1>1. CASE s = <<>> BY <1>1 DEF TakenOut
<1>2. CASE s # <<>>
  <2>1. PICK k \in 0 .. Len(s) - 1 : t = Without(s, k)
    BY <1>2, NearestThing DEF TakenOut
  <2> HIDE DEF t
  <2>2. /\ t \in Seq(S) /\ Len(t) = Len(s) - 1
        /\ \A n \in 1 .. Len(s) - 1 : t[n] = IF n <= k THEN s[n] ELSE s[n + 1]
    BY <2>1, TakenAway
  <2>3. ASSUME NEW n \in DOMAIN t PROVE \E m \in DOMAIN s : t[n] = s[m]
    <3>1. n \in 1 .. Len(s) - 1 /\ n \in DOMAIN s /\ n + 1 \in DOMAIN s BY <2>2
    <3> QED BY <2>2, <3>1
  <2> QED BY <2>2, <2>3 DEF t
<1> QED BY <1>1, <1>2

LEMMA TakeEnemyStep ==
  ASSUME EditorInv, NEW c \in Clicks, TakeEnemy(c)
  PROVE  EnemysInv'
<1>1. /\ c \in Int /\ enemys \in Seq(EnemyRecord)
      /\ \A k \in DOMAIN enemys : Named(enemys[k], blocks)
  BY EditorBounds DEF EditorInv, EnemysInv
<1>2. UNCHANGED blocks /\ enemys' = TakenOut(enemys, c) BY DEF TakeEnemy
<1>3. \A t \in EnemyRecord : t.x \in Int BY DEF EnemyRecord
<1>4. /\ enemys' \in Seq(EnemyRecord)
      /\ \A k \in DOMAIN enemys' : \E m \in DOMAIN enemys : enemys'[k] = enemys[m]
  BY <1>1, <1>2, <1>3, ThingTaken
<1>5. \A k \in DOMAIN enemys' : Named(enemys'[k], blocks') BY <1>1, <1>2, <1>4
<1> QED BY <1>4, <1>5 DEF EnemysInv

LEMMA ObjectsStep ==
  ASSUME EditorInv, NEW c \in Clicks, PutObject(c) \/ TakeObject(c)
  PROVE  objects' \in Seq(ObjectRecord)
<1>1. c \in Nat /\ objects \in Seq(ObjectRecord) BY EditorBounds DEF EditorInv
<1>2. CASE PutObject(c)
  <2>1. [x |-> c, obj_type |-> curDrawmod] \in ObjectRecord
    BY <1>1, <1>2 DEF PutObject, ObjectRecord
  <2> QED BY <1>1, <1>2, <2>1, PutBehind DEF PutObject
<1>3. CASE TakeObject(c)
  <2>1. \A t \in ObjectRecord : t.x \in Int BY DEF ObjectRecord
  <2> QED BY <1>1, <1>3, <2>1, ThingTaken DEF TakeObject
<1> QED BY <1>2, <1>3

\* An enemy walks, and keeps its block.
LEMMA WalkKeeps ==
  ASSUME NEW e \in EnemyRecord, NEW b
  PROVE  LET m == Move_Enemy(e, b) IN
         m \in EnemyRecord /\ m.on_block = e.on_block /\ m.name = e.name
<1> DEFINE d == IF AtEdge(e, b) THEN Flip(e.direction) ELSE e.direction
           y == IF e.direction = "LEFT" THEN e.x - Speed ELSE e.x + Speed
<1>1. Move_Enemy(e, b) = [e EXCEPT !.direction = d, !.x = y] BY DEF Move_Enemy, EnemyRecord
<1>2. d \in {"LEFT", "RIGHT"} BY DEF EnemyRecord, Flip
<1>3. y \in Int BY SizeAssumption DEF EnemyRecord
<1> HIDE DEF d, y
<1> QED BY <1>1, <1>2, <1>3 DEF EnemyRecord

LEMMA WalkStep ==
  ASSUME EditorInv, UpdateAllPositions
  PROVE  PlayedInv'
<1> DEFINE s == played.enemys
           Moved(n) == Move_Enemy(s[n], played.blocks[s[n].on_block + 1])
           t == [n \in DOMAIN s |-> Moved(n)]
<1>1. /\ played \in [blocks : Seq(BlockRecord), enemys : Seq(EnemyRecord)]
      /\ \A k \in DOMAIN s : Named(s[k], played.blocks)
  BY DEF EditorInv, PlayedInv
<1>2. s \in Seq(EnemyRecord) BY <1>1
<1>3. played' = [played EXCEPT !.enemys = t] BY DEF UpdateAllPositions
<1> HIDE DEF s
<1>4. ASSUME NEW n \in DOMAIN s
      PROVE  Moved(n) \in EnemyRecord /\ Moved(n).on_block = s[n].on_block /\ Moved(n).name = s[n].name
  <2>1. s[n] \in EnemyRecord BY <1>2, <1>4
  <2> QED BY <2>1, WalkKeeps
<1>5. t \in Seq(EnemyRecord) /\ Len(t) = Len(s) /\ DOMAIN t = DOMAIN s
  <2>1. DOMAIN s = 1 .. Len(s) /\ Len(s) \in Nat BY <1>2
  <2>2. t \in [1 .. Len(s) -> EnemyRecord] BY <1>4, <2>1
  <2> HIDE DEF t
  <2> QED BY <2>1, <2>2, IsASeq
<1>6. \A n \in DOMAIN s : t[n].on_block = s[n].on_block /\ t[n].name = s[n].name BY <1>4
<1> HIDE DEF t
<1>7. /\ played' \in [blocks : Seq(BlockRecord), enemys : Seq(EnemyRecord)]
      /\ played'.enemys = t /\ played'.blocks = played.blocks
  BY <1>1, <1>3, <1>5
<1>8. \A k \in DOMAIN played'.enemys : Named(played'.enemys[k], played'.blocks)
  <2>1. ASSUME NEW k \in DOMAIN s PROVE Named(t[k], played.blocks)
    <3>1. Named(s[k], played.blocks) BY <1>1
    <3>2. t[k].on_block = s[k].on_block /\ t[k].name = s[k].name BY <1>6
    <3> QED BY <3>1, <3>2 DEF Named
  <2> QED BY <1>5, <1>7, <2>1
<1> QED BY <1>7, <1>8 DEF PlayedInv

\* What is uploaded is what was drawn.
LEMMA UploadStep ==
  ASSUME EditorInv, KeyS
  PROVE  PlayedInv'
<1>1. /\ blocks \in Seq(BlockRecord) /\ enemys \in Seq(EnemyRecord)
      /\ \A k \in DOMAIN enemys : Named(enemys[k], blocks)
  BY DEF EditorInv, BlocksInv, EnemysInv
<1>2. played' = [blocks |-> blocks, enemys |-> enemys] BY DEF KeyS
<1> QED BY <1>1, <1>2 DEF PlayedInv

LEMMA CarefulStep ==
  ASSUME EditorInv, CarefulNext
  PROVE  EditorInv'
<1>1. Flags' /\ Numbers' /\ Mode' BY SwitchesHold
<1>2. objects \in Seq(ObjectRecord) /\ presses \in Nat /\ presses + 1 \in Nat /\ presses + 1 >= presses
  BY DEF EditorInv, Numbers
<1> DEFINE Rest == BlocksInv' /\ objects' \in Seq(ObjectRecord) /\ EnemysInv' /\ PlayedInv'
<1>3. ASSUME UNCHANGED <<blocks, down, objects, enemys>>, presses' \in {presses, presses + 1},
             PlayedInv'
      PROVE  Rest
  BY <1>2, <1>3, BlocksStay, EnemysStay
<1>4. ASSUME NEW c \in Clicks, Press(c)
      PROVE  presses' = presses + 1 /\ UNCHANGED played
  BY <1>4 DEF Press
<1>5. ASSUME NEW c \in Clicks, Idle, LeftDown(c) PROVE Rest
  <2>1. CASE BeginBlock(c)
    <3>1. UNCHANGED <<objects, played>> BY <1>4, <2>1 DEF BeginBlock
    <3> QED BY <1>2, <1>5, <2>1, <3>1, BeginBlockStep, PlayedStay
  <2>2. CASE PutBoss(c) \/ PutPlayer(c)
    BY <1>3, <1>4, <2>2, PlayedStay DEF PutBoss, PutPlayer
  <2>3. CASE blocks # <<>> /\ PutObject(c)
    <3>1. UNCHANGED <<blocks, down, enemys, played>> /\ presses' = presses + 1
      BY <1>4, <2>3 DEF PutObject
    <3> QED BY <1>2, <2>3, <3>1, ObjectsStep, BlocksStay, EnemysStay, PlayedStay
  <2>4. CASE blocks # <<>> /\ PutEnemy(c)
    <3>1. UNCHANGED <<blocks, down, objects, played>> /\ presses' = presses + 1
      BY <1>4, <2>4 DEF PutEnemy
    <3> QED BY <1>2, <2>4, <3>1, PutEnemyStep, BlocksStay, PlayedStay
  <2> QED BY <1>5, <2>1, <2>2, <2>3, <2>4 DEF LeftDown
<1>6. ASSUME NEW c \in Clicks, Idle, RightDown(c) PROVE Rest
  <2>1. CASE Careful(c) /\ TakeBlock(c)
    <3>1. UNCHANGED <<objects, played>> BY <1>4, <2>1 DEF TakeBlock
    <3> QED BY <1>2, <1>6, <2>1, <3>1, TakeBlockStep, PlayedStay
  <2>2. CASE TakeBoss(c) \/ TakePlayer(c)
    BY <1>3, <1>4, <2>2, PlayedStay DEF TakeBoss, TakePlayer
  <2>3. CASE TakeObject(c)
    <3>1. UNCHANGED <<blocks, down, enemys, played>> /\ presses' = presses + 1
      BY <1>4, <2>3 DEF TakeObject
    <3> QED BY <1>2, <2>3, <3>1, ObjectsStep, BlocksStay, EnemysStay, PlayedStay
  <2>4. CASE TakeEnemy(c)
    <3>1. UNCHANGED <<blocks, down, objects, played>> /\ presses' = presses + 1
      BY <1>4, <2>4 DEF TakeEnemy
    <3> QED BY <1>2, <2>4, <3>1, TakeEnemyStep, BlocksStay, PlayedStay
  <2> QED BY <1>6, <2>1, <2>2, <2>3, <2>4 DEF RightDown
<1>7. ASSUME NEW c \in Clicks, Draw(c) PROVE Rest
  <2>1. UNCHANGED <<objects, played>> BY <1>7 DEF Draw, MouseMove, ButtonUp
  <2> QED BY <1>2, <1>7, <2>1, DrawStep, PlayedStay
<1>8. ASSUME EditButton PROVE Rest
  <2>1. UNCHANGED <<blocks, down, objects, enemys, presses, played>>
    BY <1>8 DEF EditButton, edited, EditorInv, Mode, Flags
  <2> QED BY <1>3, <2>1, PlayedStay
<1>9. ASSUME UpdateAllPositions PROVE Rest
  BY <1>3, <1>9, WalkStep DEF UpdateAllPositions, mouse, edited
<1>10. ASSUME KeyQ PROVE Rest
  BY <1>3, <1>10, PlayedStay DEF KeyQ, mouse, edited
<1>11. ASSUME KeyS PROVE Rest
  BY <1>3, <1>11, UploadStep DEF KeyS, mouse, edited
<1>12. ASSUME NEW m \in Modes, KeyMode(m) PROVE Rest
  BY <1>3, <1>12, PlayedStay DEF KeyMode, edited
<1>13. Rest BY <1>5, <1>6, <1>7, <1>8, <1>9, <1>10, <1>11, <1>12 DEF CarefulNext, Keys
<1> QED BY <1>1, <1>13 DEF EditorInv

LEMMA EditorInvHolds == CarefulSpec => []EditorInv
<1>1. Init => EditorInv BY InitInv
<1>2. EditorInv /\ [CarefulNext]_vars => EditorInv'
  <2>1. ASSUME EditorInv, UNCHANGED vars PROVE EditorInv'
    <3>1. UNCHANGED <<open, curDrawmod, down, uploaded>> BY <2>1 DEF vars, mouse
    <3>2. UNCHANGED <<start_x, boss_count, P_Start_Loc, presses>>
      BY <2>1 DEF vars, mouse, edited
    <3>3. UNCHANGED <<blocks, objects, enemys, played>> BY <2>1 DEF vars, edited
    <3>4. Flags' /\ Mode' BY <2>1, <3>1 DEF EditorInv, Flags, Mode
    <3>5. Numbers' BY <2>1, <3>2 DEF EditorInv, Numbers
    <3>6. BlocksInv'
      <4>1. presses \in Nat BY <2>1 DEF EditorInv, Numbers
      <4>2. presses' \in Nat /\ presses' >= presses BY <3>2, <4>1
      <4> QED BY <2>1, <3>1, <3>3, <4>2, BlocksStay
    <3>7. EnemysInv' /\ PlayedInv' BY <2>1, <3>3, EnemysStay, PlayedStay
    <3>8. objects' \in Seq(ObjectRecord) BY <2>1, <3>3 DEF EditorInv
    <3> QED BY <3>4, <3>5, <3>6, <3>7, <3>8 DEF EditorInv
  <2> QED BY <2>1, CarefulStep
<1> QED BY <1>1, <1>2, PTL DEF CarefulSpec

\* The variables have their types, and only the block being drawn is without a centre.
THEOREM TypesHold == CarefulSpec => []TypeOK
<1>1. EditorInv => TypeOK
  BY DEF EditorInv, Flags, Numbers, Mode, BlocksInv, EnemysInv, PlayedInv, TypeOK
<1> QED BY <1>1, EditorInvHolds, PTL

\* search_near and search_near_Block find what nothing is nearer than, on any map.
THEOREM NearestHolds == CarefulSpec => []NearestIsNearest
<1>1. EditorInv => NearestIsNearest
  <2>1. ASSUME NEW S, NEW things \in Seq(S), \A t \in S : t.x \in Int, things # <<>>,
               NEW c \in Clicks, NEW t \in Range(things)
        PROVE  Length(c, things[NearestOf(things, c) + 1].x) <= Length(c, t.x)
    <3>1. c \in Int BY EditorBounds
    <3>2. PICK m \in 1 .. Len(things) : t = things[m] BY DEF Range
    <3> QED BY <2>1, <3>1, <3>2, NearestThing
  <2>2. SUFFICES ASSUME EditorInv, NEW c \in Clicks, NEW things \in {blocks, enemys, objects},
                        things # <<>>, NEW t \in Range(things)
                 PROVE  Length(c, things[NearestOf(things, c) + 1].x) <= Length(c, t.x)
    BY DEF NearestIsNearest
  <2>3. CASE things = blocks
    <3>1. \A b \in BlockRecord : b.x \in Int BY DEF BlockRecord, NoCentre
    <3>2. blocks \in Seq(BlockRecord) BY <2>2 DEF EditorInv, BlocksInv
    <3> QED BY <2>1, <2>2, <2>3, <3>1, <3>2
  <2>4. CASE things = enemys
    <3>1. \A e \in EnemyRecord : e.x \in Int BY DEF EnemyRecord
    <3>2. enemys \in Seq(EnemyRecord) BY <2>2 DEF EditorInv, EnemysInv
    <3> QED BY <2>1, <2>2, <2>4, <3>1, <3>2
  <2>5. CASE things = objects
    <3>1. \A o \in ObjectRecord : o.x \in Int BY DEF ObjectRecord
    <3>2. objects \in Seq(ObjectRecord) BY <2>2 DEF EditorInv
    <3> QED BY <2>1, <2>2, <2>5, <3>1, <3>2
  <2> QED BY <2>3, <2>4, <2>5
<1> QED BY <1>1, EditorInvHolds, PTL

\* The index an enemy keeps goes on naming the block it was put on, in the
\* editor and in the game, as long as the user is careful.
THEOREM OnBlockHolds == CarefulSpec => []EnemyOnItsBlock
<1>1. EditorInv => EnemyOnItsBlock
  BY DEF EditorInv, EnemysInv, PlayedInv, EnemyOnItsBlock, Range, Named
<1> QED BY <1>1, EditorInvHolds, PTL

\* No button and no key changes or loses a block that has been drawn but the one
\* that is taken out, and no other block has that one's name.
THEOREM FinishedHolds == CarefulSpec => FinishedStay
<1> DEFINE Kept(b) == b \in Range(blocks') \/ \A d \in Range(blocks') : d.name # b.name
           Stay == \A b \in Range(blocks) : b.x # NoCentre => Kept(b)
<1>1. ASSUME EditorInv, CarefulNext PROVE Stay
  <2>1. SUFFICES ASSUME NEW k \in 1 .. Len(blocks), blocks[k].x # NoCentre
                 PROVE  Kept(blocks[k])
    BY <1>1 DEF Range, EditorInv, BlocksInv
  <2>2. blocks \in Seq(BlockRecord) /\ blocks' \in Seq(BlockRecord)
    BY <1>1, CarefulStep DEF EditorInv, BlocksInv
  <2>3. ASSUME NEW m \in 1 .. Len(blocks'), blocks'[m] = blocks[k] PROVE Kept(blocks[k])
    BY <2>2, <2>3 DEF Range
  <2>4. ASSUME UNCHANGED blocks PROVE Kept(blocks[k]) BY <2>3, <2>4
  <2>5. ASSUME NEW c \in Clicks, BeginBlock(c) PROVE Kept(blocks[k])
    <3> DEFINE b == Block(presses, c, c, NoCentre)
    <3>1. c \in Nat /\ presses \in Nat BY <1>1, EditorBounds DEF EditorInv, Numbers
    <3>2. b \in BlockRecord BY <3>1 DEF Block, BlockRecord
    <3>3. blocks' = Append(blocks, b) BY <2>5 DEF BeginBlock
    <3> HIDE DEF b
    <3>4. Len(blocks') = Len(blocks) + 1 /\ blocks'[k] = blocks[k]
      BY <2>2, <3>2, <3>3, PutBehind
    <3>5. k \in 1 .. Len(blocks') BY <2>2, <3>4
    <3> QED BY <2>3, <3>4, <3>5
  <2>6. ASSUME NEW c \in Clicks, Draw(c) PROVE Kept(blocks[k])
    <3>1. Len(blocks') = Len(blocks) /\ blocks'[k] = blocks[k] BY <1>1, <2>1, <2>6, DrawStep
    <3> QED BY <2>3, <3>1
  <2>7. ASSUME NEW c \in Clicks, Idle, Careful(c), TakeBlock(c) PROVE Kept(blocks[k])
    <3>1. CASE blocks' = blocks BY <2>4, <3>1
    <3>2. CASE blocks' # blocks
      <4>1. PICK r \in 1 .. Len(blocks) :
              /\ Len(blocks') = Len(blocks) - 1
              /\ \A m \in 1 .. Len(blocks') :
                   blocks'[m] = IF m < r THEN blocks[m] ELSE blocks[m + 1]
        BY <1>1, <2>7, <3>2, TakeBlockStep
      <4>2. CASE k < r
        <5>1. k \in 1 .. Len(blocks') BY <2>2, <4>1, <4>2
        <5> QED BY <2>3, <4>1, <4>2, <5>1
      <4>3. CASE k > r
        <5>1. k - 1 \in 1 .. Len(blocks') /\ ~(k - 1 < r) /\ (k - 1) + 1 = k
          BY <2>2, <4>1, <4>3
        <5>2. blocks'[k - 1] = blocks[k] BY <4>1, <5>1
        <5> QED BY <2>3, <5>1, <5>2
      <4>4. CASE k = r
        <5>1. ASSUME NEW m \in 1 .. Len(blocks') PROVE blocks'[m].name # blocks[k].name
          <6> DEFINE q == IF m < r THEN m ELSE m + 1
          <6>1. q \in 1 .. Len(blocks) /\ (q < k \/ k < q) BY <2>2, <4>1, <4>4
          <6>2. blocks'[m] = blocks[q] BY <4>1
          <6> HIDE DEF q
          <6>3. blocks[q].name \in Nat /\ blocks[k].name \in Nat BY <1>1, <6>1, BlockAt
          <6>4. blocks[q].name # blocks[k].name
            <7>1. \A p, u \in DOMAIN blocks : p < u => blocks[p].name < blocks[u].name
              BY <1>1 DEF EditorInv, BlocksInv
            <7>2. q \in DOMAIN blocks /\ k \in DOMAIN blocks BY <2>2, <6>1
            <7>3. CASE q < k
              <8>1. blocks[q].name < blocks[k].name BY <7>1, <7>2, <7>3
              <8> QED BY <6>3, <8>1
            <7>4. CASE k < q
              <8>1. blocks[k].name < blocks[q].name BY <7>1, <7>2, <7>4
              <8> QED BY <6>3, <8>1
            <7> QED BY <6>1, <7>3, <7>4
          <6> QED BY <6>2, <6>4
        <5> QED BY <2>2, <5>1 DEF Range
      <4> QED BY <4>2, <4>3, <4>4
    <3> QED BY <3>1, <3>2
  <2>8. ASSUME NEW c \in Clicks, Idle, LeftDown(c) PROVE Kept(blocks[k])
    BY <2>4, <2>5, <2>8 DEF LeftDown, PutBoss, PutPlayer, PutObject, PutEnemy
  <2>9. ASSUME NEW c \in Clicks, Idle, RightDown(c) PROVE Kept(blocks[k])
    BY <2>4, <2>7, <2>9 DEF RightDown, TakeObject, TakeEnemy, TakeBoss, TakePlayer
  <2>10. EditButton \/ UpdateAllPositions \/ Keys => UNCHANGED blocks
    BY DEF EditButton, UpdateAllPositions, Keys, KeyQ, KeyS, KeyMode, edited
  <2> QED BY <1>1, <2>4, <2>6, <2>8, <2>9, <2>10 DEF CarefulNext
<1>2. EditorInv /\ [CarefulNext]_vars => [Stay]_vars BY <1>1
<1> QED BY <1>2, EditorInvHolds, PTL DEF CarefulSpec, FinishedStay
================================================================================

----------------------------- MODULE MCPlayerRelay -----------------------------
EXTENDS PlayerRelay
Coordinates == {0, 1}
StartPlace == <<0, 0>>
Corners == {<<0, 0>>, <<1, 1>>}
EnemyPlaces == {<<1, 1>>}
================================================================================

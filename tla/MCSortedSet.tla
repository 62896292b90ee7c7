------------------------------ MODULE MCSortedSet ------------------------------
(* Instances of Geo and SortedSet for TLC. *)
EXTENDS Geo

\* Members 1 and 3 collide in every bucket array, 4 with them in one of two
\* buckets, and all of them in the smallest.
HashOf == [m \in Members |-> CASE m = 2 -> 1 [] m = 4 -> 2 [] OTHER -> 0]

\* A score that no position has, and codes of the points below.
SomeScores == {-1, 8, 15}

\* The upper corner of the map, a point inside and one outside.
Places == {<<8, 4>>, <<1, -3>>, <<9, 0>>}
South == -4
West  == -8

Positions == {-2, -1, 0, 1, 5}

\* No step depends on the last command or its reply.
SetView == <<type, zset>>

===============================================================================

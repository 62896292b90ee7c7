---------------------------------- MODULE Geo ----------------------------------
(***************************************************************************)
(* The geo commands of cmd_zset.c: positions are quantised to cells of a   *)
(* map, the bits of the two cell numbers interleaved to a code, and the    *)
(* code kept as the score of the member (geo.c).                           *)
(*                                                                         *)
(* Coordinates are integers.  A decoded position is in units of            *)
(* 1 / (2 * GEO_CELLS), in which the centres of cells are integers too.    *)
(***************************************************************************)
EXTENDS SortedSet

CONSTANTS GEO_BITS,                   \* 26 in the code
          LAT_MIN, LAT_MAX, LNG_MIN, LNG_MAX,
          Points                      \* arguments of GEOADD: <<lng, lat>>

GEO_CELLS == 2 ^ GEO_BITS

ASSUME GeoAssumption ==
  /\ LAT_MIN \in Int /\ LAT_MAX \in Int /\ LAT_MIN < LAT_MAX
  /\ LNG_MIN \in Int /\ LNG_MAX \in Int /\ LNG_MIN < LNG_MAX
  /\ Points \subseteq Int \X Int

-------------------------------------------------------------------------------
(* geo.c *)

geo_valid(lat, lng) == lat \in LAT_MIN .. LAT_MAX /\ lng \in LNG_MIN .. LNG_MAX

Bit(n, i) == (n \div 2 ^ i) % 2

\* The number with the bits b(0), ..., b(n - 1).
FromBits(b, n) == LET sum[i \in 0 .. n] == IF i = 0 THEN 0 ELSE sum[i - 1] + b[i - 1] * 2 ^ (i - 1)
                  IN  sum[n]

\* Latitude in the even positions, longitude in the odd ones.
interleave(lat, lng) ==
  FromBits([i \in 0 .. 2 * GEO_BITS - 1 |-> Bit(IF i % 2 = 0 THEN lat ELSE lng, i \div 2)], 2 * GEO_BITS)

\* [lat, lng]; bits above the code are not looked at.
deinterleave(hash) ==
  [lat |-> FromBits([i \in 0 .. GEO_BITS - 1 |-> Bit(hash, 2 * i)], GEO_BITS),
   lng |-> FromBits([i \in 0 .. GEO_BITS - 1 |-> Bit(hash, 2 * i + 1)], GEO_BITS)]

\* Mutant: the upper end of the range is a cell of its own.
quantise_unclamped(v, min, max) == ((v - min) * GEO_CELLS) \div (max - min)

\* The upper end of the range belongs to the last cell.
quantise(v, min, max) ==
  LET cell == ((v - min) * GEO_CELLS) \div (max - min)
  IN  CASE cell < 0 -> 0
        [] cell > GEO_CELLS - 1 -> GEO_CELLS - 1
        [] OTHER -> cell

geo_encode(lat, lng) == interleave(quantise(lat, LAT_MIN, LAT_MAX), quantise(lng, LNG_MIN, LNG_MAX))

\* The centre of the cell.
geo_decode(hash) ==
  LET c == deinterleave(hash)
  IN  [lat |-> 2 * GEO_CELLS * LAT_MIN + (2 * c.lat + 1) * (LAT_MAX - LAT_MIN),
       lng |-> 2 * GEO_CELLS * LNG_MIN + (2 * c.lng + 1) * (LNG_MAX - LNG_MIN)]

\* (uint64_t)score, which is undefined for a negative score: the bits of the
\* integer, or zero.
Casts(score) == IF score >= 0 THEN {score} ELSE {score % 4 ^ GEO_BITS, 0}

-------------------------------------------------------------------------------
(* cmd_zset.c *)

\* The score GEOADD gives to each member, in the form of cmd_zadd's pairs.
Codes(triples) ==
  [i \in 1 .. Len(triples) |->
     <<geo_encode(triples[i][1][2], triples[i][1][1]), triples[i][2]>>]

\* Every position is checked before the type, and the type before anything changes.
cmd_geoadd(triples) ==
  LET pairs == Codes(triples)
      z1 == store_zset_add(zset, pairs[1][1], pairs[1][2])
      z2 == store_zset_add(z1, pairs[2][1], pairs[2][2])
      a1 == Added(zset, pairs[1][2])
  IN  IF \E i \in 1 .. Len(triples) : ~geo_valid(triples[i][1][2], triples[i][1][1])
      THEN BadArguments
      ELSE IF Len(pairs) = 1
           THEN Answer(<<"geoadd", pairs, triples>>, z1, <<"int", a1>>)
           ELSE Answer(<<"geoadd", pairs, triples>>, z2, <<"int", a1 + Added(z1, pairs[2][2])>>)

\* The position of a member, nil if there is none.
PositionsOf(m) ==
  IF zindex_find(zset.index, m) = None THEN {<<"nil">>}
  ELSE {<<"position", geo_decode(h)>> : h \in Casts(zindex_find(zset.index, m))}

cmd_geopos(m, n) ==
  \E p \in PositionsOf(m), q \in PositionsOf(n) : Read(<<"geopos", m, n>>, <<p, q>>)

\* The haversine formula, in the unit asked for, is a function of the two positions.
cmd_geodist(m, n) ==
  \E p \in PositionsOf(m), q \in PositionsOf(n) :
    Read(<<"geodist", m, n>>, IF <<"nil">> \in {p, q} THEN <<"nil">> ELSE <<"distance", p[2], q[2]>>)

GeoNext ==
  \/ Next
  \/ \E triples \in UNION {[1 .. n -> Points \X Members] : n \in 1 .. 2} : cmd_geoadd(triples)
  \/ \E m, n \in Members : cmd_geopos(m, n) \/ cmd_geodist(m, n)

GeoSpec == Init /\ [][GeoNext]_vars

-------------------------------------------------------------------------------
(* Properties *)

\* v, within half a cell of a coordinate of the range.
Near(v, coordinate, min, max) ==
  LET d == v - 2 * GEO_CELLS * coordinate IN d <= max - min /\ -d <= max - min

\* After a GEOADD each of its members decodes to a place within half a cell of its
\* last position, the edges of the map included (the comment of quantise), and every
\* other member has the score it had.
GeoaddPlaces ==
  [][(query'[1] = "geoadd" /\ reply' # <<"error">>) =>
       LET triples == query'[3]
       IN  \A m \in Members :
             LET is  == {i \in 1 .. Len(triples) : triples[i][2] = m}
                 pos == triples[Max(is)][1]
                 at  == geo_decode(zindex_find(zset'.index, m))
             IN  IF is # {}
                 THEN Near(at.lng, pos[1], LNG_MIN, LNG_MAX) /\ Near(at.lat, pos[2], LAT_MIN, LAT_MAX)
                 ELSE \A e \in ToSet(zset.entries) \cup ToSet(zset'.entries) :
                        e.member = m => e \in ToSet(zset.entries) \cap ToSet(zset'.entries)]_vars

\* Every query is answered as if the set were just a score for each member: GEOADD
\* is ZADD with the codes for scores, and GEOPOS and GEODIST change nothing.
Board == INSTANCE ScoreBoard
              WITH other <- type = "other",
                   score <- [m \in Members |-> IF zset.index = << >> THEN None
                                               ELSE zindex_find(zset.index, m)],
                   query <- IF query[1] = "geoadd" THEN <<"zadd", query[2]>> ELSE query

RefinesScoreBoard == Board!Spec

===============================================================================

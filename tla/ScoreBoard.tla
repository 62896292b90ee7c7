------------------------------ MODULE ScoreBoard ------------------------------
(***************************************************************************)
(* What a sorted set promises: a score for each of its members, and every  *)
(* query answered from the scores alone, in the order (score, member).     *)
(***************************************************************************)
EXTENDS Integers, Sequences, FiniteSets

CONSTANTS Members,   \* member names: integers in the order of strcmp
          Scores,    \* integers in the order of the doubles they stand for
          Indexes,   \* arguments of ZRANGE
          None       \* not a member

VARIABLES score,     \* member -> score, None if it is not in the set
          other,     \* whether the key holds another type instead
          reply, query

vars == <<score, other, reply, query>>

Init ==
  /\ score = [m \in Members |-> None]
  /\ other = FALSE
  /\ reply = << >>
  /\ query = <<"none">>

In == {m \in Members : score[m] # None}

\* m comes before n.
Before(m, n) ==
  \/ score[m] < score[n]
  \/ score[m] = score[n] /\ m < n

Rank(m) == Cardinality({n \in In : Before(n, m)})

\* The members of S in order.
InOrder(S) ==
  [i \in 1 .. Cardinality(S) |->
     CHOOSE m \in S : Cardinality({n \in S : Before(n, m)}) = i - 1]

\* The last pair of a member wins; members that were not there are counted.
Zadd(pairs) ==
  /\ ~other
  /\ query' = <<"zadd", pairs>>
  /\ score' = [m \in Members |->
                 LET is == {i \in 1 .. Len(pairs) : pairs[i][2] = m}
                 IN  IF is = {} THEN score[m]
                     ELSE pairs[CHOOSE i \in is : \A j \in is : j <= i][1]]
  /\ reply' = <<"int", Cardinality({pairs[i][2] : i \in 1 .. Len(pairs)} \ In)>>
  /\ UNCHANGED other

Ask(q, r) ==
  /\ ~other
  /\ query' = q
  /\ reply' = r
  /\ UNCHANGED <<score, other>>

IfIn(m, r) == IF m \in In THEN r ELSE <<"nil">>

\* Positions count from 0, or from the end when negative.
Zrange(start, stop) ==
  LET pos(p) == IF p < 0 THEN Cardinality(In) + p ELSE p
  IN  Ask(<<"zrange", start, stop>>,
          <<"members", InOrder({m \in In : pos(start) <= Rank(m) /\ Rank(m) <= pos(stop)})>>)

ZrangeByScore(min, max) ==
  Ask(<<"zrangebyscore", min, max>>,
      <<"members", InOrder({m \in In : min <= score[m] /\ score[m] <= max})>>)

\* Commands that read positions off the scores.
Geo ==
  /\ ~other
  /\ query'[1] \in {"geopos", "geodist"}
  /\ UNCHANGED <<score, other>>

\* Only a key of another type, or arguments that do not parse, are refused.
Refused ==
  /\ other \/ query' = <<"args">>
  /\ reply' = <<"error">>
  /\ UNCHANGED <<score, other>>

Clear ==
  /\ query' = <<"clear">>
  /\ reply' = <<"ok">>
  /\ score' = [m \in Members |-> None]
  /\ other' \in BOOLEAN

Next ==
  \/ \E pairs \in UNION {[1 .. n -> Scores \X Members] : n \in 1 .. 2} : Zadd(pairs)
  \/ \E m \in Members : \/ Ask(<<"zrank", m>>, IfIn(m, <<"int", Rank(m)>>))
                        \/ Ask(<<"zscore", m>>, IfIn(m, <<"score", score[m]>>))
  \/ Ask(<<"zcard">>, <<"int", Cardinality(In)>>)
  \/ \E start, stop \in Indexes : Zrange(start, stop)
  \/ \E min, max \in Scores : ZrangeByScore(min, max)
  \/ Geo
  \/ Refused
  \/ Clear

Spec == Init /\ [][Next]_vars

===============================================================================

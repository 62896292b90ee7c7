------------------------------- MODULE SortedSet -------------------------------
(***************************************************************************)
(* One sorted set as store.c keeps it: an array ordered by (score, member) *)
(* for ranges, and a chained hash index from member to score for lookups   *)
(* by name, with the commands of cmd_zset.c.  The index may have grown,    *)
(* and hashes may collide.                                                 *)
(*                                                                         *)
(* Sorted sets do not expire (OnlyStringsExpire of Keyspace), so a lookup  *)
(* finds the same entry throughout a command.                              *)
(***************************************************************************)
EXTENDS Integers, Sequences, FiniteSets, SequencesExt

CONSTANTS Members,     \* member names: integers in the order of strcmp
          Scores,      \* integers in the order of the doubles they stand for
          Hash,        \* hash64 of each member
          IndexSize,   \* initial number of index buckets (8 in the code)
          Indexes,     \* arguments of ZRANGE
          None         \* not a member

ASSUME SortedSetAssumption ==
  /\ Members \subseteq Nat /\ Scores \subseteq Int /\ Indexes \subseteq Int
  /\ Hash \in [Members -> Nat]
  /\ IndexSize \in Nat \ {0}
  /\ None \notin Int

VARIABLES type,    \* "none", "zset", or "other" when the key holds another type
          zset,    \* [entries, index]: the array, and the buckets
          reply,   \* the last reply
          query    \* and the command it answers

vars == <<type, zset, reply, query>>

\* A zeroed ZSet: no entries, no buckets.
Empty == [entries |-> << >>, index |-> << >>]

Init ==
  /\ type = "none"
  /\ zset = Empty
  /\ reply = << >>
  /\ query = <<"none">>

-------------------------------------------------------------------------------
(* store.c *)

zset_cmp(score, member, e) ==
  CASE score < e.score -> -1
    [] score > e.score -> 1
    [] OTHER -> member - e.member

Bucket(index, member) == (Hash[member] % Len(index)) + 1

\* The score the index has for a member.
zindex_find(index, member) ==
  LET nodes == SelectSeq(index[Bucket(index, member)], LAMBDA n : n.member = member)
  IN  IF index = << >> \/ nodes = << >> THEN None ELSE nodes[1].score

\* Mutant: nodes are put where the old size had them.
RehashWithOldMask(index, size) ==
  LET nodes == FlattenSeq(index)
      empty == [b \in 1 .. size |-> << >>]
      put(b, n) == [b EXCEPT ![Bucket(index, n.member)] = <<n>> \o @]
  IN  FoldLeft(put, empty, nodes)

\* The chains of a bucket array of another size, each node put in front.
Rehash(index, size) ==
  LET nodes == FlattenSeq(index)
      empty == [b \in 1 .. size |-> << >>]
      put(b, n) == [b EXCEPT ![Bucket(b, n.member)] = <<n>> \o @]
  IN  FoldLeft(put, empty, nodes)

\* len is the number of entries before the new one is inserted.
zindex_add(index, len, member, score) ==
  LET grown == IF len < Len(index) THEN index
               ELSE Rehash(index, IF index = << >> THEN IndexSize ELSE 2 * Len(index))
  IN  [grown EXCEPT ![Bucket(grown, member)] = <<[member |-> member, score |-> score]>> \o @]

\* Binary search: the first position, from 0, not before (score, member).
zset_lower_bound(entries, score, member) ==
  LET search[lo \in 0 .. Len(entries), hi \in 0 .. Len(entries)] ==
        LET mid == lo + (hi - lo) \div 2
        IN  IF lo >= hi THEN lo
            ELSE IF zset_cmp(score, member, entries[mid + 1]) > 0
                 THEN search[mid + 1, hi] ELSE search[lo, mid]
  IN  search[0, Len(entries)]

zset_insert(entries, score, member) ==
  InsertAt(entries, zset_lower_bound(entries, score, member) + 1,
           [member |-> member, score |-> score])

\* node->score = score
SetNode(index, member, score) ==
  [index EXCEPT ![Bucket(index, member)] =
     [i \in 1 .. Len(@) |-> IF @[i].member = member
                            THEN [@[i] EXCEPT !.score = score] ELSE @[i]]]

\* Mutant: the entry is not moved.
RescoresInPlace(z, score, member) ==
  LET old  == zindex_find(z.index, member)
      slot == zset_lower_bound(z.entries, old, member) + 1
  IN  IF old # None
      THEN [entries |-> [z.entries EXCEPT ![slot].score = score],
            index   |-> SetNode(z.index, member, score)]
      ELSE [entries |-> zset_insert(z.entries, score, member),
            index   |-> zindex_add(z.index, Len(z.entries), member, score)]

\* A member that is there moves: its slot is found by its old score, emptied,
\* and the member inserted anew.
store_zset_add(z, score, member) ==
  LET old   == zindex_find(z.index, member)
      slot  == zset_lower_bound(z.entries, old, member) + 1
      owned == z.entries[slot].member
  IN  CASE old = score -> z
        [] old # score /\ old # None ->
             [entries |-> zset_insert(RemoveAt(z.entries, slot), score, owned),
              index   |-> SetNode(z.index, member, score)]
        [] OTHER ->
             [entries |-> zset_insert(z.entries, score, member),
              index   |-> zindex_add(z.index, Len(z.entries), member, score)]

\* The out-parameter: 1 if the member is new.
Added(z, member) == IF zindex_find(z.index, member) = None THEN 1 ELSE 0

store_zset_rank(z, member) ==
  zset_lower_bound(z.entries, zindex_find(z.index, member), member)

-------------------------------------------------------------------------------
(* cmd_zset.c *)

\* Mutant: the type is not checked.
AnswerAnyType(q, z, r) ==
  /\ query' = q
  /\ reply' = r
  /\ zset' = z
  /\ type' = IF type = "none" /\ z # zset THEN "zset" ELSE type

\* A command on the key: refused if it holds another type.
Answer(q, z, r) ==
  /\ query' = q
  /\ reply' = IF type = "other" THEN <<"error">> ELSE r
  /\ zset' = IF type = "other" THEN zset ELSE z
  /\ type' = IF type = "none" /\ z # zset THEN "zset" ELSE type

Read(q, r) == Answer(q, zset, r)

\* The scores and the type are checked before anything is changed.
cmd_zadd(pairs) ==
  LET z1 == store_zset_add(zset, pairs[1][1], pairs[1][2])
      z2 == store_zset_add(z1, pairs[2][1], pairs[2][2])
      a1 == Added(zset, pairs[1][2])
  IN  IF Len(pairs) = 1
      THEN Answer(<<"zadd", pairs>>, z1, <<"int", a1>>)
      ELSE Answer(<<"zadd", pairs>>, z2, <<"int", a1 + Added(z1, pairs[2][2])>>)

\* An odd number of arguments, or a score or position that does not parse.
BadArguments ==
  /\ query' = <<"args">>
  /\ reply' = <<"error">>
  /\ UNCHANGED <<type, zset>>

MembersOf(entries) == [i \in 1 .. Len(entries) |-> entries[i].member]

\* normalise_range and the loop over the array.
cmd_zrange(start, stop) ==
  LET n     == Len(zset.entries)
      a     == IF start < 0 THEN start + n ELSE start
      b     == IF stop < 0 THEN stop + n ELSE stop
      first == IF a < 0 THEN 0 ELSE a
      final == IF b >= n THEN n - 1 ELSE b
  IN  Read(<<"zrange", start, stop>>,
           <<"members", IF n = 0 \/ first > final THEN << >>
                        ELSE MembersOf(SubSeq(zset.entries, first + 1, final + 1))>>)

\* Mutant: the upper end is left out.
ScoreBelowMax(min, max) ==
  Read(<<"zrangebyscore", min, max>>,
       <<"members", MembersOf(SelectSeq(zset.entries,
                                        LAMBDA e : min <= e.score /\ e.score < max))>>)

\* One run of the array: the scan skips what is below min and stops above max.
cmd_zrangebyscore(min, max) ==
  LET es    == zset.entries
      first == Cardinality({i \in 1 .. Len(es) : \A j \in 1 .. i : es[j].score < min})
      end   == Max({first} \cup {i \in first + 1 .. Len(es) :
                                   \A j \in first + 1 .. i : es[j].score <= max})
  IN  Read(<<"zrangebyscore", min, max>>, <<"members", MembersOf(SubSeq(es, first + 1, end))>>)

cmd_zrank(m) ==
  Read(<<"zrank", m>>, IF zindex_find(zset.index, m) = None THEN <<"nil">>
                       ELSE <<"int", store_zset_rank(zset, m)>>)

cmd_zscore(m) ==
  Read(<<"zscore", m>>, IF zindex_find(zset.index, m) = None THEN <<"nil">>
                        ELSE <<"score", zindex_find(zset.index, m)>>)

cmd_zcard == Read(<<"zcard">>, <<"int", Len(zset.entries)>>)

\* DEL frees the set, and SET puts a string in its place.
Clear ==
  /\ type' \in {"none", "other"}
  /\ zset' = Empty
  /\ query' = <<"clear">>
  /\ reply' = <<"ok">>

Next ==
  \/ \E pairs \in UNION {[1 .. n -> Scores \X Members] : n \in 1 .. 2} : cmd_zadd(pairs)
  \/ \E start, stop \in Indexes : cmd_zrange(start, stop)
  \/ \E min, max \in Scores : cmd_zrangebyscore(min, max)
  \/ \E m \in Members : cmd_zrank(m) \/ cmd_zscore(m)
  \/ cmd_zcard
  \/ BadArguments
  \/ Clear

Spec == Init /\ [][Next]_vars

-------------------------------------------------------------------------------
(* Properties *)

EntryOf == [member : Members, score : Scores]

\* The array and the chains hold entries of the set's members and scores.
TypeOK ==
  /\ zset.entries \in Seq(EntryOf)
  /\ zset.index \in Seq(Seq(EntryOf))
  /\ type \in {"none", "zset", "other"}
  /\ type # "zset" => zset = Empty

\* The array is sorted by (score, member) and has no member twice: each binary
\* search relies on it, also the one that finds the slot a member moves from.
Sorted ==
  LET es == zset.entries
  IN  /\ \A i, j \in 1 .. Len(es) : i < j => zset_cmp(es[i].score, es[i].member, es[j]) < 0
      /\ \A i, j \in 1 .. Len(es) : es[i].member = es[j].member => i = j

\* Array and index agree: an entry is in the one chain its hash selects, once and
\* with the same score, whatever growth and score changes came before.
IndexAgrees ==
  LET at(m) == {<<b, i>> \in (1 .. Len(zset.index)) \X (1 .. Len(zset.entries)) :
                  /\ i <= Len(zset.index[b])
                  /\ zset.index[b][i].member = m}
  IN  /\ \A e \in ToSet(zset.entries) :
           /\ Cardinality(at(e.member)) = 1
           /\ zindex_find(zset.index, e.member) = e.score
      /\ Len(FlattenSeq(zset.index)) = Len(zset.entries)

===============================================================================

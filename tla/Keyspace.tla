------------------------------- MODULE Keyspace -------------------------------
(***************************************************************************)
(* The keyspace with lazy expiry.  One action is one command handler of    *)
(* cmd_string.c, cmd_list.c or cmd_hash.c, with every store_* call it      *)
(* makes.  The hash table of store.c is the function store here.           *)
(*                                                                         *)
(* Each lookup() reads the wall clock for itself, so a handler that looks  *)
(* up several times sees several, possibly different, times: the sequence  *)
(* ts of readings.  An expired entry stays in the table until a lookup     *)
(* runs into it.                                                           *)
(***************************************************************************)
EXTENDS KeyTypes

CONSTANTS SetValues,   \* values SET is called with
          SetOptions,  \* option lists SET is called with
          Deltas,      \* increments of INCRBY and DECRBY
          Indexes,     \* range bounds of LRANGE
          Second,      \* clock ticks per second (1000 in the code)
          MaxTime,     \* bound: last clock reading
          MaxLen,      \* bound: longest list
          ClockSteps   \* TRUE when the wall clock may be set back

ASSUME KeyspaceAssumption ==
  /\ SetValues \subseteq Text
  /\ Deltas \subseteq Int64
  /\ Indexes \subseteq Int64
  /\ Second \in Nat \ {0}
  /\ MaxTime \in 1 .. INT64_MAX
  /\ MaxLen \in Nat
  /\ ClockSteps \in BOOLEAN
  \* An option is EX n or PX n, n an integer or (Nil) text that is none,
  \* or an unknown word.
  /\ \A opts \in SetOptions :
       /\ opts \in Seq([unit : {"EX", "PX", "unknown"}, n : Int64 \cup {Nil}])
  /\ Nil \notin Int

VARIABLES store,   \* the hash table: key -> entry, Absent if there is none
          now,     \* the last reading of the wall clock
          cmd,     \* the last command, with its arguments
          reply    \* and what it answered

vars == <<store, now, cmd, reply>>

Time == 1 .. MaxTime

Init ==
  /\ store = [k \in Keys |-> Absent]
  /\ now = 1
  /\ cmd = <<"none">>
  /\ reply = OkReply

\* n readings of now_ms() by one handler.
Readings(n) ==
  {ts \in [1 .. n -> Time] :
     \/ ClockSteps
     \/ /\ ts[1] >= now
        /\ \A i \in 2 .. n : ts[i] >= ts[i - 1]}

Return(s, call, r, t) ==
  /\ store' = s
  /\ cmd' = call
  /\ reply' = r
  /\ now' = t

-------------------------------------------------------------------------------
(* store.c *)

\* Mutant: an entry expires one tick early.
LookupEarly(s, k, t) ==
  IF s[k].expires_at # 0 /\ t >= s[k].expires_at THEN [s EXCEPT ![k] = Absent] ELSE s

\* The table after lookup(); the entry found is Lookup(s, k, t)[k].
Lookup(s, k, t) ==
  IF entry_is_expired(s[k], t) THEN [s EXCEPT ![k] = Absent] ELSE s

store_set(s, k, v, at) == [s EXCEPT ![k] = NewString(v, at)]

\* Mutant: the length is read before the push.
PushReportsOldLength(r, k, v, at_head, t) ==
  LET s == Lookup(r.s, k, t)
      e == IF s[k].type = "none" THEN NewList ELSE s[k]
      l == IF at_head THEN <<v>> \o e.list ELSE Append(e.list, v)
  IN  IF e.type = "list"
      THEN [s |-> [s EXCEPT ![k] = [e EXCEPT !.list = l]], len |-> Len(e.list)]
      ELSE [s |-> s, len |-> r.len]

\* The out-parameter len keeps its value when the push is refused.
store_list_push(r, k, v, at_head, t) ==
  LET s == Lookup(r.s, k, t)
      e == IF s[k].type = "none" THEN NewList ELSE s[k]
      l == IF at_head THEN <<v>> \o e.list ELSE Append(e.list, v)
  IN  IF e.type = "list"
      THEN [s |-> [s EXCEPT ![k] = [e EXCEPT !.list = l]], len |-> Len(l)]
      ELSE [s |-> s, len |-> r.len]

\* Mutant: an emptied list stays.
PopKeepsKey(s, k, at_head) ==
  LET l == s[k].list
  IN  [s EXCEPT ![k] = [s[k] EXCEPT !.list = IF at_head THEN Tail(l)
                                             ELSE SubSeq(l, 1, Len(l) - 1)]]

\* Popping the last element deletes the key.
store_list_pop(s, k, at_head) ==
  LET l    == s[k].list
      rest == IF at_head THEN Tail(l) ELSE SubSeq(l, 1, Len(l) - 1)
  IN  [s EXCEPT ![k] = IF rest = << >> THEN Absent
                                       ELSE [s[k] EXCEPT !.list = rest]]

\* Mutant: an expired entry is reused, with its expiry.
HashReusesEntry(s0, k, f, v, t) ==
  LET s == Lookup(s0, k, t)
      e == IF s[k].type = "none" THEN [NewHash EXCEPT !.expires_at = s0[k].expires_at]
                                 ELSE s[k]
  IN  IF e.type = "hash"
      THEN [s |-> [s EXCEPT ![k] = [e EXCEPT !.hash[f] = v]],
            ok |-> TRUE, created |-> IF e.hash[f] = Nil THEN 1 ELSE 0]
      ELSE [s |-> s, ok |-> FALSE, created |-> 0]

store_hash_set(s0, k, f, v, t) ==
  LET s == Lookup(s0, k, t)
      e == IF s[k].type = "none" THEN NewHash ELSE s[k]
  IN  IF e.type = "hash"
      THEN [s |-> [s EXCEPT ![k] = [e EXCEPT !.hash[f] = v]],
            ok |-> TRUE, created |-> IF e.hash[f] = Nil THEN 1 ELSE 0]
      ELSE [s |-> s, ok |-> FALSE, created |-> 0]

store_hash_get(s, k, f) == IF s[k].type = "hash" THEN s[k].hash[f] ELSE Nil

\* Deleting the last field deletes the key; a missing key is no error.
store_hash_del(s0, k, f, t) ==
  LET s == Lookup(s0, k, t)
      e == s[k]
      g == [e EXCEPT !.hash[f] = Nil]
  IN  IF e.type = "hash"
      THEN [s |-> [s EXCEPT ![k] = IF HashFields(g) = {} THEN Absent ELSE g],
            ok |-> TRUE, deleted |-> IF e.hash[f] = Nil THEN 0 ELSE 1]
      ELSE [s |-> s, ok |-> e.type = "none", deleted |-> 0]

-------------------------------------------------------------------------------
(* cmd_string.c *)

BadOption(o) ==
  \/ o.unit = "unknown"
  \/ o.n = Nil
  \/ o.n <= 0
  \/ o.unit = "EX" /\ o.n > (INT64_MAX \div Second) \div 2

\* now_ms() + n: for PX nothing bounds n, and the sum wraps.
Expiry(o, t) == Wrap(t + (IF o.unit = "EX" THEN o.n * Second ELSE o.n))

\* Mutant: the value is stored before the options are checked.
SetBeforeChecking(k, v, opts) ==
  \E ts \in Readings(2) :
    Return(store_set(store, k, v, 0), <<"set", k, v, opts>>,
           IF \E i \in 1 .. Len(opts) : BadOption(opts[i]) THEN ErrorReply ELSE OkReply,
           ts[2])

\* The options are taken in turn; the last one sets the expiry.
cmd_set(k, v, opts) ==
  \E ts \in Readings(2) :
    IF \E i \in 1 .. Len(opts) : BadOption(opts[i])
    THEN Return(store, <<"set", k, v, opts>>, ErrorReply, ts[1])
    ELSE LET at == IF opts = << >> THEN 0 ELSE Expiry(opts[Len(opts)], ts[1])
         IN  Return(store_set(store, k, v, at), <<"set", k, v, opts>>, OkReply, ts[2])

cmd_get(k) ==
  \E ts \in Readings(1) :
    LET s == Lookup(store, k, ts[1])
    IN  Return(s, <<"get", k>>,
               CASE s[k].type = "string" -> BulkReply(s[k].str)
                 [] s[k].type = "none"   -> NilReply
                 [] OTHER                -> ErrorReply,
               ts[1])

\* Mutant: no overflow check.
NeverOverflows(val, delta) == FALSE

\* The sum is not computed when it would overflow.
Overflows(val, delta) ==
  \/ delta > 0 /\ val > INT64_MAX - delta
  \/ delta < 0 /\ val < INT64_MIN - delta

\* Mutant: the sum is stored as SET would.
SumBySet(s, k, sum) == store_set(s, k, sum, 0)

\* In place when the key exists, so that it keeps its expiry.
StoreSum(s, k, sum) ==
  IF s[k].type = "string" THEN [s EXCEPT ![k].str = sum] ELSE store_set(s, k, sum, 0)

incr_common(k, delta) ==
  \E ts \in Readings(2) :
    LET s   == Lookup(store, k, ts[1])
        e   == s[k]
        val == IF e.type = "none" THEN 0 ELSE e.str
    IN  CASE \/ e.type \notin {"none", "string"}
             \/ e.type = "string" /\ e.str \notin Int64
             \/ Overflows(val, delta) ->
               Return(s, <<"incr", k, delta>>, ErrorReply, ts[1])
          [] OTHER ->
               Return(StoreSum(s, k, val + delta), <<"incr", k, delta>>,
                      IntReply(val + delta), ts[2])

\* INCR and DECR are the increments 1 and -1.
cmd_incrby(k, delta) == incr_common(k, delta)

cmd_decrby(k, delta) ==
  IF delta = INT64_MIN
  THEN Return(store, <<"incr", k, -delta>>, ErrorReply, now)
  ELSE incr_common(k, -delta)

\* store_del removes an expired entry too, but only counts a live one.
cmd_del(ks) ==
  \E ts \in Readings(Len(ks)) :
    LET counted == {i \in 1 .. Len(ks) :
                      /\ \A j \in 1 .. i - 1 : ks[j] # ks[i]
                      /\ store[ks[i]].type # "none"
                      /\ ~entry_is_expired(store[ks[i]], ts[i])}
    IN  Return([k \in Keys |-> IF \E i \in 1 .. Len(ks) : ks[i] = k
                               THEN Absent ELSE store[k]],
               <<"del", ks>>, IntReply(Cardinality(counted)), ts[Len(ks)])

\* An entry found expired is unlinked, so a later argument misses it as well.
cmd_exists(ks) ==
  \E ts \in Readings(Len(ks)) :
    LET dropped(k, n) == \E i \in 1 .. n :
                           ks[i] = k /\ entry_is_expired(store[k], ts[i])
        found == {i \in 1 .. Len(ks) : /\ store[ks[i]].type # "none"
                                       /\ ~dropped(ks[i], i)}
    IN  Return([k \in Keys |-> IF dropped(k, Len(ks)) THEN Absent ELSE store[k]],
               <<"exists", ks>>, IntReply(Cardinality(found)), ts[Len(ks)])

cmd_type(k) ==
  \E ts \in Readings(1) :
    LET s == Lookup(store, k, ts[1])
    IN  Return(s, <<"type", k>>, TypeReply(s[k].type), ts[1])

store_get_expiry(e) ==
  CASE e.type = "none"                       -> -2
    [] e.type # "none" /\ e.expires_at = 0   -> -1
    [] OTHER                                 -> e.expires_at

\* TTL and PTTL: the remaining time is computed from a second reading.
ttl_common(k, in_ms) ==
  \E ts \in Readings(2) :
    LET s         == Lookup(store, k, ts[1])
        expiry    == store_get_expiry(s[k])
        remaining == IF expiry < ts[2] THEN 0 ELSE expiry - ts[2]
    IN  Return(s, <<"ttl", k, in_ms>>,
               CASE expiry < 0 -> IntReply(expiry)
                 [] expiry >= 0 /\ in_ms -> IntReply(remaining)
                 [] OTHER -> IntReply((remaining + Second \div 2) \div Second),
               ts[2])

\* A pattern is the set of the keys it matches.  A scan unlinks nothing.
cmd_keys(pattern) ==
  \E ts \in Readings(1) :
    Return(store, <<"keys", pattern>>,
           KeysReply({k \in pattern : /\ store[k].type # "none"
                                      /\ ~entry_is_expired(store[k], ts[1])}),
           ts[1])

-------------------------------------------------------------------------------
(* cmd_list.c *)

\* The type is looked up once or twice, then once more by every push.
push_common(k, vs, at_head) ==
  \E ts \in Readings(2 + Len(vs)) :
    LET s1 == Lookup(store, k, ts[1])
        s2 == IF s1[k].type = "none" THEN s1 ELSE Lookup(s1, k, ts[2])
        r1 == store_list_push([s |-> s2, len |-> 0], k, vs[1], at_head, ts[3])
        r2 == IF Len(vs) = 1 THEN r1
                             ELSE store_list_push(r1, k, vs[2], at_head, ts[4])
    IN  IF s1[k].type # "none" /\ s2[k].type # "list"
        THEN Return(s2, <<"push", k, vs, at_head>>, ErrorReply, ts[2])
        ELSE /\ r2.len <= MaxLen
             /\ Return(r2.s, <<"push", k, vs, at_head>>, IntReply(r2.len), ts[2 + Len(vs)])

pop_common(k, at_head) ==
  \E ts \in Readings(1) :
    LET s == Lookup(store, k, ts[1])
        l == s[k].list
    IN  CASE s[k].type = "none" \/ (s[k].type = "list" /\ l = << >>) ->
               Return(s, <<"pop", k, at_head>>, NilReply, ts[1])
          [] s[k].type = "list" /\ l # << >> ->
               Return(store_list_pop(s, k, at_head), <<"pop", k, at_head>>,
                      BulkReply(l[IF at_head THEN 1 ELSE Len(l)]), ts[1])
          [] OTHER ->
               Return(s, <<"pop", k, at_head>>, ErrorReply, ts[1])

cmd_llen(k) ==
  \E ts \in Readings(1) :
    LET s == Lookup(store, k, ts[1])
    IN  Return(s, <<"llen", k>>,
               CASE s[k].type = "list" -> IntReply(Len(s[k].list))
                 [] s[k].type = "none" -> IntReply(0)
                 [] OTHER              -> ErrorReply,
               ts[1])

\* The zero-based positions first..last that LRANGE start stop selects among
\* n elements; empty when first > last.
normalise_range(start, stop, n) ==
  LET a     == IF start < 0 THEN start + n ELSE start
      b     == IF stop < 0 THEN stop + n ELSE stop
      first == IF a < 0 THEN 0 ELSE a
      final == IF b >= n THEN n - 1 ELSE b
  IN  [first |-> first, last |-> final, empty |-> n = 0 \/ first > final]

cmd_lrange(k, start, stop) ==
  \E ts \in Readings(1) :
    LET s == Lookup(store, k, ts[1])
        r == normalise_range(start, stop, Len(s[k].list))
    IN  Return(s, <<"lrange", k, start, stop>>,
               CASE s[k].type = "list" /\ ~r.empty ->
                      ArrayReply(SubSeq(s[k].list, r.first + 1, r.last + 1))
                 [] s[k].type \in {"string", "hash"} -> ErrorReply
                 [] OTHER -> ArrayReply(<< >>),
               ts[1])

-------------------------------------------------------------------------------
(* cmd_hash.c *)

\* fvs is a list of field/value pairs; a wrong type stops the loop.
cmd_hset(k, fvs) ==
  \E ts \in Readings(Len(fvs)) :
    LET r1 == store_hash_set(store, k, fvs[1][1], fvs[1][2], ts[1])
        r2 == store_hash_set(r1.s, k, fvs[2][1], fvs[2][2], ts[2])
    IN  IF Len(fvs) = 1 \/ ~r1.ok
        THEN Return(r1.s, <<"hset", k, fvs>>,
                    IF r1.ok THEN IntReply(r1.created) ELSE ErrorReply, ts[1])
        ELSE Return(r2.s, <<"hset", k, fvs>>,
                    IF r2.ok THEN IntReply(r1.created + r2.created) ELSE ErrorReply,
                    ts[2])

cmd_hget(k, f) ==
  \E ts \in Readings(1) :
    LET s == Lookup(store, k, ts[1])
    IN  Return(s, <<"hget", k, f>>,
               IF s[k].type \in {"none", "hash"}
               THEN BulkOrNil(store_hash_get(s, k, f))
               ELSE ErrorReply,
               ts[1])

cmd_hgetall(k) ==
  \E ts \in Readings(1) :
    LET s == Lookup(store, k, ts[1])
    IN  Return(s, <<"hgetall", k>>,
               CASE s[k].type = "hash" -> PairsReply(s[k].hash)
                 [] s[k].type = "none" -> ArrayReply(<< >>)
                 [] OTHER              -> ErrorReply,
               ts[1])

\* After the type check every field is a lookup of its own.
cmd_hmget(k, fs) ==
  \E ts \in Readings(2 + Len(fs)) :
    LET s1 == Lookup(store, k, ts[1])
        s2 == IF s1[k].type = "none" THEN s1 ELSE Lookup(s1, k, ts[2])
        s3 == Lookup(s2, k, ts[3])
        s4 == IF Len(fs) = 1 THEN s3 ELSE Lookup(s3, k, ts[4])
        seen(i) == IF i = 1 THEN s3 ELSE s4
    IN  IF s1[k].type # "none" /\ s2[k].type # "hash"
        THEN Return(s2, <<"hmget", k, fs>>, ErrorReply, ts[2])
        ELSE Return(s4, <<"hmget", k, fs>>,
                    ArrayReply([i \in 1 .. Len(fs) |->
                                  BulkOrNil(store_hash_get(seen(i), k, fs[i]))]),
                    ts[2 + Len(fs)])

cmd_hdel(k, fs) ==
  \E ts \in Readings(Len(fs)) :
    LET r1 == store_hash_del(store, k, fs[1], ts[1])
        r2 == store_hash_del(r1.s, k, fs[2], ts[2])
    IN  IF Len(fs) = 1 \/ ~r1.ok
        THEN Return(r1.s, <<"hdel", k, fs>>,
                    IF r1.ok THEN IntReply(r1.deleted) ELSE ErrorReply, ts[1])
        ELSE Return(r2.s, <<"hdel", k, fs>>,
                    IF r2.ok THEN IntReply(r1.deleted + r2.deleted) ELSE ErrorReply,
                    ts[2])

cmd_hlen(k) ==
  \E ts \in Readings(1) :
    LET s == Lookup(store, k, ts[1])
    IN  Return(s, <<"hlen", k>>,
               CASE s[k].type = "hash" -> IntReply(Cardinality(HashFields(s[k])))
                 [] s[k].type = "none" -> IntReply(0)
                 [] OTHER              -> ErrorReply,
               ts[1])

-------------------------------------------------------------------------------
\* Arguments that do not parse, or an odd number of HSET arguments, are refused
\* before the store is touched.
BadArguments == Return(store, <<"args">>, ErrorReply, now)

Next ==
  \/ \E k \in Keys :
       \/ \E v \in SetValues, opts \in SetOptions : cmd_set(k, v, opts)
       \/ \E delta \in Deltas : cmd_incrby(k, delta) \/ cmd_decrby(k, delta)
       \/ \E vs \in Args(Elems), at_head \in BOOLEAN : push_common(k, vs, at_head)
       \/ \E at_head \in BOOLEAN : pop_common(k, at_head)
       \/ \E start, stop \in Indexes : cmd_lrange(k, start, stop)
       \/ \E fvs \in Args(Fields \X Elems) : cmd_hset(k, fvs)
       \/ \E f \in Fields : cmd_hget(k, f)
       \/ \E fs \in Args(Fields) : cmd_hmget(k, fs) \/ cmd_hdel(k, fs)
       \/ \E in_ms \in BOOLEAN : ttl_common(k, in_ms)
       \/ cmd_get(k) \/ cmd_type(k) \/ cmd_llen(k) \/ cmd_hgetall(k) \/ cmd_hlen(k)
  \/ \E ks \in Args(Keys) : cmd_del(ks) \/ cmd_exists(ks)
  \/ \E pattern \in SUBSET Keys : cmd_keys(pattern)
  \/ BadArguments

Spec == Init /\ [][Next]_vars

-------------------------------------------------------------------------------
(* Properties *)

\* Every entry of the table is well formed for its type, numbers included:
\* an INCR result and an expiry fit the width of int64_t.
TypeOK ==
  /\ store \in [Keys -> Entry]
  /\ now \in Time

\* Only string entries carry an expiry.  The handlers of the other types rely
\* on it: push_common, cmd_hmget and cmd_zadd check the type once and ignore
\* the status of the store calls that follow, and store_list_pop keeps using an
\* entry across store_del.
OnlyStringsExpire ==
  \A k \in Keys : store[k].type # "string" => store[k].expires_at = 0

\* No empty list or hash stays behind: the last pop or HDEL deletes the key.
NoEmptyCollection ==
  \A k \in Keys :
    /\ store[k].type = "list" => store[k].list # << >>
    /\ store[k].type = "hash" => HashFields(store[k]) # {}

Live(s, t) == [k \in Keys |-> IF entry_is_expired(s[k], t) THEN Absent ELSE s[k]]

\* A command that answers with an error has changed no live key: a refused push,
\* HSET or HDEL is never half applied (the comment in push_common), whatever
\* expires while it runs.
ErrorsChangeNothing ==
  [][reply' = ErrorReply => Live(store', now') = Live(store, now')]_vars

\* INCR keeps the key's TTL, and no command but SET gives a live string another.
ExpiryOnlyFromSet ==
  [][\A k \in Keys :
       (/\ cmd'[1] # "set"
        /\ store[k].type = "string" /\ ~entry_is_expired(store[k], now')
        /\ store'[k].type = "string")
         => store'[k].expires_at = store[k].expires_at]_vars

\* A push that passed its type check appends every value: the length it reports
\* is that of the list it leaves, even if the clock is set back meanwhile.
PushAppliesAll ==
  [][cmd'[1] = "push" /\ reply' # ErrorReply =>
       LET e == store'[cmd'[2]]
       IN  e.type = "list" /\ reply'.n = Len(e.list) /\ reply'.n >= Len(cmd'[3])]_vars

\* Lazy expiry cannot be observed: to its callers the table is the keyspace in
\* which every key vanishes the moment it expires.
Eager == INSTANCE EagerKeyspace WITH data <- Live(store, now)

RefinesEager == Eager!Spec

-------------------------------------------------------------------------------
(* Statements of the documentation that the code does not keep. *)

\* "integer overflow [is] reported rather than corrupting data" (README.md): a
\* SET that answers OK does not give its key an expiry before its own start.
SetExpiryAhead ==
  [][cmd'[1] = "set" /\ reply' = OkReply =>
       store'[cmd'[2]].expires_at \in {0} \cup (now + 1 .. INT64_MAX)]_vars

\* "Round seconds up" (ttl_common): TTL, in seconds, is never less than the
\* time the key has left.
TtlRoundsUp ==
  [][cmd'[1] = "ttl" /\ ~cmd'[3] /\ store'[cmd'[2]].expires_at # 0 =>
       reply'.n * Second >= store'[cmd'[2]].expires_at - now']_vars

===============================================================================

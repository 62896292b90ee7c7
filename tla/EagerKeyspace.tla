----------------------------- MODULE EagerKeyspace -----------------------------
(***************************************************************************)
(* What the keyspace promises its callers: a key disappears the moment it  *)
(* expires, and a command takes effect at one instant t between its start  *)
(* (the value of now) and its return (the value of now').  Only DEL and    *)
(* EXISTS with several keys visit each key at an instant of its own.       *)
(***************************************************************************)
EXTENDS KeyTypes

CONSTANTS SetValues, SetOptions, Deltas, Indexes, Second, MaxTime

VARIABLES data,   \* key -> live entry, Absent if there is none
          now, cmd, reply

vars == <<data, now, cmd, reply>>

Init ==
  /\ data = [k \in Keys |-> Absent]
  /\ now = 1
  /\ cmd = <<"none">>
  /\ reply = OkReply

At(d, t) == [k \in Keys |-> IF entry_is_expired(d[k], t) THEN Absent ELSE d[k]]

\* A command at instant t: Effect and Reply are functions of what is live then.
Do(call, Effect(_, _), Reply(_)) ==
  /\ cmd' = call
  /\ \E t \in now .. MaxTime :
       /\ now' \in t .. MaxTime
       /\ reply' = Reply(At(data, t))
       /\ data' = At(Effect(At(data, t), t), now')

Same(d, t) == d

\* A command that reads one key, of type T or missing.
Read(call, k, T, Missing, Reply(_)) ==
  Do(call, Same, LAMBDA d : CASE d[k].type = T      -> Reply(d[k])
                             [] d[k].type = "none" -> Missing
                             [] OTHER              -> ErrorReply)

\* A command that updates one key of type T, or creates it from Empty.
Update(call, k, T, Empty, New(_), Reply(_)) ==
  LET old(d) == IF d[k].type = "none" THEN Empty ELSE d[k]
  IN  Do(call,
         LAMBDA d, t : IF old(d).type = T THEN [d EXCEPT ![k] = New(old(d))] ELSE d,
         LAMBDA d : IF old(d).type = T THEN Reply(old(d)) ELSE ErrorReply)

Refuse(call) == Do(call, Same, LAMBDA d : ErrorReply)

-------------------------------------------------------------------------------
Positive(o) == o.unit # "unknown" /\ o.n # Nil /\ o.n > 0

\* EX is refused when the time to live may not fit; PX never is.
Refusable(o) == o.unit = "EX" /\ o.n > (INT64_MAX \div Second) \div 2

Lifetime(o) == IF o.unit = "EX" THEN o.n * Second ELSE o.n

Set(k, v, opts) ==
  IF \A i \in 1 .. Len(opts) : Positive(opts[i]) /\ ~Refusable(opts[i])
  THEN Do(<<"set", k, v, opts>>,
          LAMBDA d, t :
            [d EXCEPT ![k] = NewString(v, IF opts = << >> THEN 0
                                          ELSE t + Lifetime(opts[Len(opts)]))],
          LAMBDA d : OkReply)
  ELSE Refuse(<<"set", k, v, opts>>)

Get(k) == Read(<<"get", k>>, k, "string", NilReply, LAMBDA e : BulkReply(e.str))

\* Exact arithmetic: the sum, or an error when it does not fit.
Incr(k, delta) ==
  LET val(d)  == IF d[k].type = "none" THEN 0 ELSE d[k].str
      can(d)  == /\ d[k].type \in {"none", "string"}
                 /\ val(d) \in Int64
                 /\ val(d) + delta \in Int64
  IN  Do(<<"incr", k, delta>>,
         LAMBDA d, t : IF can(d)
                       THEN [d EXCEPT ![k] = NewString(val(d) + delta, @.expires_at)]
                       ELSE d,
         LAMBDA d : IF can(d) THEN IntReply(val(d) + delta) ELSE ErrorReply)

\* The smallest integer has no negation, and is refused.
Decr(k, delta) ==
  IF delta = INT64_MIN THEN Refuse(<<"incr", k, -delta>>) ELSE Incr(k, -delta)

\* Each key of a list has its own instant; they do not decrease.
Instants(n) ==
  {ts \in [1 .. n -> now .. now'] : \A i \in 2 .. n : ts[i] >= ts[i - 1]}

Exists(ks) ==
  /\ cmd' = <<"exists", ks>>
  /\ now' \in now .. MaxTime
  /\ \E ts \in Instants(Len(ks)) :
       reply' = IntReply(Cardinality(
                  {i \in 1 .. Len(ks) : At(data, ts[i])[ks[i]] # Absent}))
  /\ data' = At(data, now')

Del(ks) ==
  /\ cmd' = <<"del", ks>>
  /\ now' \in now .. MaxTime
  /\ \E ts \in Instants(Len(ks)) :
       reply' = IntReply(Cardinality(
                  {k \in Keys : \E i \in 1 .. Len(ks) :
                     /\ ks[i] = k
                     /\ \A j \in 1 .. i - 1 : ks[j] # k
                     /\ At(data, ts[i])[k] # Absent}))
  /\ data' = [k \in Keys |-> IF \E i \in 1 .. Len(ks) : ks[i] = k
                             THEN Absent ELSE At(data, now')[k]]

Type(k) == Do(<<"type", k>>, Same, LAMBDA d : TypeReply(d[k].type))

\* The time left is measured at the return of the command.
Ttl(k, in_ms) ==
  /\ cmd' = <<"ttl", k, in_ms>>
  /\ \E t \in now .. MaxTime :
       LET e    == At(data, t)[k]
           left == IF e.expires_at < now' THEN 0 ELSE e.expires_at - now'
       IN  /\ now' \in t .. MaxTime
           /\ reply' = CASE e.type = "none" -> IntReply(-2)
                         [] e.type # "none" /\ e.expires_at = 0 -> IntReply(-1)
                         [] OTHER -> IntReply(
                              IF in_ms THEN left
                              ELSE (left + Second \div 2) \div Second)
           /\ data' = At(data, now')

KeysMatching(pattern) ==
  Do(<<"keys", pattern>>, Same, LAMBDA d : KeysReply({k \in pattern : d[k] # Absent}))

-------------------------------------------------------------------------------
Pushed(l, vs, at_head) ==
  IF at_head THEN [i \in 1 .. Len(vs) |-> vs[Len(vs) + 1 - i]] \o l ELSE l \o vs

Push(k, vs, at_head) ==
  Update(<<"push", k, vs, at_head>>, k, "list", NewList,
         LAMBDA e : [e EXCEPT !.list = Pushed(@, vs, at_head)],
         LAMBDA e : IntReply(Len(e.list) + Len(vs)))

Pop(k, at_head) ==
  LET end(e) == IF at_head THEN 1 ELSE Len(e.list)
      rest(e) == IF at_head THEN Tail(e.list) ELSE SubSeq(e.list, 1, Len(e.list) - 1)
  IN  Do(<<"pop", k, at_head>>,
         LAMBDA d, t :
           CASE d[k].type # "list" -> d
             [] d[k].type = "list" /\ Len(d[k].list) = 1 -> [d EXCEPT ![k] = Absent]
             [] OTHER -> [d EXCEPT ![k] = [@ EXCEPT !.list = rest(d[k])]],
         LAMBDA d :
           CASE d[k].type = "none" -> NilReply
             [] d[k].type = "list" -> BulkReply(d[k].list[end(d[k])])
             [] OTHER -> ErrorReply)

Llen(k) == Read(<<"llen", k>>, k, "list", IntReply(0), LAMBDA e : IntReply(Len(e.list)))

\* Position p, counted from 0, or from the end when negative.
Lrange(k, start, stop) ==
  LET from0(p, n) == IF p < 0 THEN n + p ELSE p
      chosen(l) == {i \in 1 .. Len(l) : /\ from0(start, Len(l)) <= i - 1
                                        /\ i - 1 <= from0(stop, Len(l))}
      slice(l) == IF chosen(l) = {} THEN << >>
                  ELSE LET lo == CHOOSE i \in chosen(l) : i - 1 \notin chosen(l)
                       IN  [j \in 1 .. Cardinality(chosen(l)) |-> l[lo + j - 1]]
  IN  Read(<<"lrange", k, start, stop>>, k, "list", ArrayReply(<< >>), LAMBDA e : ArrayReply(slice(e.list)))

-------------------------------------------------------------------------------
\* The hash after the assignments fvs, the later ones winning.
Assigned(h, fvs) ==
  [f \in Fields |->
     IF \E i \in 1 .. Len(fvs) : fvs[i][1] = f
     THEN LET i == CHOOSE i \in 1 .. Len(fvs) :
                     /\ fvs[i][1] = f
                     /\ \A j \in i + 1 .. Len(fvs) : fvs[j][1] # f
          IN  fvs[i][2]
     ELSE h[f]]

Hset(k, fvs) ==
  Update(<<"hset", k, fvs>>, k, "hash", NewHash,
         LAMBDA e : [e EXCEPT !.hash = Assigned(@, fvs)],
         LAMBDA e : IntReply(Cardinality(
                      {f \in Fields : e.hash[f] = Nil /\ Assigned(e.hash, fvs)[f] # Nil})))

Hget(k, f) == Read(<<"hget", k, f>>, k, "hash", NilReply, LAMBDA e : BulkOrNil(e.hash[f]))

Hgetall(k) == Read(<<"hgetall", k>>, k, "hash", ArrayReply(<< >>), LAMBDA e : PairsReply(e.hash))

Hmget(k, fs) ==
  Read(<<"hmget", k, fs>>, k, "hash", ArrayReply([i \in 1 .. Len(fs) |-> NilReply]),
       LAMBDA e : ArrayReply([i \in 1 .. Len(fs) |-> BulkOrNil(e.hash[fs[i]])]))

\* Only fields that are there count; with the last one goes the key.
Hdel(k, fs) ==
  LET gone    == {fs[i] : i \in 1 .. Len(fs)}
      left(e) == [e EXCEPT !.hash = [f \in Fields |-> IF f \in gone THEN Nil ELSE @[f]]]
  IN  Do(<<"hdel", k, fs>>,
         LAMBDA d, t :
           CASE d[k].type # "hash" -> d
             [] d[k].type = "hash" /\ HashFields(left(d[k])) = {} ->
                  [d EXCEPT ![k] = Absent]
             [] OTHER -> [d EXCEPT ![k] = left(d[k])],
         LAMBDA d :
           CASE d[k].type = "none" -> IntReply(0)
             [] d[k].type = "hash" -> IntReply(Cardinality(HashFields(d[k]) \cap gone))
             [] OTHER -> ErrorReply)

Hlen(k) ==
  Read(<<"hlen", k>>, k, "hash", IntReply(0), LAMBDA e : IntReply(Cardinality(HashFields(e))))

-------------------------------------------------------------------------------
Next ==
  \/ \E k \in Keys :
       \/ \E v \in SetValues, opts \in SetOptions : Set(k, v, opts)
       \/ \E delta \in Deltas : Incr(k, delta) \/ Decr(k, delta)
       \/ \E vs \in Args(Elems), at_head \in BOOLEAN : Push(k, vs, at_head)
       \/ \E at_head \in BOOLEAN : Pop(k, at_head)
       \/ \E start, stop \in Indexes : Lrange(k, start, stop)
       \/ \E fvs \in Args(Fields \X Elems) : Hset(k, fvs)
       \/ \E f \in Fields : Hget(k, f)
       \/ \E fs \in Args(Fields) : Hmget(k, fs) \/ Hdel(k, fs)
       \/ Get(k) \/ Type(k) \/ Ttl(k, TRUE) \/ Ttl(k, FALSE)
       \/ Llen(k) \/ Hgetall(k) \/ Hlen(k)
  \/ \E ks \in Args(Keys) : Exists(ks) \/ Del(ks)
  \/ \E pattern \in SUBSET Keys : KeysMatching(pattern)
  \/ Refuse(<<"args">>)

Spec == Init /\ [][Next]_vars

===============================================================================

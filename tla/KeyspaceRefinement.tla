---------------------------- MODULE KeyspaceRefinement -------------------------
(***************************************************************************)
(* The keyspace with lazy expiry implements the one with eager expiry, for *)
(* every set of keys, values and arguments.  A command that reads the      *)
(* clock several times is shown to take effect at its first reading (DEL   *)
(* and EXISTS: each key at its own): what it finds later is what was live  *)
(* then, because only strings expire, and a handler that looks its key up  *)
(* again has found a list, a hash or nothing, or replies with an error.    *)
(* There is one lemma per command; those of the commands that only read,   *)
(* and of SET and INCR, are in KeyspaceProofs.                             *)
(***************************************************************************)
EXTENDS KeyspaceProofs

-------------------------------------------------------------------------------
(* Counting *)

\* f finds each thing of T at one of the places S, all of them among 1 .. n.
OneToOne(f, n, S, T) ==
  /\ S \subseteq 1 .. n /\ f \in [S -> T]
  /\ \A i, j \in S : f[i] = f[j] => i = j
  /\ \A y \in T : \E i \in S : f[i] = y

\* What the library proves of the number of elements of a set.  The lemmas carry it
\* as an assumption and CountsHold discharges it: the library is then no part of
\* what the provers see in them.
Counts ==
  /\ \A a, b \in Int : a <= b => Cardinality(a .. b) = b - a + 1
  /\ Cardinality({}) = 0
  /\ \A a : Cardinality({a}) = 1
  /\ \A a, b : a # b => Cardinality({a} \cup {b}) = 2
  /\ \A n \in Nat : \A S, T, f :
       OneToOne(f, n, S, T) => Cardinality(T) = Cardinality(S)

\* There are then as many things as places.
LEMMA SameNumber ==
  ASSUME Counts, NEW n \in Nat, NEW S, NEW T, NEW f, OneToOne(f, n, S, T)
  PROVE  Cardinality(T) = Cardinality(S)
BY Zenon DEF Counts

\* The numbers from a to b.
LEMMA CountInterval ==
  ASSUME Counts, NEW a \in Int, NEW b \in Int, a <= b
  PROVE  Cardinality(a .. b) = b - a + 1
BY Zenon DEF Counts

\* How many of two things are picked, when they may be the same.
Picked(m, a, n, b) == (IF m = 1 THEN {a} ELSE {}) \cup (IF n = 1 THEN {b} ELSE {})

\* One or two, or none.
LEMMA CountTwo ==
  ASSUME Counts, NEW a, NEW b, NEW m \in {0, 1}, NEW n \in {0, 1}
  PROVE  Cardinality(Picked(m, a, n, b)) = m + (IF m = 1 /\ a = b THEN 0 ELSE n)
<1>1. /\ Cardinality({}) = 0 /\ Cardinality({a}) = 1 /\ Cardinality({b}) = 1
      /\ a # b => Cardinality({a} \cup {b}) = 2
  BY Zenon DEF Counts
<1>2. Cardinality({a} \cup {b}) = IF a = b THEN 1 ELSE 2
  BY <1>1
<1>3. CASE m = 1 /\ n = 1
  BY <1>2, <1>3 DEF Picked
<1>4. CASE m = 1 /\ n = 0
  <2>1. {a} \cup {} = {a}
    OBVIOUS
  <2> QED
    BY <1>1, <1>4, <2>1 DEF Picked
<1>5. CASE m = 0 /\ n = 1
  <2>1. {} \cup {b} = {b}
    OBVIOUS
  <2> QED
    BY <1>1, <1>5, <2>1 DEF Picked
<1>6. CASE m = 0 /\ n = 0
  <2>1. {} \cup {} = {}
    OBVIOUS
  <2> QED
    BY <1>1, <1>6, <2>1 DEF Picked
<1> QED
  BY <1>3, <1>4, <1>5, <1>6

-------------------------------------------------------------------------------
(* DEL *)

\* DEL removes each key it names and counts those that were live at their instant.
LEMMA DelRefines ==
  ASSUME Counts, ~ClockSteps, IInv, NEW ks \in Args(Keys), cmd_del(ks)
  PROVE  Eager!Del(ks)
<1> DEFINE call == <<"del", ks>>
           n == Len(ks)
<1>1. PICK ts \in Readings(Len(ks)) :
        LET counted == {i \in 1 .. Len(ks) :
                          /\ \A j \in 1 .. i - 1 : ks[j] # ks[i]
                          /\ store[ks[i]].type # "none"
                          /\ ~entry_is_expired(store[ks[i]], ts[i])}
        IN  Return([k \in Keys |-> IF \E i \in 1 .. Len(ks) : ks[i] = k
                                   THEN Absent ELSE store[k]],
                   call, IntReply(Cardinality(counted)), ts[Len(ks)])
  BY Zenon DEF cmd_del
<1> DEFINE First(i) == \A j \in 1 .. i - 1 : ks[j] # ks[i]
           Was(i) == Eager!At(Live(store, now), ts[i])[ks[i]] # Absent
           counted == {i \in 1 .. n : First(i) /\ store[ks[i]].type # "none"
                                               /\ ~entry_is_expired(store[ks[i]], ts[i])}
           named(k) == \E i \in 1 .. n : ks[i] = k
           gone == {k \in Keys : \E i \in 1 .. n :
                      /\ ks[i] = k
                      /\ \A j \in 1 .. i - 1 : ks[j] # k
                      /\ Eager!At(Live(store, now), ts[i])[k] # Absent}
<1>2. /\ n \in 1 .. 2 /\ now \in Time /\ store \in Table
      /\ ts[n] \in Time /\ now <= ts[n] /\ ts \in [1 .. n -> now .. ts[n]]
      /\ \A i \in 2 .. n : ts[i] >= ts[i - 1]
      /\ ts[n] \in now .. MaxTime
  BY ArgReadings
<1>3. \A i \in 1 .. n : ts[i] \in Time /\ now <= ts[i] /\ ks[i] \in Keys
  BY ArgReadings
<1>4. /\ cmd' = call /\ now' = ts[n] /\ reply' = IntReply(Cardinality(counted))
      /\ store' = [k \in Keys |-> IF named(k) THEN Absent ELSE store[k]]
  BY <1>1 DEF Return
<1> HIDE DEF n
<1>5. counted = {i \in 1 .. n : First(i) /\ Was(i)}
  <2>1. ASSUME NEW i \in 1 .. n
        PROVE  Was(i) <=> store[ks[i]].type # "none" /\ ~entry_is_expired(store[ks[i]], ts[i])
    <3>1. Eager!At(Live(store, now), ts[i])[ks[i]] = Live(store, ts[i])[ks[i]]
      BY <1>2, <1>3, AtLive
    <3> QED
      BY <1>2, <1>3, <3>1, AbsentType DEF Live
  <2> QED
    BY <2>1, Zenon
<1>6. Cardinality(gone) = Cardinality(counted)
  <2> DEFINE f == [i \in counted |-> ks[i]]
  <2>1. \A i \in counted : i \in 1 .. n /\ First(i) /\ Was(i) /\ ks[i] \in gone
    BY <1>3, <1>5, Zenon
  <2>2. f \in [counted -> gone]
    BY <2>1
  <2>3. ASSUME NEW a \in counted, NEW b \in counted, f[a] = f[b]
        PROVE  a = b
    <3>1. ks[a] = ks[b] /\ a \in 1 .. n /\ b \in 1 .. n /\ First(a) /\ First(b)
      BY <2>1, <2>3
    <3>2. ~(a < b) /\ ~(b < a)
      BY <1>2, <3>1
    <3> QED
      BY <1>2, <3>1, <3>2
  <2>4. ASSUME NEW k \in gone
        PROVE  \E i \in counted : f[i] = k
    <3>1. PICK i \in 1 .. n : ks[i] = k /\ First(i) /\ Was(i)
      BY Zenon
    <3> QED
      BY <1>5, <3>1, SMTT(20)
  <2>5. counted \subseteq 1 .. n /\ n \in Nat
    BY <1>2
  <2> HIDE DEF f, counted, gone
  <2>6. n \in Nat /\ OneToOne(f, n, counted, gone)
    BY <2>2, <2>3, <2>4, <2>5, Zenon DEF OneToOne
  <2> QED
    BY <2>6, SameNumber, Zenon
<1>7. Live(store', now') = [k \in Keys |-> IF named(k) THEN Absent
                                           ELSE Eager!At(Live(store, now), now')[k]]
  <2>1. Eager!At(Live(store, now), now') = Live(store, ts[n])
    BY <1>2, <1>4, AtLive
  <2> HIDE DEF named
  <2>2. ASSUME NEW k \in Keys
        PROVE  (IF entry_is_expired(store'[k], ts[n]) THEN Absent ELSE store'[k])
                 = IF named(k) THEN Absent ELSE Live(store, ts[n])[k]
    BY <1>4 DEF Live
  <2> QED
    BY <1>4, <2>1, <2>2, Zenon DEF Live
<1>8. ts \in Eager!Instants(n)
  BY <1>2, <1>4 DEF Eager!Instants
<1>9. reply' = Eager!IntReply(Eager!Cardinality(gone))
  BY <1>4, <1>6, EagerCardinality, Zenon DEF IntReply, Eager!IntReply
<1> HIDE DEF counted
<1> QED
  BY <1>2, <1>4, <1>7, <1>8, <1>9, Zenon DEF n, Eager!Del, Eager!Absent, Absent

-------------------------------------------------------------------------------
(* Lists *)

\* Both ends of a sequence: what is left without the first, or the last, element.
LEMMA OneLess ==
  ASSUME NEW S, NEW l \in Seq(S), l # << >>
  PROVE  /\ Tail(l) = << >> <=> Len(l) = 1
         /\ SubSeq(l, 1, Len(l) - 1) = << >> <=> Len(l) = 1
<1> DEFINE n == Len(l) - 1
           q == SubSeq(l, 1, n)
<1>1. n \in Nat /\ 1 \in Int /\ n \in Int /\ \A i \in 1 .. n : l[i] \in S
  OBVIOUS
<1> HIDE DEF n
<1>2. q \in Seq(S) /\ Len(q) = IF 1 <= n THEN n - 1 + 1 ELSE 0
  BY <1>1, SMT
<1> HIDE DEF q
<1>3. q = << >> <=> n = 0
  BY <1>1, <1>2
<1>4. n = 0 <=> Len(l) = 1
  BY DEF n
<1>5. Tail(l) \in Seq(S) /\ Len(Tail(l)) = n
  BY SMT DEF n
<1>6. Tail(l) = << >> <=> n = 0
  <2> DEFINE z == Tail(l)
  <2>1. z \in Seq(S) /\ Len(z) = n
    BY <1>5
  <2> HIDE DEF z
  <2>2. z = << >> <=> n = 0
    BY <1>1, <2>1
  <2> QED
    BY <2>2 DEF z
<1> QED
  BY <1>3, <1>4, <1>6 DEF n, q

\* LPOP and RPOP take the element away and, with the last one, the key.
LEMMA PopRefines ==
  ASSUME ~ClockSteps, IInv, NEW k \in Keys, NEW at_head \in BOOLEAN, pop_common(k, at_head)
  PROVE  Eager!Pop(k, at_head)
<1> DEFINE call == <<"pop", k, at_head>>
<1>1. PICK ts \in Readings(1) :
        LET s == Lookup(store, k, ts[1])
            l == s[k].list
        IN  CASE s[k].type = "none" \/ (s[k].type = "list" /\ l = << >>) ->
                   Return(s, call, NilReply, ts[1])
              [] s[k].type = "list" /\ l # << >> ->
                   Return(store_list_pop(s, k, at_head), call,
                          BulkReply(l[IF at_head THEN 1 ELSE Len(l)]), ts[1])
              [] OTHER ->
                   Return(s, call, ErrorReply, ts[1])
  BY DEF pop_common
<1> DEFINE t == ts[1]
           s == Lookup(store, k, t)
           L == Live(store, t)
           e == L[k]
           l == e.list
           rest == IF at_head THEN Tail(l) ELSE SubSeq(l, 1, Len(l) - 1)
           after == CASE e.type # "list" -> L
                      [] e.type = "list" /\ Len(l) = 1 -> [L EXCEPT ![k] = Absent]
                      [] OTHER -> [L EXCEPT ![k] = [e EXCEPT !.list = rest]]
<1>2. /\ t \in Time /\ now <= t /\ now \in Time /\ store \in Table
      /\ s \in Table /\ e = s[k] /\ e \in GoodEntry
      /\ e.type = "list" => l \in Seq(Elems) /\ l # << >>
      /\ t <= t
  BY ReadingsOrdered, LookupTable, LiveKey, LiveTable, GoodListShape DEF IInv, Table, Time
<1>3. /\ t \in now .. MaxTime /\ now' = t /\ now' \in t .. MaxTime
      /\ Eager!At(Live(store, now), t) = L
      /\ cmd' = call
  <2>1. cmd' = call /\ now' = t
    <3> HIDE DEF call
    <3> QED
      BY <1>1 DEF Return
  <2> QED
    BY <1>2, <2>1, AtLive DEF Time
<1>4. reply' = CASE e.type = "none" -> NilReply
                 [] e.type = "list" -> BulkReply(l[IF at_head THEN 1 ELSE Len(l)])
                 [] OTHER -> ErrorReply
  <2> HIDE DEF L
  <2> QED
    BY <1>1, <1>2 DEF Return
<1>5. Live(store', now') = Eager!At(after, now')
  <2>1. Live(s, t) = L
    BY <1>2, LookupLive DEF Time
  <2>2. CASE e.type # "list"
    <3>1. store' = s /\ after = L
      BY <1>1, <1>2, <2>2 DEF Return
    <3> QED
      BY <1>2, <1>3, <2>1, <3>1, AtLive DEF Time
  <2>3. CASE e.type = "list"
    <3> DEFINE x == IF rest = << >> THEN Absent ELSE [e EXCEPT !.list = rest]
    <3>1. store' = [s EXCEPT ![k] = x]
      BY <1>1, <1>2, <2>3, Zenon DEF Return, store_list_pop
    <3>2. rest = << >> <=> Len(l) = 1
      <4>1. l \in Seq(Elems) /\ l # << >>
        BY <1>2, <2>3
      <4> HIDE DEF l
      <4> QED
        BY <4>1, OneLess
    <3>3. after = [L EXCEPT ![k] = x]
      <4> HIDE DEF e, L, rest
      <4> QED
        BY <2>3, <3>2, Zenon
    <3> HIDE DEF x, after, L, s
    <3>4. Live([s EXCEPT ![k] = x], t) = Eager!At([Live(s, t) EXCEPT ![k] = x], t)
      BY <1>2, ReplaceLive
    <3> QED
      BY <1>3, <2>1, <3>1, <3>3, <3>4
  <2> QED
    BY <2>2, <2>3
<1> HIDE DEF t, L
<1> QED
  BY <1>3, <1>4, <1>5, Zenon
     DEF Eager!Pop, Eager!Do, Eager!NilReply, NilReply, Eager!BulkReply, BulkReply,
         Eager!ErrorReply, ErrorReply, Eager!Absent, Absent

\* The positions LRANGE selects, counted from 1, are an interval.
LEMMA RangeIsInterval ==
  ASSUME NEW n \in Nat, NEW start \in Int, NEW stop \in Int
  PROVE  LET r == normalise_range(start, stop, n)
             from0(p) == IF p < 0 THEN n + p ELSE p
         IN  /\ r.first \in Int /\ r.last \in Int /\ r.empty \in BOOLEAN
             /\ ~r.empty => r.first <= r.last /\ 0 <= r.first /\ r.last + 1 <= n
             /\ {i \in 1 .. n : from0(start) <= i - 1 /\ i - 1 <= from0(stop)}
                  = IF r.empty THEN {} ELSE r.first + 1 .. r.last + 1
<1> DEFINE r == normalise_range(start, stop, n)
           a == IF start < 0 THEN n + start ELSE start
           b == IF stop < 0 THEN n + stop ELSE stop
           first == IF a < 0 THEN 0 ELSE a
           final == IF b >= n THEN n - 1 ELSE b
           chosen == {i \in 1 .. n : a <= i - 1 /\ i - 1 <= b}
<1>1. r.first = first /\ r.last = final /\ r.empty = (n = 0 \/ first > final)
  <2>1. start + n = n + start /\ stop + n = n + stop
    OBVIOUS
  <2> QED
    BY <2>1 DEF normalise_range
<1>2. a \in Int /\ b \in Int
  OBVIOUS
<1> HIDE DEF a, b
<1>3. first \in Int /\ final \in Int
  BY <1>2
<1>4. (n = 0 \/ first > final) => chosen = {}
  BY <1>2
<1>5. ~(n = 0 \/ first > final) =>
        /\ first <= final /\ 0 <= first /\ final + 1 <= n
        /\ chosen = first + 1 .. final + 1
  BY <1>2
<1> HIDE DEF r, first, final
<1>6. /\ r.first \in Int /\ r.last \in Int /\ r.empty \in BOOLEAN
      /\ ~r.empty => r.first <= r.last /\ 0 <= r.first /\ r.last + 1 <= n
      /\ chosen = IF r.empty THEN {} ELSE r.first + 1 .. r.last + 1
  BY <1>1, <1>3, <1>4, <1>5, Zenon
<1> QED
  BY <1>6 DEF r, a, b

\* The elements of l at the positions a .. b, counted from 0.
Slice(l, a, b) == [j \in 1 .. b - a + 1 |-> l[a + 1 + j - 1]]

\* SubSeq is such a slice.
LEMMA SliceIs ==
  ASSUME NEW S, NEW l \in Seq(S), NEW a \in Int, NEW b \in Int, 0 <= a, a <= b, b + 1 <= Len(l)
  PROVE  SubSeq(l, a + 1, b + 1) = Slice(l, a, b)
<1>1. a + 1 \in 1 .. Len(l) + 1 /\ b + 1 \in a + 1 - 1 .. Len(l) /\ Len(l) \in Nat
  OBVIOUS
<1>2. (b + 1) - (a + 1) + 1 = b - a + 1
  OBVIOUS
<1> DEFINE q == SubSeq(l, a + 1, b + 1)
<1>3. q \in Seq(S) /\ Len(q) = b - a + 1 /\ \A j \in 1 .. b - a + 1 : q[j] = l[a + 1 + j - 1]
  BY <1>1, <1>2, SMT
<1>4. DOMAIN q = 1 .. b - a + 1 /\ q = [j \in DOMAIN q |-> q[j]]
  BY <1>3, SMTT(20)
<1> HIDE DEF q
<1>5. q = Slice(l, a, b)
  BY <1>3, <1>4 DEF Slice
<1> QED
  BY <1>5 DEF q

\* LRANGE replies with the elements between its two positions.
LEMMA LrangeRefines ==
  ASSUME Counts, ~ClockSteps, IInv, NEW k \in Keys, NEW start \in Indexes, NEW stop \in Indexes,
         cmd_lrange(k, start, stop)
  PROVE  Eager!Lrange(k, start, stop)
<1> DEFINE call == <<"lrange", k, start, stop>>
<1>1. PICK ts \in Readings(1) :
        LET s == Lookup(store, k, ts[1])
            r == normalise_range(start, stop, Len(s[k].list))
        IN  Return(s, call,
                   CASE s[k].type = "list" /\ ~r.empty ->
                          ArrayReply(SubSeq(s[k].list, r.first + 1, r.last + 1))
                     [] s[k].type \in {"string", "hash"} -> ErrorReply
                     [] OTHER -> ArrayReply(<< >>),
                   ts[1])
  BY Zenon DEF cmd_lrange
<1> DEFINE t == ts[1]
           L == Eager!At(Live(store, now), t)
           e == L[k]
           l == e.list
           From0(p) == IF p < 0 THEN Len(l) + p ELSE p
           chosen == {i \in 1 .. Len(l) : From0(start) <= i - 1 /\ i - 1 <= From0(stop)}
           lo == CHOOSE i \in chosen : i - 1 \notin chosen
           slice == IF chosen = {} THEN << >>
                    ELSE [j \in 1 .. Cardinality(chosen) |-> l[lo + j - 1]]
           r == normalise_range(start, stop, Len(l))
<1>2. /\ t \in now .. MaxTime /\ now' \in t .. MaxTime
      /\ L = Live(store, t)
  BY <1>1, OneLookup DEF Return
<1> HIDE DEF L
<1>3. cmd' = call
  BY <1>1 DEF Return
<1>4. Live(store', now') = Eager!At(L, now')
  BY <1>1, <1>2, OneLookup DEF Return
<1>5. e \in GoodEntry /\ e.type \in {"none", "string", "list", "hash"}
  BY <1>2, LiveTable, EntryCases, Zenon DEF IInv, Table, GoodEntry
<1>6. ASSUME e.type = "list"
      PROVE  slice = IF r.empty THEN << >> ELSE SubSeq(l, r.first + 1, r.last + 1)
  <2>1. l \in Seq(Elems) /\ start \in Int /\ stop \in Int
    BY <1>5, <1>6, GoodListShape, KeyspaceAssumption, KeyTypesAssumption DEF Int64, INT64_MIN
  <2>2. Len(l) \in Nat
    BY <2>1
  <2> HIDE DEF l
  <2>3. /\ r.first \in Int /\ r.last \in Int /\ r.empty \in BOOLEAN
        /\ ~r.empty => r.first <= r.last /\ 0 <= r.first /\ r.last + 1 <= Len(l)
        /\ chosen = IF r.empty THEN {} ELSE r.first + 1 .. r.last + 1
    BY <2>1, <2>2, RangeIsInterval, Zenon
  <2> HIDE DEF r, chosen
  <2>4. CASE r.empty
    BY <2>3, <2>4
  <2>5. CASE ~r.empty
    <3>1. chosen = r.first + 1 .. r.last + 1 /\ r.first + 1 \in chosen
      BY <2>3, <2>5
    <3>2. lo = r.first + 1
      <4>1. \A i \in chosen : i - 1 \notin chosen <=> i = r.first + 1
        BY <2>3, <3>1, SMTT(20)
      <4> QED
        BY <3>1, <4>1
    <3>3. Cardinality(chosen) = r.last - r.first + 1
      <4>1. r.first + 1 \in Int /\ r.last + 1 \in Int /\ r.first + 1 <= r.last + 1
            /\ (r.last + 1) - (r.first + 1) + 1 = r.last - r.first + 1
        BY <2>3, <2>5, SMTT(20)
      <4> QED
        BY <3>1, <4>1, CountInterval
    <3> HIDE DEF lo
    <3>4. slice = Slice(l, r.first, r.last)
      BY <3>1, <3>2, <3>3, Zenon DEF Slice
    <3>5. SubSeq(l, r.first + 1, r.last + 1) = Slice(l, r.first, r.last)
      BY <2>1, <2>3, <2>5, SliceIs, Zenon
    <3> QED
      BY <2>5, <3>4, <3>5, Zenon
  <2> QED
    BY <2>3, <2>4, <2>5
<1>7. reply' = CASE e.type = "list" -> ArrayReply(slice)
                 [] e.type = "none" -> ArrayReply(<< >>)
                 [] OTHER           -> ErrorReply
  <2>1. reply' = CASE e.type = "list" /\ ~r.empty ->
                        ArrayReply(SubSeq(l, r.first + 1, r.last + 1))
                   [] e.type \in {"string", "hash"} -> ErrorReply
                   [] OTHER -> ArrayReply(<< >>)
    BY <1>1, <1>2, OneLookup DEF Return
  <2> HIDE DEF slice, e, r, l
  <2> QED
    BY <1>5, <1>6, <2>1, Zenon
<1>8. reply' = CASE e.type = "list" ->
                      Eager!ArrayReply(
                        IF chosen = {} THEN << >>
                        ELSE [j \in 1 .. Eager!Cardinality(chosen) |-> l[lo + j - 1]])
                 [] e.type = "none" -> Eager!ArrayReply(<< >>)
                 [] OTHER           -> Eager!ErrorReply
  <2>1. slice = IF chosen = {} THEN << >>
                ELSE [j \in 1 .. Eager!Cardinality(chosen) |-> l[lo + j - 1]]
    BY EagerCardinality, Zenon
  <2> HIDE DEF slice, e, l, lo, chosen
  <2> QED
    BY <1>7, <2>1, Zenon DEF Eager!ArrayReply, ArrayReply, Eager!ErrorReply, ErrorReply
<1> HIDE DEF t
<1> QED
  BY <1>2, <1>3, <1>4, <1>8, Zenon DEF L, Eager!Lrange, Eager!Read, Eager!Do, Eager!Same

\* A list entry with the elements l.
ListOf(l) == [type |-> "list", list |-> l, expires_at |-> 0]

\* The elements a push finds: those of the list, or none.
Elements(e) == IF e.type = "none" THEN << >> ELSE e.list

OneMore(m, v, at_head) == IF at_head THEN <<v>> \o m ELSE Append(m, v)

\* One push on a list, or on no entry.
LEMMA PushIs ==
  ASSUME NEW r, r.s \in Table, NEW k \in Keys, NEW v \in Elems, NEW at_head \in BOOLEAN,
         NEW t, r.s[k].type \in {"none", "list"}
  PROVE  LET q == store_list_push(r, k, v, at_head, t)
             m == Elements(r.s[k])
             l == OneMore(m, v, at_head)
         IN  /\ m \in Seq(Elems)
             /\ q.s = [r.s EXCEPT ![k] = ListOf(l)]
             /\ q.len = Len(l)
<1> DEFINE q == store_list_push(r, k, v, at_head, t)
           e == IF r.s[k].type = "none" THEN NewList ELSE r.s[k]
           m == Elements(r.s[k])
           l == OneMore(m, v, at_head)
<1>1. Lookup(r.s, k, t) = r.s
  BY LookupFinds
<1>2. e = ListOf(m) /\ m \in Seq(Elems)
  <2>1. r.s[k] \in GoodEntry
    BY DEF Table
  <2> QED
    BY <2>1, GoodListShape DEF NewList, ListOf, Elements
<1>3. e.type = "list" /\ e.list = m
  BY <1>2 DEF ListOf
<1>4. q = [s |-> [r.s EXCEPT ![k] = [e EXCEPT !.list = l]], len |-> Len(l)]
  <2> HIDE DEF m
  <2> QED
    BY <1>1, <1>3, Zenon DEF store_list_push, OneMore
<1> HIDE DEF l, e
<1>5. [e EXCEPT !.list = l] = ListOf(l)
  BY <1>2 DEF ListOf
<1>6. q.s = [r.s EXCEPT ![k] = ListOf(l)] /\ q.len = Len(l)
  BY <1>4, <1>5
<1> QED
  BY <1>2, <1>6 DEF l

\* The elements of two sequences joined.
LEMMA ConcatIs ==
  ASSUME NEW S, NEW s \in Seq(S), NEW t \in Seq(S)
  PROVE  /\ s \o t \in Seq(S) /\ Len(s \o t) = Len(s) + Len(t)
         /\ \A i \in 1 .. Len(s) + Len(t) : (s \o t)[i] = IF i <= Len(s) THEN s[i] ELSE t[i - Len(s)]
OBVIOUS

\* Two elements in front of a sequence.
LEMMA JoinTwo ==
  ASSUME NEW S, NEW m \in Seq(S), NEW a \in S, NEW b \in S
  PROVE  <<b>> \o (<<a>> \o m) = <<b, a>> \o m
<1> DEFINE x == <<a>>
           y == <<b>>
           q == y \o x
<1>1. x \in Seq(S) /\ Len(x) = 1 /\ x[1] = a
  OBVIOUS
<1>2. y \in Seq(S) /\ Len(y) = 1 /\ y[1] = b
  OBVIOUS
<1> HIDE DEF x, y
<1>3. q \in Seq(S) /\ Len(q) = 2 /\ q[1] = b /\ q[2] = a
  <2>1. q \in Seq(S) /\ Len(q) = Len(y) + Len(x)
    BY <1>1, <1>2, ConcatIs, Zenon
  <2>2. \A i \in 1 .. Len(y) + Len(x) : q[i] = IF i <= Len(y) THEN y[i] ELSE x[i - Len(y)]
    BY <1>1, <1>2, ConcatIs, Zenon
  <2> HIDE DEF q
  <2> QED
    BY <1>1, <1>2, <2>1, <2>2
<1>4. q \o m = y \o (x \o m)
  BY <1>1, <1>2, SMTT(20)
<1> HIDE DEF q
<1>5. q = <<b, a>>
  BY <1>3
<1> QED
  BY <1>4, <1>5, Zenon DEF x, y

\* One push after the other, or all values at once.
LEMMA PushedOne ==
  ASSUME NEW m \in Seq(Elems), NEW a \in Elems, NEW at_head \in BOOLEAN
  PROVE  /\ OneMore(m, a, at_head) = Eager!Pushed(m, <<a>>, at_head)
         /\ Len(OneMore(m, a, at_head)) = Len(m) + 1
<1>1. [i \in 1 .. Len(<<a>>) |-> <<a>>[Len(<<a>>) + 1 - i]] = <<a>>
  OBVIOUS
<1>2. m \o <<a>> = Append(m, a)
  OBVIOUS
<1>3. Len(<<a>> \o m) = Len(m) + 1 /\ Len(Append(m, a)) = Len(m) + 1
  OBVIOUS
<1> QED
  BY <1>1, <1>2, <1>3, Zenon DEF Eager!Pushed, OneMore

\* The same for two values.
LEMMA PushedTwo ==
  ASSUME NEW m \in Seq(Elems), NEW a \in Elems, NEW b \in Elems, NEW at_head \in BOOLEAN
  PROVE  LET l == OneMore(OneMore(m, a, at_head), b, at_head)
         IN  l = Eager!Pushed(m, <<a, b>>, at_head) /\ Len(l) = Len(m) + 2
<1>1. [i \in 1 .. Len(<<a, b>>) |-> <<a, b>>[Len(<<a, b>>) + 1 - i]] = <<b, a>>
  OBVIOUS
<1>2. m \o <<a, b>> = Append(Append(m, a), b)
  OBVIOUS
<1>3. <<b>> \o (<<a>> \o m) = <<b, a>> \o m
  BY JoinTwo, Zenon
<1>4. Len(<<b>> \o (<<a>> \o m)) = Len(m) + 2 /\ Len(Append(Append(m, a), b)) = Len(m) + 2
  OBVIOUS
<1> QED
  BY <1>1, <1>2, <1>3, <1>4, Zenon DEF Eager!Pushed, OneMore

\* LPUSH and RPUSH add their values one by one; the eager push adds all at once.
LEMMA PushRefines ==
  ASSUME ~ClockSteps, IInv, NEW k \in Keys, NEW vs \in Args(Elems), NEW at_head \in BOOLEAN,
         push_common(k, vs, at_head)
  PROVE  Eager!Push(k, vs, at_head)
<1> DEFINE call == <<"push", k, vs, at_head>>
<1>1. PICK ts \in Readings(2 + Len(vs)) :
        LET s1 == Lookup(store, k, ts[1])
            s2 == IF s1[k].type = "none" THEN s1 ELSE Lookup(s1, k, ts[2])
            r1 == store_list_push([s |-> s2, len |-> 0], k, vs[1], at_head, ts[3])
            r2 == IF Len(vs) = 1 THEN r1
                  ELSE store_list_push(r1, k, vs[2], at_head, ts[4])
        IN  IF s1[k].type # "none" /\ s2[k].type # "list"
            THEN Return(s2, call, ErrorReply, ts[2])
            ELSE Return(r2.s, call, IntReply(r2.len), ts[2 + Len(vs)])
  BY Zenon DEF push_common
<1> DEFINE t == ts[1]
           L == Eager!At(Live(store, now), t)
           s1 == Lookup(store, k, t)
           s2 == IF s1[k].type = "none" THEN s1 ELSE Lookup(s1, k, ts[2])
           r0 == [s |-> s2, len |-> 0]
           r1 == store_list_push(r0, k, vs[1], at_head, ts[3])
           r2 == IF Len(vs) = 1 THEN r1
                 ELSE store_list_push(r1, k, vs[2], at_head, ts[4])
           n == 2 + Len(vs)
           old == IF L[k].type = "none" THEN NewList ELSE L[k]
           x == [old EXCEPT !.list = Eager!Pushed(@, vs, at_head)]
           after == IF old.type = "list" THEN [L EXCEPT ![k] = x] ELSE L
           answer == IF old.type = "list" THEN IntReply(Len(old.list) + Len(vs)) ELSE ErrorReply
<1>2. /\ Len(vs) \in 1 .. 2 /\ vs[1] \in Elems /\ (Len(vs) = 2 => vs[2] \in Elems)
      /\ (Len(vs) = 1 => vs = <<vs[1]>>) /\ (Len(vs) = 2 => vs = <<vs[1], vs[2]>>)
  BY DEF Args
<1>3. /\ t \in Time /\ ts[2] \in Time /\ ts[n] \in Time
      /\ now <= t /\ t <= ts[2] /\ ts[2] <= ts[n] /\ t <= ts[n]
      /\ now \in Time /\ store \in Table
  <2>1. now \in Time /\ n \in Nat
    BY <1>2 DEF IInv
  <2>2. /\ t \in Time /\ now <= t /\ ts[2] \in Time /\ t <= ts[2]
        /\ ts[3] \in Time /\ ts[2] <= ts[3]
        /\ n >= 4 => ts[4] \in Time /\ ts[3] <= ts[4]
    BY <1>2, <2>1, ReadingsOrdered
  <2>3. n \in {3, 4}
    <3>1. \A i \in 1 .. 2 : 2 + i \in {3, 4}
      OBVIOUS
    <3> QED
      BY <1>2, <3>1, Zenon
  <2> HIDE DEF n
  <2> QED
    BY <2>1, <2>2, <2>3 DEF IInv, Time
<1>4. /\ s1 \in Table /\ s2 \in Table /\ L = Live(store, t) /\ s1[k] = L[k]
      /\ L[k] \in GoodEntry /\ L[k].type \in {"none", "string", "list", "hash"}
  <2>1. s1 \in Table /\ L = Live(store, t) /\ s1[k] = Live(store, t)[k]
    BY <1>3, AtLive, LookupTable, LiveKey
  <2> HIDE DEF s1, L
  <2>2. s2 \in Table
    BY <2>1, LookupTable
  <2>3. s1[k] \in GoodEntry
    BY <2>1 DEF Table
  <2>4. s1[k].type \in {"none", "string", "list", "hash"}
    BY <2>3, EntryCases DEF GoodEntry
  <2> QED
    BY <2>1, <2>2, <2>3, <2>4
<1> HIDE DEF L
<1>5. t \in now .. MaxTime
  BY <1>3 DEF Time
<1>6. /\ now' \in t .. MaxTime /\ cmd' = call /\ reply' = answer
      /\ Live(store', now') = Eager!At(after, now')
  <2>1. CASE L[k].type \in {"string", "hash"}
    <3>1. s2[k].type # "list"
      BY <1>4, <2>1 DEF Lookup, Absent, Table
    <3>2. store' = s2 /\ cmd' = call /\ reply' = ErrorReply /\ now' = ts[2]
      <4> HIDE DEF call
      <4> QED
        BY <1>1, <1>4, <2>1, <3>1, Zenon DEF Return
    <3>3. after = L /\ answer = ErrorReply
      BY <2>1
    <3>4. Live(s2, ts[2]) = Live(s1, ts[2]) /\ Live(s1, ts[2]) = Live(store, ts[2])
      BY <1>3, <1>4, LookupLive DEF Time
    <3>5. Eager!At(L, ts[2]) = Live(store, ts[2])
      BY <1>3, <1>4, AtLive
    <3> HIDE DEF after, answer, call, s2
    <3> QED
      BY <1>3, <3>2, <3>3, <3>4, <3>5 DEF Time
  <2>2. CASE L[k].type \in {"none", "list"}
    <3> DEFINE m == Elements(s1[k])
               l1 == OneMore(m, vs[1], at_head)
               l2 == OneMore(l1, vs[2], at_head)
               l == IF Len(vs) = 1 THEN l1 ELSE l2
    <3>1. s2 = s1 /\ s1[k].type \in {"none", "list"}
      BY <1>4, <2>2, LookupFinds
    <3>2. store' = r2.s /\ cmd' = call /\ reply' = IntReply(r2.len) /\ now' = ts[n]
      <4> HIDE DEF call
      <4> QED
        BY <1>1, <3>1, Zenon DEF Return
    <3>3. r0.s \in Table /\ r0.s[k].type \in {"none", "list"} /\ r0.s = s1
      BY <1>4, <3>1, Zenon
    <3> HIDE DEF r0, s1, s2
    <3>4. m \in Seq(Elems) /\ r1.s = [s1 EXCEPT ![k] = ListOf(l1)] /\ r1.len = Len(l1)
      <4> HIDE DEF t, n
      <4> QED
        BY <1>2, <3>3, PushIs, SMTT(20)
    <3>5. r1.s \in Table
      BY <1>2, <3>3, ListPushTable
    <3> HIDE DEF r1, l1
    <3>6. r1.s[k] = ListOf(l1) /\ r1.s[k].type = "list" /\ Elements(r1.s[k]) = l1
      BY <1>4, <3>4 DEF ListOf, Elements, Table
    <3>7. Len(vs) = 2 => r2.s = [r1.s EXCEPT ![k] = ListOf(l2)] /\ r2.len = Len(l2)
      BY <1>2, <3>5, <3>6, PushIs
    <3> HIDE DEF l2
    <3>8. r2.s = [s1 EXCEPT ![k] = ListOf(l)] /\ r2.len = Len(l)
      <4>1. CASE Len(vs) = 1
        BY <3>4, <4>1
      <4>2. CASE Len(vs) = 2
        <5>1. [r1.s EXCEPT ![k] = ListOf(l2)] = [s1 EXCEPT ![k] = ListOf(l2)]
          BY <3>4, Zenon
        <5> HIDE DEF r2
        <5> QED
          BY <3>7, <4>2, <5>1
      <4> QED
        BY <1>2, <4>1, <4>2
    <3>9. l = Eager!Pushed(m, vs, at_head) /\ Len(l) = Len(m) + Len(vs)
      <4>1. CASE Len(vs) = 1
        <5>1. l = OneMore(m, vs[1], at_head) /\ vs = <<vs[1]>>
          BY <1>2, <4>1 DEF l1
        <5>2. l = Eager!Pushed(m, <<vs[1]>>, at_head) /\ Len(l) = Len(m) + 1
          BY <1>2, <3>4, <5>1, PushedOne
        <5> QED
          BY <4>1, <5>1, <5>2, Zenon
      <4>2. CASE Len(vs) = 2
        <5>1. l = OneMore(OneMore(m, vs[1], at_head), vs[2], at_head) /\ vs = <<vs[1], vs[2]>>
          BY <1>2, <4>2 DEF l1, l2
        <5>2. l = Eager!Pushed(m, <<vs[1], vs[2]>>, at_head) /\ Len(l) = Len(m) + 2
          BY <1>2, <3>4, <4>2, <5>1, PushedTwo
        <5> QED
          BY <4>2, <5>1, <5>2, Zenon
      <4> QED
        BY <1>2, <4>1, <4>2
    <3>10. old = ListOf(m) /\ old.type = "list" /\ old.list = m
      BY <1>4, <2>2, GoodListShape DEF Elements, ListOf, NewList
    <3> HIDE DEF old, l, m
    <3>11. x = ListOf(l)
      BY <3>9, <3>10 DEF ListOf
    <3>12. after = [L EXCEPT ![k] = ListOf(l)] /\ answer = IntReply(Len(l))
      BY <3>9, <3>10, <3>11, Zenon
    <3>13. Live(s1, t) = L
      BY <1>3, <1>4, LookupLive DEF s1, Time
    <3>14. Live([s1 EXCEPT ![k] = ListOf(l)], ts[n])
             = Eager!At([Live(s1, t) EXCEPT ![k] = ListOf(l)], ts[n])
      <4> HIDE DEF t, n
      <4> QED
        BY <1>3, <1>4, ReplaceLive
    <3> HIDE DEF after, answer, call, r2
    <3>15. Live(store', now') = Eager!At(after, now')
      BY <3>2, <3>8, <3>12, <3>13, <3>14
    <3> QED
      BY <1>3, <3>2, <3>8, <3>12, <3>15 DEF Time
  <2> QED
    BY <1>4, <2>1, <2>2
<1> HIDE DEF t
<1> QED
  BY <1>5, <1>6, Zenon
     DEF L, Eager!Push, Eager!Update, Eager!Do, Eager!NewList, NewList, Eager!IntReply, IntReply,
         Eager!ErrorReply, ErrorReply

-------------------------------------------------------------------------------
(* Hashes *)

\* A hash entry with the fields h, and the fields an entry has.
HashOf(h) == [type |-> "hash", hash |-> h, expires_at |-> 0]

Content(e) == IF e.type = "none" THEN [f \in Fields |-> Nil] ELSE e.hash

Hashes == [Fields -> Elems \cup {Nil}]

\* An entry that is a hash, or none, has fields and does not expire.
LEMMA ContentIs ==
  ASSUME NEW e \in GoodEntry, e.type \in {"none", "hash"}
  PROVE  /\ Content(e) \in Hashes /\ e.expires_at = 0
         /\ (IF e.type = "none" THEN NewHash ELSE e) = HashOf(Content(e))
<1>1. CASE e.type = "none"
  BY <1>1 DEF Content, Hashes, NewHash, HashOf, GoodEntry
<1>2. CASE e.type = "hash"
  BY <1>2, GoodHashShape DEF Content, Hashes, HashOf, GoodEntry
<1> QED
  BY <1>1, <1>2

\* What setting a field does to a hash, or to no entry.
SetsField(s0, k, f, v, t) ==
  LET r == store_hash_set(s0, k, f, v, t)
      s == Lookup(s0, k, t)
      h == Content(s[k])
  IN  /\ r.ok = TRUE
      /\ r.s = [s EXCEPT ![k] = HashOf([h EXCEPT ![f] = v])]
      /\ r.created = IF h[f] = Nil THEN 1 ELSE 0

\* One store_hash_set.
LEMMA HsetIs ==
  ASSUME NEW s0 \in Table, NEW k \in Keys, NEW f \in Fields, NEW v \in Elems, NEW t,
         Lookup(s0, k, t)[k].type \in {"none", "hash"}
  PROVE  SetsField(s0, k, f, v, t)
<1> DEFINE r == store_hash_set(s0, k, f, v, t)
           s == Lookup(s0, k, t)
           e == IF s[k].type = "none" THEN NewHash ELSE s[k]
           h == Content(s[k])
<1>1. s \in Table /\ s[k] \in GoodEntry
  BY LookupTable DEF Table
<1>2. h \in Hashes /\ e = HashOf(h)
  BY <1>1, ContentIs
<1>3. e.type = "hash" /\ e.hash = h
  BY <1>2 DEF HashOf
<1>4. r = [s |-> [s EXCEPT ![k] = [e EXCEPT !.hash[f] = v]],
           ok |-> TRUE, created |-> IF e.hash[f] = Nil THEN 1 ELSE 0]
  BY <1>3 DEF store_hash_set
<1> DEFINE g == [e EXCEPT !.hash[f] = v]
<1>5. r.s = [s EXCEPT ![k] = g] /\ r.ok = TRUE /\ r.created = IF e.hash[f] = Nil THEN 1 ELSE 0
  <2> HIDE DEF e, s, g
  <2> QED
    BY <1>4 DEF g
<1> HIDE DEF e, h, s
<1>6. [e EXCEPT !.hash[f] = v] = HashOf([h EXCEPT ![f] = v])
  BY <1>2 DEF HashOf
<1> HIDE DEF r
<1>7. /\ r.ok = TRUE
      /\ r.s = [s EXCEPT ![k] = HashOf([h EXCEPT ![f] = v])]
      /\ r.created = IF h[f] = Nil THEN 1 ELSE 0
  BY <1>3, <1>5, <1>6, Zenon
<1> QED
  BY <1>7 DEF r, s, h, SetsField

\* The last of the assignments to a field.
LastTo(fvs, g) == CHOOSE i \in 1 .. Len(fvs) :
                    /\ fvs[i][1] = g
                    /\ \A j \in i + 1 .. Len(fvs) : fvs[j][1] # g

AssignedTo(h, fvs, g) ==
  IF \E i \in 1 .. Len(fvs) : fvs[i][1] = g THEN fvs[LastTo(fvs, g)][2] ELSE h[g]

\* A function that agrees field by field is the one Assigned gives.
LEMMA AssignedIs ==
  ASSUME NEW h, NEW fvs, NEW G \in Hashes, \A g \in Fields : G[g] = AssignedTo(h, fvs, g)
  PROVE  Eager!Assigned(h, fvs) = G
<1>1. Eager!Assigned(h, fvs) = [g \in Fields |-> AssignedTo(h, fvs, g)]
  BY DEF Eager!Assigned, AssignedTo, LastTo
<1>2. G = [g \in Fields |-> G[g]]
  BY DEF Hashes
<1>3. [g \in Fields |-> G[g]] = [g \in Fields |-> AssignedTo(h, fvs, g)]
  OBVIOUS
<1> QED
  BY <1>1, <1>2, <1>3

\* The assignments one after the other, or all at once.
LEMMA AssignedOne ==
  ASSUME NEW h \in Hashes, NEW f \in Fields, NEW v \in Elems, NEW fvs, fvs = <<<<f, v>>>>
  PROVE  Eager!Assigned(h, fvs) = [h EXCEPT ![f] = v]
<1>1. Len(fvs) = 1 /\ fvs[1][1] = f /\ fvs[1][2] = v
  OBVIOUS
<1> DEFINE G == [h EXCEPT ![f] = v]
<1>2. ASSUME NEW g \in Fields
      PROVE  G[g] = AssignedTo(h, fvs, g)
  <2>1. CASE g = f
    <3>1. LastTo(fvs, g) = 1
      BY <1>1, <2>1 DEF LastTo
    <3> QED
      BY <1>1, <2>1, <3>1 DEF Hashes, AssignedTo
  <2>2. CASE g # f
    BY <1>1, <2>2 DEF Hashes, AssignedTo
  <2> QED
    BY <2>1, <2>2
<1>3. G \in Hashes
  BY DEF Hashes
<1> HIDE DEF G
<1>4. Eager!Assigned(h, fvs) = G
  BY <1>2, <1>3, AssignedIs
<1> QED
  BY <1>4 DEF G

\* The same for two assignments.
LEMMA AssignedTwo ==
  ASSUME NEW h \in Hashes, NEW f1 \in Fields, NEW v1 \in Elems, NEW f2 \in Fields,
         NEW v2 \in Elems, NEW fvs, fvs = <<<<f1, v1>>, <<f2, v2>>>>
  PROVE  Eager!Assigned(h, fvs) = [[h EXCEPT ![f1] = v1] EXCEPT ![f2] = v2]
<1>1. /\ Len(fvs) = 2 /\ fvs[1][1] = f1 /\ fvs[1][2] = v1
      /\ fvs[2][1] = f2 /\ fvs[2][2] = v2
  OBVIOUS
<1> DEFINE G == [[h EXCEPT ![f1] = v1] EXCEPT ![f2] = v2]
<1>2. ASSUME NEW g \in Fields
      PROVE  G[g] = AssignedTo(h, fvs, g)
  <2>1. CASE g = f2
    <3>1. LastTo(fvs, g) = 2
      BY <1>1, <2>1 DEF LastTo
    <3> QED
      BY <1>1, <2>1, <3>1 DEF Hashes, AssignedTo
  <2>2. CASE g # f2 /\ g = f1
    <3>1. LastTo(fvs, g) = 1
      BY <1>1, <2>2 DEF LastTo
    <3> QED
      BY <1>1, <2>2, <3>1 DEF Hashes, AssignedTo
  <2>3. CASE g # f2 /\ g # f1
    BY <1>1, <2>3 DEF Hashes, AssignedTo
  <2> QED
    BY <2>1, <2>2, <2>3
<1>3. G \in Hashes
  BY DEF Hashes
<1> HIDE DEF G
<1>4. Eager!Assigned(h, fvs) = G
  BY <1>2, <1>3, AssignedIs
<1> QED
  BY <1>4 DEF G

\* HSET assigns its fields one by one and counts those that are new.
LEMMA HsetRefines ==
  ASSUME Counts, ~ClockSteps, IInv, NEW k \in Keys, NEW fvs \in Args(Fields \X Elems), cmd_hset(k, fvs)
  PROVE  Eager!Hset(k, fvs)
<1> DEFINE call == <<"hset", k, fvs>>
           n == Len(fvs)
<1>1. PICK ts \in Readings(Len(fvs)) :
        LET r1 == store_hash_set(store, k, fvs[1][1], fvs[1][2], ts[1])
            r2 == store_hash_set(r1.s, k, fvs[2][1], fvs[2][2], ts[2])
        IN  IF Len(fvs) = 1 \/ ~r1.ok
            THEN Return(r1.s, call,
                        IF r1.ok THEN IntReply(r1.created) ELSE ErrorReply, ts[1])
            ELSE Return(r2.s, call,
                        IF r2.ok THEN IntReply(r1.created + r2.created) ELSE ErrorReply,
                        ts[2])
  BY Zenon DEF cmd_hset
<1> DEFINE t == ts[1]
           L == Eager!At(Live(store, now), t)
           s1 == Lookup(store, k, t)
           f1 == fvs[1][1]
           v1 == fvs[1][2]
           f2 == fvs[2][1]
           v2 == fvs[2][2]
           r1 == store_hash_set(store, k, f1, v1, t)
           r2 == store_hash_set(r1.s, k, f2, v2, ts[2])
           old == IF L[k].type = "none" THEN NewHash ELSE L[k]
           x == [old EXCEPT !.hash = Eager!Assigned(@, fvs)]
           after == IF old.type = "hash" THEN [L EXCEPT ![k] = x] ELSE L
           added == {f \in Fields : old.hash[f] = Nil /\ Eager!Assigned(old.hash, fvs)[f] # Nil}
           answer == IF old.type = "hash" THEN IntReply(Cardinality(added)) ELSE ErrorReply
<1>1a. IF n = 1 \/ ~r1.ok
       THEN Return(r1.s, call, IF r1.ok THEN IntReply(r1.created) ELSE ErrorReply, t)
       ELSE Return(r2.s, call,
                   IF r2.ok THEN IntReply(r1.created + r2.created) ELSE ErrorReply, ts[2])
  BY <1>1, Zenon
<1>2. /\ n \in 1 .. 2 /\ f1 \in Fields /\ v1 \in Elems
      /\ n = 2 => f2 \in Fields /\ v2 \in Elems
      /\ n = 1 => fvs = <<<<f1, v1>>>>
      /\ n = 2 => fvs = <<<<f1, v1>>, <<f2, v2>>>>
  BY DEF Args
<1>3. /\ now \in Time /\ store \in Table /\ t \in Time /\ now <= t
      /\ ts[n] \in Time /\ t <= ts[n]
  BY ArgReadings
<1>4. /\ s1 \in Table /\ L = Live(store, t) /\ s1[k] = L[k]
      /\ s1[k] \in GoodEntry /\ s1[k].type \in {"none", "string", "list", "hash"}
  <2>1. s1 \in Table /\ L = Live(store, t) /\ s1[k] = Live(store, t)[k]
    BY <1>3, AtLive, LookupTable, LiveKey
  <2> HIDE DEF s1, L
  <2>2. s1[k] \in GoodEntry
    BY <2>1 DEF Table
  <2> QED
    BY <2>1, <2>2, EntryCases DEF GoodEntry
<1> HIDE DEF L
<1>5. t \in now .. MaxTime
  BY <1>3 DEF Time
<1>6. /\ now' \in t .. MaxTime /\ cmd' = call /\ reply' = answer
      /\ Live(store', now') = Eager!At(after, now')
  <2>1. CASE L[k].type \in {"string", "list"}
    <3>1. r1.s = s1 /\ ~r1.ok
      BY <1>4, <2>1 DEF store_hash_set
    <3>2. store' = s1 /\ cmd' = call /\ reply' = ErrorReply /\ now' = t
      <4> HIDE DEF call, r1, r2, s1
      <4> QED
        BY <1>1a, <3>1 DEF Return
    <3>3. after = L /\ answer = ErrorReply
      BY <2>1
    <3>4. Live(s1, t) = Live(store, t) /\ Eager!At(L, t) = Live(store, t)
      BY <1>3, <1>4, LookupLive, AtLive DEF Time
    <3> HIDE DEF after, answer, call, s1
    <3> QED
      BY <1>3, <3>2, <3>3, <3>4 DEF Time
  <2>2. CASE L[k].type \in {"none", "hash"}
    <3> DEFINE h == Content(s1[k])
               h1 == [h EXCEPT ![f1] = v1]
               h2 == [h1 EXCEPT ![f2] = v2]
               H == IF n = 1 THEN h1 ELSE h2
               c1 == IF h[f1] = Nil THEN 1 ELSE 0
               c2 == IF h1[f2] = Nil THEN 1 ELSE 0
               c == IF n = 1 THEN c1 ELSE c1 + c2
    <3>1. h \in Hashes /\ old = HashOf(h)
      BY <1>4, <2>2, ContentIs, Zenon
    <3>2. r1.ok = TRUE /\ r1.s = [s1 EXCEPT ![k] = HashOf(h1)] /\ r1.created = c1
      <4>1. store \in Table /\ f1 \in Fields /\ v1 \in Elems
        BY <1>2, <1>3
      <4>2. Lookup(store, k, t)[k].type \in {"none", "hash"}
        BY <1>4, <2>2
      <4> HIDE DEF f1, v1, t
      <4>3. SetsField(store, k, f1, v1, t)
        BY <4>1, <4>2, HsetIs, SMT
      <4> QED
        BY <4>3, Zenon DEF SetsField
    <3>3. r1.s \in Table
      BY <1>2, <1>3, HashSetTable
    <3>4. n = 2 => r2.ok = TRUE /\ r2.s = [r1.s EXCEPT ![k] = HashOf(h2)] /\ r2.created = c2
      <4> SUFFICES ASSUME n = 2
                   PROVE  r2.ok = TRUE /\ r2.s = [r1.s EXCEPT ![k] = HashOf(h2)] /\ r2.created = c2
        BY Zenon
      <4> HIDE DEF r1, h1, s1
      <4>1. r1.s[k] = HashOf(h1)
        BY <1>4, <3>2 DEF Table
      <4>2. r1.s[k].type = "hash" /\ Content(r1.s[k]) = h1
        BY <4>1 DEF HashOf, Content
      <4>3. Lookup(r1.s, k, ts[2]) = r1.s
        BY <3>3, <4>2, LookupFinds
      <4>4. Lookup(r1.s, k, ts[2])[k].type \in {"none", "hash"}
        BY <4>2, <4>3
      <4>5. f2 \in Fields /\ v2 \in Elems
        BY <1>2
      <4> HIDE DEF f2, v2
      <4>6. SetsField(r1.s, k, f2, v2, ts[2])
        BY <3>3, <4>4, <4>5, HsetIs, SMT
      <4> QED
        BY <4>2, <4>3, <4>6, Zenon DEF SetsField
    <3>5. /\ store' = [s1 EXCEPT ![k] = HashOf(H)] /\ cmd' = call /\ reply' = IntReply(c)
          /\ now' = ts[n]
      <4> HIDE DEF call, r1, r2, s1, h1, h2, c1, c2
      <4>1. CASE n = 1
        BY <1>1a, <3>2, <4>1 DEF Return
      <4>2. CASE n = 2
        <5>1. store' = r2.s /\ cmd' = call /\ reply' = IntReply(c1 + c2) /\ now' = ts[2]
          BY <1>1a, <3>2, <3>4, <4>2 DEF Return
        <5>2. r2.s = [s1 EXCEPT ![k] = HashOf(h2)]
          BY <3>2, <3>4, <4>2, Zenon
        <5> QED
          BY <4>2, <5>1, <5>2
      <4> QED
        BY <1>2, <4>1, <4>2
    <3>6. Eager!Assigned(h, fvs) = H
      <4>1. CASE n = 1
        BY <1>2, <3>1, <4>1, AssignedOne
      <4>2. CASE n = 2
        BY <1>2, <3>1, <4>2, AssignedTwo
      <4> QED
        BY <1>2, <4>1, <4>2
    <3>7. old.type = "hash" /\ old.hash = h
      BY <3>1 DEF HashOf
    <3>8. Cardinality(added) = c
      <4> DEFINE b == IF n = 2 /\ h[f2] = Nil THEN 1 ELSE 0
                 S == Picked(c1, f1, b, f2)
      <4>1. added = S
        <5>1. added = {f \in Fields : h[f] = Nil /\ H[f] # Nil}
          BY <3>6, <3>7, Zenon
        <5>2. v1 # Nil /\ (n = 2 => v2 # Nil)
          BY <1>2, KeyTypesAssumption
        <5>3. CASE n = 1
          BY <1>2, <3>1, <5>1, <5>2, <5>3 DEF Hashes, Picked
        <5>4. CASE n = 2
          BY <1>2, <3>1, <5>1, <5>2, <5>4 DEF Hashes, Picked
        <5> QED
          BY <1>2, <5>3, <5>4
      <4>2. Cardinality(S) = c1 + (IF c1 = 1 /\ f1 = f2 THEN 0 ELSE b)
        <5>1. c1 \in {0, 1} /\ b \in {0, 1}
          OBVIOUS
        <5> HIDE DEF c1, b, f1, f2
        <5> QED
          BY <5>1, CountTwo, SMT
      <4>3. c = c1 + (IF c1 = 1 /\ f1 = f2 THEN 0 ELSE b)
        BY <1>2, <3>1, KeyTypesAssumption DEF Hashes
      <4> HIDE DEF S, added, c
      <4> QED
        BY <4>1, <4>2, <4>3, Zenon
    <3> HIDE DEF old, H, h, c
    <3>9. x = HashOf(H)
      BY <3>1, <3>6, <3>7 DEF HashOf
    <3> HIDE DEF x, added
    <3>10. after = [L EXCEPT ![k] = HashOf(H)] /\ answer = IntReply(c)
      BY <3>7, <3>8, <3>9
    <3>11. Live(s1, t) = L
      BY <1>3, <1>4, LookupLive DEF Time
    <3> HIDE DEF s1
    <3>12. Live([s1 EXCEPT ![k] = HashOf(H)], ts[n])
             = Eager!At([Live(s1, t) EXCEPT ![k] = HashOf(H)], ts[n])
      BY <1>3, <1>4, ReplaceLive
    <3> HIDE DEF after, answer, call
    <3>13. Live(store', now') = Eager!At(after, now')
      BY <3>5, <3>10, <3>11, <3>12
    <3> QED
      BY <1>3, <3>5, <3>10, <3>13 DEF Time
  <2> QED
    BY <1>4, <2>1, <2>2
<1>7. answer = IF old.type = "hash" THEN Eager!IntReply(Eager!Cardinality(added))
               ELSE Eager!ErrorReply
  BY EagerCardinality, Zenon DEF IntReply, Eager!IntReply, ErrorReply, Eager!ErrorReply
<1> HIDE DEF t, answer
<1> QED
  BY <1>5, <1>6, <1>7, Zenon DEF L, Eager!Hset, Eager!Update, Eager!Do, Eager!NewHash, NewHash

\* What is stored for the fields h: nothing, when none is left.
Stored(h) == IF {f \in Fields : h[f] # Nil} = {} THEN Absent ELSE HashOf(h)

\* The fields can be read back from what is stored.
LEMMA StoredIs ==
  ASSUME NEW h \in Hashes
  PROVE  Content(Stored(h)) = h /\ Stored(h).type \in {"none", "hash"}
<1>1. CASE {f \in Fields : h[f] # Nil} = {}
  <2>1. Stored(h) = Absent
    BY <1>1 DEF Stored
  <2>2. h = [f \in Fields |-> Nil]
    BY <1>1 DEF Hashes
  <2> QED
    BY <2>1, <2>2 DEF Content, Absent
<1>2. CASE {f \in Fields : h[f] # Nil} # {}
  <2>1. Stored(h) = HashOf(h)
    BY <1>2 DEF Stored
  <2> QED
    BY <2>1 DEF Content, HashOf
<1> QED
  BY <1>1, <1>2

\* Every hash of the table, and no entry at all, is stored that way.
LEMMA ContentStored ==
  ASSUME NEW e \in GoodEntry, e.type \in {"none", "hash"}
  PROVE  e = Stored(Content(e))
<1>1. CASE e.type = "none"
  <2>1. e = Absent
    BY <1>1, EntryCases DEF GoodEntry
  <2> QED
    BY <1>1, <2>1 DEF Content, Stored
<1>2. CASE e.type = "hash"
  BY <1>2, ContentIs DEF Content, Stored, GoodEntry, HashFields
<1> QED
  BY <1>1, <1>2

\* What clearing a field does to a hash, or to no entry.
ClearsField(s0, k, f, t) ==
  LET r == store_hash_del(s0, k, f, t)
      s == Lookup(s0, k, t)
      h == Content(s[k])
  IN  /\ r.ok = TRUE
      /\ r.s = [s EXCEPT ![k] = Stored([h EXCEPT ![f] = Nil])]
      /\ r.deleted = IF h[f] = Nil THEN 0 ELSE 1

\* One store_hash_del.
LEMMA HdelIs ==
  ASSUME NEW s0 \in Table, NEW k \in Keys, NEW f \in Fields, NEW t,
         Lookup(s0, k, t)[k].type \in {"none", "hash"}
  PROVE  ClearsField(s0, k, f, t)
<1> DEFINE r == store_hash_del(s0, k, f, t)
           s == Lookup(s0, k, t)
           e == s[k]
           h == Content(e)
           c == [h EXCEPT ![f] = Nil]
           g == [e EXCEPT !.hash[f] = Nil]
<1>1. s \in Table /\ e \in GoodEntry
  BY LookupTable DEF Table
<1>2. h \in Hashes /\ e = Stored(h)
  BY <1>1, ContentIs, ContentStored
<1>3. CASE e.type = "none"
  <2>1. r = [s |-> s, ok |-> TRUE, deleted |-> 0]
    BY <1>3, Zenon DEF store_hash_del
  <2>2. h = [j \in Fields |-> Nil]
    BY <1>3 DEF Content
  <2>3. c = h /\ h[f] = Nil
    BY <2>2
  <2> HIDE DEF c, h, s
  <2>4. s = [s EXCEPT ![k] = Stored(h)]
    BY <1>1, <1>2 DEF Table
  <2>5. r.s = s /\ r.ok = TRUE /\ r.deleted = 0
    BY <2>1
  <2> HIDE DEF r
  <2>6. r.ok = TRUE /\ r.s = [s EXCEPT ![k] = Stored(c)] /\ r.deleted = IF h[f] = Nil THEN 0 ELSE 1
    BY <2>3, <2>4, <2>5
  <2> QED
    BY <2>6 DEF r, s, h, c, ClearsField
<1>4. CASE e.type = "hash"
  <2>1. r = [s |-> [s EXCEPT ![k] = IF HashFields(g) = {} THEN Absent ELSE g],
             ok |-> TRUE, deleted |-> IF e.hash[f] = Nil THEN 0 ELSE 1]
    BY <1>4 DEF store_hash_del
  <2>2. h = e.hash /\ e = HashOf(h)
    BY <1>1, <1>4, ContentIs DEF Content
  <2> HIDE DEF s, h
  <2>3. g = HashOf(c)
    BY <1>2, <2>2 DEF HashOf
  <2> HIDE DEF g, c
  <2>4. (IF HashFields(g) = {} THEN Absent ELSE g) = Stored(c)
    <3>1. g.hash = c
      BY <2>3 DEF HashOf
    <3> QED
      BY <2>3, <3>1 DEF HashFields, Stored
  <2>5. /\ r.ok = TRUE /\ r.deleted = IF e.hash[f] = Nil THEN 0 ELSE 1
        /\ r.s = [s EXCEPT ![k] = IF HashFields(g) = {} THEN Absent ELSE g]
    BY <2>1
  <2> HIDE DEF r
  <2>6. r.ok = TRUE /\ r.s = [s EXCEPT ![k] = Stored(c)] /\ r.deleted = IF h[f] = Nil THEN 0 ELSE 1
    BY <2>2, <2>4, <2>5, Zenon
  <2> QED
    BY <2>6 DEF r, s, h, c, ClearsField
<1> QED
  BY <1>3, <1>4

\* The fields fs cleared all at once.
Cleared(h, fs) == [f \in Fields |-> IF f \in {fs[i] : i \in 1 .. Len(fs)} THEN Nil ELSE h[f]]

\* The fields cleared one after the other.
LEMMA ClearedIs ==
  ASSUME NEW h \in Hashes, NEW fs \in Args(Fields)
  PROVE  /\ Len(fs) = 1 => Cleared(h, fs) = [h EXCEPT ![fs[1]] = Nil]
         /\ Len(fs) = 2 => Cleared(h, fs) = [[h EXCEPT ![fs[1]] = Nil] EXCEPT ![fs[2]] = Nil]
<1> DEFINE gone == {fs[i] : i \in 1 .. Len(fs)}
<1>1. Len(fs) = 1 => gone = {fs[1]} /\ fs[1] \in Fields
  BY DEF Args
<1>2. Len(fs) = 2 => gone = {fs[1], fs[2]} /\ fs[1] \in Fields /\ fs[2] \in Fields
  BY DEF Args
<1>3. Cleared(h, fs) = [f \in Fields |-> IF f \in gone THEN Nil ELSE h[f]]
  BY DEF Cleared
<1> HIDE DEF gone
<1>4. ASSUME Len(fs) = 1
      PROVE  Cleared(h, fs) = [h EXCEPT ![fs[1]] = Nil]
  BY <1>1, <1>3, <1>4, Zenon DEF Hashes
<1>5. ASSUME Len(fs) = 2
      PROVE  Cleared(h, fs) = [[h EXCEPT ![fs[1]] = Nil] EXCEPT ![fs[2]] = Nil]
  BY <1>2, <1>3, <1>5, Zenon DEF Hashes
<1> QED
  BY <1>4, <1>5

\* HDEL clears its fields one by one, removes the key with the last one, and counts what
\* was there; once the key is gone, the second field finds nothing.
LEMMA HdelRefines ==
  ASSUME Counts, ~ClockSteps, IInv, NEW k \in Keys, NEW fs \in Args(Fields), cmd_hdel(k, fs)
  PROVE  Eager!Hdel(k, fs)
<1> DEFINE call == <<"hdel", k, fs>>
           n == Len(fs)
<1>1. PICK ts \in Readings(Len(fs)) :
        LET r1 == store_hash_del(store, k, fs[1], ts[1])
            r2 == store_hash_del(r1.s, k, fs[2], ts[2])
        IN  IF Len(fs) = 1 \/ ~r1.ok
            THEN Return(r1.s, call,
                        IF r1.ok THEN IntReply(r1.deleted) ELSE ErrorReply, ts[1])
            ELSE Return(r2.s, call,
                        IF r2.ok THEN IntReply(r1.deleted + r2.deleted) ELSE ErrorReply,
                        ts[2])
  BY DEF cmd_hdel
<1> DEFINE t == ts[1]
           L == Eager!At(Live(store, now), t)
           s1 == Lookup(store, k, t)
           f1 == fs[1]
           f2 == fs[2]
           r1 == store_hash_del(store, k, f1, t)
           r2 == store_hash_del(r1.s, k, f2, ts[2])
           gone == {fs[i] : i \in 1 .. Len(fs)}
           left(e) == [e EXCEPT !.hash = [f \in Fields |-> IF f \in gone THEN Nil ELSE @[f]]]
           after == CASE L[k].type # "hash" -> L
                      [] L[k].type = "hash" /\ HashFields(left(L[k])) = {} ->
                           [L EXCEPT ![k] = Absent]
                      [] OTHER -> [L EXCEPT ![k] = left(L[k])]
           there == HashFields(L[k]) \cap gone
           answer == CASE L[k].type = "none" -> IntReply(0)
                       [] L[k].type = "hash" -> IntReply(Cardinality(there))
                       [] OTHER -> ErrorReply
<1>1a. IF n = 1 \/ ~r1.ok
       THEN Return(r1.s, call, IF r1.ok THEN IntReply(r1.deleted) ELSE ErrorReply, t)
       ELSE Return(r2.s, call,
                   IF r2.ok THEN IntReply(r1.deleted + r2.deleted) ELSE ErrorReply, ts[2])
  BY <1>1, Zenon
<1>2. /\ n \in 1 .. 2 /\ f1 \in Fields
      /\ n = 2 => f2 \in Fields
      /\ gone = IF n = 1 THEN {f1} ELSE {f1, f2}
  BY DEF Args
<1>3. /\ now \in Time /\ store \in Table /\ t \in Time /\ now <= t
      /\ ts[n] \in Time /\ t <= ts[n]
  BY ArgReadings
<1>4. /\ s1 \in Table /\ L = Live(store, t) /\ s1[k] = L[k]
      /\ s1[k] \in GoodEntry /\ s1[k].type \in {"none", "string", "list", "hash"}
  <2>1. s1 \in Table /\ L = Live(store, t) /\ s1[k] = Live(store, t)[k]
    BY <1>3, AtLive, LookupTable, LiveKey
  <2> HIDE DEF s1, L
  <2>2. s1[k] \in GoodEntry
    BY <2>1 DEF Table
  <2> QED
    BY <2>1, <2>2, EntryCases DEF GoodEntry
<1> HIDE DEF L
<1>5. t \in now .. MaxTime
  BY <1>3 DEF Time
<1>6. /\ now' \in t .. MaxTime /\ cmd' = call /\ reply' = answer
      /\ Live(store', now') = Eager!At(after, now')
  <2>1. CASE L[k].type \in {"string", "list"}
    <3>1. r1.s = s1 /\ ~r1.ok
      BY <1>4, <2>1, Zenon DEF store_hash_del
    <3>2. store' = s1 /\ cmd' = call /\ reply' = ErrorReply /\ now' = t
      <4> HIDE DEF call, r1, r2, s1
      <4> QED
        BY <1>1a, <3>1 DEF Return
    <3>3. after = L /\ answer = ErrorReply
      BY <2>1
    <3>4. Live(s1, t) = Live(store, t) /\ Eager!At(L, t) = Live(store, t)
      BY <1>3, <1>4, LookupLive, AtLive DEF Time
    <3> HIDE DEF after, answer, call, s1
    <3> QED
      BY <1>3, <3>2, <3>3, <3>4 DEF Time
  <2>2. CASE L[k].type \in {"none", "hash"}
    <3> DEFINE h == Content(s1[k])
               h1 == [h EXCEPT ![f1] = Nil]
               h2 == [h1 EXCEPT ![f2] = Nil]
               H == IF n = 1 THEN h1 ELSE h2
               c1 == IF h[f1] = Nil THEN 0 ELSE 1
               c2 == IF h1[f2] = Nil THEN 0 ELSE 1
               c == IF n = 1 THEN c1 ELSE c1 + c2
    <3>1. h \in Hashes /\ s1[k] = Stored(h)
      BY <1>4, <2>2, ContentIs, ContentStored, Zenon
    <3>2. r1.ok = TRUE /\ r1.s = [s1 EXCEPT ![k] = Stored(h1)] /\ r1.deleted = c1
      <4>1. store \in Table /\ f1 \in Fields
        BY <1>2, <1>3
      <4>2. Lookup(store, k, t)[k].type \in {"none", "hash"}
        BY <1>4, <2>2
      <4> HIDE DEF f1, t
      <4>3. ClearsField(store, k, f1, t)
        BY <4>1, <4>2, HdelIs, SMT
      <4> QED
        BY <4>3, Zenon DEF ClearsField
    <3>3. r1.s \in Table /\ h1 \in Hashes
      BY <1>2, <1>3, <3>1, HashDelTable DEF Hashes
    <3>4. n = 2 => r2.ok = TRUE /\ r2.s = [r1.s EXCEPT ![k] = Stored(h2)] /\ r2.deleted = c2
      <4> SUFFICES ASSUME n = 2
                   PROVE  r2.ok = TRUE /\ r2.s = [r1.s EXCEPT ![k] = Stored(h2)] /\ r2.deleted = c2
        BY Zenon
      <4> HIDE DEF r1, h1, s1
      <4>1. r1.s[k] = Stored(h1)
        BY <1>4, <3>2, Zenon DEF Table
      <4>2. r1.s[k].type \in {"none", "hash"} /\ Content(r1.s[k]) = h1
        BY <3>3, <4>1, StoredIs
      <4>3. Lookup(r1.s, k, ts[2]) = r1.s
        BY <3>3, <4>2, LookupFinds
      <4>4. Lookup(r1.s, k, ts[2])[k].type \in {"none", "hash"}
        BY <4>2, <4>3
      <4>5. f2 \in Fields
        BY <1>2
      <4> HIDE DEF f2
      <4>6. ClearsField(r1.s, k, f2, ts[2])
        BY <3>3, <4>4, <4>5, HdelIs, SMT
      <4> QED
        BY <4>2, <4>3, <4>6, Zenon DEF ClearsField
    <3>5. /\ store' = [s1 EXCEPT ![k] = Stored(H)] /\ cmd' = call /\ reply' = IntReply(c)
          /\ now' = ts[n]
      <4> HIDE DEF call, r1, r2, s1, h1, h2, c1, c2
      <4>1. CASE n = 1
        BY <1>1a, <3>2, <4>1 DEF Return
      <4>2. CASE n = 2
        <5>1. store' = r2.s /\ cmd' = call /\ reply' = IntReply(c1 + c2) /\ now' = ts[2]
          BY <1>1a, <3>2, <3>4, <4>2 DEF Return
        <5>2. r2.s = [s1 EXCEPT ![k] = Stored(h2)]
          BY <3>2, <3>4, <4>2, Zenon
        <5> QED
          BY <4>2, <5>1, <5>2
      <4> QED
        BY <1>2, <4>1, <4>2
    <3>6. Cleared(h, fs) = H
      <4> HIDE DEF h
      <4> QED
        BY <1>2, <3>1, ClearedIs
    <3>7. after = [L EXCEPT ![k] = Stored(H)]
      <4>1. CASE L[k].type = "none"
        <5>1. h = [f \in Fields |-> Nil]
          BY <1>4, <4>1 DEF Content
        <5>2. Cleared(h, fs) = h
          BY <5>1 DEF Cleared
        <5> HIDE DEF h, H, s1
        <5>3. L[k] = Stored(H)
          BY <1>4, <3>1, <3>6, <5>2
        <5>4. DOMAIN L = Keys /\ L = [j \in Keys |-> L[j]]
          BY <1>4 DEF Live
        <5> QED
          BY <4>1, <5>3, <5>4
      <4>2. CASE L[k].type = "hash"
        <5>1. L[k] = HashOf(h) /\ h = L[k].hash
          BY <1>4, <4>2, ContentIs, Zenon DEF Content
        <5>2. left(L[k]) = [L[k] EXCEPT !.hash = Cleared(h, fs)]
          BY <5>1, Zenon DEF Cleared
        <5> HIDE DEF h, H, left
        <5>3. left(L[k]) = HashOf(H)
          BY <3>6, <5>1, <5>2 DEF HashOf
        <5>4. HashFields(left(L[k])) = {f \in Fields : H[f] # Nil}
          BY <5>3 DEF HashFields, HashOf
        <5> QED
          BY <4>2, <5>3, <5>4, Zenon DEF Stored
      <4> QED
        BY <2>2, <4>1, <4>2
    <3>8. answer = IntReply(c)
      <4> DEFINE b == IF n = 2 /\ h[f2] # Nil THEN 1 ELSE 0
                 S == Picked(c1, f1, b, f2)
                 T == {f \in Fields : h[f] # Nil} \cap gone
      <4> HIDE DEF h, s1
      <4>1. T = S
        BY <1>2, <3>1 DEF Hashes, Picked
      <4>2. Cardinality(S) = c1 + (IF c1 = 1 /\ f1 = f2 THEN 0 ELSE b)
        <5>1. c1 \in {0, 1} /\ b \in {0, 1}
          OBVIOUS
        <5> HIDE DEF c1, b, f1, f2
        <5> QED
          BY <5>1, CountTwo, SMT
      <4>3. c = c1 + (IF c1 = 1 /\ f1 = f2 THEN 0 ELSE b)
        BY <1>2, <3>1 DEF Hashes
      <4>4. CASE L[k].type = "none"
        <5>1. h = [f \in Fields |-> Nil]
          BY <1>4, <4>4 DEF Content, h
        <5>2. c = 0
          BY <1>2, <5>1
        <5> HIDE DEF c
        <5> QED
          BY <4>4, <5>2
      <4>5. CASE L[k].type = "hash"
        <5>1. h = L[k].hash
          BY <1>4, <4>5 DEF Content, h
        <5> HIDE DEF c, S, gone
        <5>2. there = T
          BY <5>1 DEF HashFields
        <5> HIDE DEF there, T
        <5> QED
          BY <4>1, <4>2, <4>3, <4>5, <5>2
      <4> QED
        BY <2>2, <4>4, <4>5
    <3>9. Live(s1, t) = L
      BY <1>3, <1>4, LookupLive DEF Time
    <3> HIDE DEF s1, H
    <3>10. Live([s1 EXCEPT ![k] = Stored(H)], ts[n])
             = Eager!At([Live(s1, t) EXCEPT ![k] = Stored(H)], ts[n])
      <4> HIDE DEF t, n
      <4> QED
        BY <1>3, <1>4, ReplaceLive
    <3> HIDE DEF after, answer, call, c
    <3>11. Live(store', now') = Eager!At(after, now')
      BY <3>5, <3>7, <3>9, <3>10
    <3> QED
      BY <1>3, <3>5, <3>8, <3>11 DEF Time
  <2> QED
    BY <1>4, <2>1, <2>2, Zenon
<1>7. answer = CASE L[k].type = "none" -> Eager!IntReply(0)
                 [] L[k].type = "hash" -> Eager!IntReply(Eager!Cardinality(there))
                 [] OTHER -> Eager!ErrorReply
  BY EagerCardinality, Zenon DEF IntReply, Eager!IntReply, ErrorReply, Eager!ErrorReply
<1> HIDE DEF t, answer
<1> QED
  BY <1>5, <1>6, <1>7, Zenon
     DEF L, Eager!Hdel, Eager!Do, Eager!HashFields, HashFields, Eager!Absent, Absent

-------------------------------------------------------------------------------
(* The refinement *)

\* Every command of the lazy keyspace is the same command of the eager one.
LEMMA StepRefines ==
  ASSUME Counts, ~ClockSteps, NoWrap, IInv, Next
  PROVE  Eager!Next
<1>1. ASSUME NEW k \in Keys, NEW v \in SetValues, NEW opts \in SetOptions, cmd_set(k, v, opts)
      PROVE  Eager!Next
  BY <1>1, SetRefines, Zenon DEF Eager!Next
<1>2. ASSUME NEW k \in Keys, NEW delta \in Deltas, cmd_incrby(k, delta)
      PROVE  Eager!Next
  <2>1. delta \in Int
    BY KeyspaceAssumption, KeyTypesAssumption DEF Int64, INT64_MIN
  <2> QED
    BY <1>2, <2>1, IncrRefines, Zenon DEF cmd_incrby, Eager!Next
<1>3. ASSUME NEW k \in Keys, NEW delta \in Deltas, cmd_decrby(k, delta)
      PROVE  Eager!Next
  BY <1>3, DecrRefines, Zenon DEF Eager!Next
<1>4. ASSUME NEW k \in Keys, NEW vs \in Args(Elems), NEW at_head \in BOOLEAN,
             push_common(k, vs, at_head)
      PROVE  Eager!Next
  BY <1>4, PushRefines, ArgsSame, Zenon DEF Eager!Next
<1>5. ASSUME NEW k \in Keys, NEW at_head \in BOOLEAN, pop_common(k, at_head)
      PROVE  Eager!Next
  BY <1>5, PopRefines, Zenon DEF Eager!Next
<1>6. ASSUME NEW k \in Keys, NEW start \in Indexes, NEW stop \in Indexes,
             cmd_lrange(k, start, stop)
      PROVE  Eager!Next
  BY <1>6, LrangeRefines, Zenon DEF Eager!Next
<1>7. ASSUME NEW k \in Keys, NEW fvs \in Args(Fields \X Elems), cmd_hset(k, fvs)
      PROVE  Eager!Next
  BY <1>7, HsetRefines, ArgsSame, Zenon DEF Eager!Next
<1>8. ASSUME NEW k \in Keys, NEW f \in Fields, cmd_hget(k, f)
      PROVE  Eager!Next
  BY <1>8, HgetRefines, Zenon DEF Eager!Next
<1>9. ASSUME NEW k \in Keys, NEW fs \in Args(Fields), cmd_hmget(k, fs) \/ cmd_hdel(k, fs)
      PROVE  Eager!Next
  BY <1>9, HmgetRefines, HdelRefines, ArgsSame, Zenon DEF Eager!Next
<1>10. ASSUME NEW k \in Keys, NEW in_ms \in BOOLEAN, ttl_common(k, in_ms)
       PROVE  Eager!Next
  <2>1. Eager!Ttl(k, TRUE) \/ Eager!Ttl(k, FALSE)
    BY <1>10, TtlRefines, Zenon
  <2> QED
    BY <2>1, Zenon DEF Eager!Next
<1>11. ASSUME NEW k \in Keys,
              cmd_get(k) \/ cmd_type(k) \/ cmd_llen(k) \/ cmd_hgetall(k) \/ cmd_hlen(k)
       PROVE  Eager!Next
  BY <1>11, GetRefines, TypeRefines, LlenRefines, HgetallRefines, HlenRefines, Zenon DEF Eager!Next
<1>12. ASSUME NEW ks \in Args(Keys), cmd_del(ks) \/ cmd_exists(ks)
       PROVE  Eager!Next
  BY <1>12, DelRefines, ExistsRefines, ArgsSame, Zenon DEF Eager!Next
<1>13. ASSUME NEW pattern \in SUBSET Keys, cmd_keys(pattern)
       PROVE  Eager!Next
  BY <1>13, KeysRefines, Zenon DEF Eager!Next
<1>14. ASSUME BadArguments
       PROVE  Eager!Next
  <2>1. now \in Time /\ now <= now
    BY DEF IInv, Time
  <2>2. Return(store, <<"args">>, ErrorReply, now)
    BY <1>14 DEF BadArguments
  <2>3. Eager!Refuse(<<"args">>)
    BY <2>1, <2>2, RefusedRefines
  <2> QED
    BY <2>3 DEF Eager!Next
<1> QED
  BY <1>1, <1>2, <1>3, <1>4, <1>5, <1>6, <1>7, <1>8, <1>9, <1>10, <1>11, <1>12, <1>13, <1>14, Zenon
  DEF Next

Sets == INSTANCE FiniteSetTheorems

\* The number of elements is the same operator in the library.
LEMMA SameCardinality == \A S : Sets!Cardinality(S) = Cardinality(S)
BY DEF Sets!Cardinality, Cardinality

\* What the lemmas assume of the number of elements of a set holds.
LEMMA CountsHold == Counts
<1>1. ASSUME NEW a \in Int, NEW b \in Int, a <= b
      PROVE  Cardinality(a .. b) = b - a + 1
  <2>1. Sets!Cardinality(a .. b) = IF a > b THEN 0 ELSE b - a + 1
    BY Sets!FS_Interval, Zenon
  <2> QED
    BY <1>1, <2>1, SameCardinality
<1>2. Cardinality({}) = 0
  BY Sets!FS_EmptySet, SameCardinality
<1>3. \A a : Sets!IsFiniteSet({a}) /\ Sets!Cardinality({a}) = 1
  BY Sets!FS_Singleton, Zenon
<1>4. ASSUME NEW a, NEW b, a # b
      PROVE  Cardinality({a} \cup {b}) = 2
  <2>1. Sets!Cardinality({a} \cup {b}) = Sets!Cardinality({a}) + 1
    BY <1>3, <1>4, Sets!FS_AddElement, Zenon
  <2>2. Sets!Cardinality({a}) = 1
    BY <1>3, Zenon
  <2>3. 1 + 1 = 2
    OBVIOUS
  <2> QED
    BY <2>1, <2>2, <2>3, SameCardinality, Zenon
<1>5. ASSUME NEW n \in Nat, NEW S, NEW T, NEW f, OneToOne(f, n, S, T)
      PROVE  Cardinality(T) = Cardinality(S)
  <2>1. Sets!IsFiniteSet(1 .. n)
    BY Sets!FS_Interval
  <2>2. Sets!IsFiniteSet(S)
    BY <1>5, <2>1, Sets!FS_Subset, Zenon DEF OneToOne
  <2>3. f \in Sets!Bijection(S, T)
    BY <1>5 DEF OneToOne, Sets!Bijection, Sets!Injection, Sets!Surjection, Sets!IsInjective
  <2>4. Sets!ExistsBijection(S, T)
    BY <2>3 DEF Sets!ExistsBijection
  <2>5. Sets!Cardinality(T) = Sets!Cardinality(S)
    BY <2>2, <2>4, Sets!FS_Bijection
  <2> QED
    BY <2>5, SameCardinality
<1>6. \A a : Cardinality({a}) = 1
  BY <1>3, SameCardinality, Zenon
<1> QED
  BY <1>1, <1>2, <1>4, <1>5, <1>6, Zenon DEF Counts

\* Lazy expiry cannot be observed: as long as the wall clock is not set back and no
\* expiry that SET accepts wraps, every behaviour of the table, seen as what is live
\* of it, is one of the keyspace in which each key vanishes the moment it expires
\* and every command takes effect at one instant.
THEOREM LazyIsEager ==
  ASSUME ~ClockSteps, NoWrap
  PROVE  Spec => RefinesEager
<1>1. Init => Eager!Init
  <2> SUFFICES ASSUME Init
               PROVE  Eager!Init
    OBVIOUS
  <2>1. store = [k \in Keys |-> Absent] /\ now = 1 /\ cmd = <<"none">> /\ reply = OkReply
    BY DEF Init
  <2>2. Live(store, now) = [k \in Keys |-> Absent]
    BY <2>1 DEF Live, entry_is_expired, Absent
  <2> QED
    BY <2>1, <2>2 DEF Eager!Init, Eager!Absent, Absent, Eager!OkReply, OkReply
<1>2. IInv /\ [Next]_vars => [Eager!Next]_(Eager!vars)
  <2>1. IInv /\ Next => Eager!Next
    BY StepRefines, CountsHold
  <2>2. UNCHANGED vars => UNCHANGED Eager!vars
    BY DEF vars, Eager!vars, Live
  <2> QED
    BY <2>1, <2>2
<1> QED
  BY <1>1, <1>2, Invariance, PTL DEF Spec, RefinesEager, Eager!Spec

===============================================================================

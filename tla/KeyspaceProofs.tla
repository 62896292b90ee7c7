---------------------------- MODULE KeyspaceProofs ----------------------------
(***************************************************************************)
(* For every set of keys, values and arguments, every clock (stepping back *)
(* or not) and every integer width: the table stays well typed, only       *)
(* strings expire, no empty collection is kept, a push applies all its     *)
(* values and an error changes nothing.  When the clock is not set back,   *)
(* only SET changes an expiry, and the commands that read, SET and INCR do *)
(* what they do in EagerKeyspace (KeyspaceRefinement has the others).      *)
(***************************************************************************)
EXTENDS Keyspace, TLAPS

\* What every entry of the table satisfies.
GoodEntry == {e \in Entry : /\ e.type # "string" => e.expires_at = 0
                            /\ e.type = "list" => e.list # << >>
                            /\ e.type = "hash" => HashFields(e) # {}}

Table == [Keys -> GoodEntry]

\* The type invariant and both conditions on entries are inductive together.
IInv == store \in Table /\ now \in Time

-------------------------------------------------------------------------------
(* Entries *)

\* The four kinds of entry are told apart by their type.
LEMMA EntryCases ==
  ASSUME NEW e \in Entry
  PROVE  /\ e.type \in {"none", "string", "list", "hash"}
         /\ e.type = "none" => e = Absent
         /\ e.type = "string" => e \in StringEntry
         /\ e.type = "list" => e \in ListEntry
         /\ e.type = "hash" => e \in HashEntry
  BY DEF Entry, Absent, StringEntry, ListEntry, HashEntry

LEMMA AbsentGood == Absent \in GoodEntry
  BY DEF GoodEntry, Entry, Absent

\* lookup() leaves a good table good: it only removes entries.
LEMMA LookupTable ==
  ASSUME NEW s \in Table, NEW k \in Keys, NEW t
  PROVE  Lookup(s, k, t) \in Table
  BY AbsentGood DEF Lookup, Table

\* A string with any expiry is a good entry.
LEMMA NewStringGood ==
  ASSUME NEW v \in Text, NEW at \in Int64
  PROVE  NewString(v, at) \in GoodEntry
  BY DEF NewString, GoodEntry, Entry, StringEntry

-------------------------------------------------------------------------------
(* The store calls *)

LEMMA StoreSetTable ==
  ASSUME NEW s \in Table, NEW k \in Keys, NEW v \in Text, NEW at \in Int64
  PROVE  store_set(s, k, v, at) \in Table
  BY NewStringGood DEF store_set, Table

\* INCR changes the text of a string in place.
LEMMA IncrTable ==
  ASSUME NEW s \in Table, NEW k \in Keys, NEW v \in Text, s[k].type = "string"
  PROVE  [s EXCEPT ![k].str = v] \in Table
  <1>1. s[k] \in GoodEntry /\ s[k] \in StringEntry
    BY EntryCases DEF Table, GoodEntry
  <1>2. [s[k] EXCEPT !.str = v] \in GoodEntry
    BY <1>1 DEF GoodEntry, Entry, StringEntry
  <1> QED
    BY <1>2 DEF Table

\* A list with at least one element is a good entry.
LEMMA ListGood ==
  ASSUME NEW l \in Seq(Elems), l # << >>
  PROVE  [type |-> "list", list |-> l, expires_at |-> 0] \in GoodEntry
  BY KeyTypesAssumption DEF GoodEntry, Entry, ListEntry, Int64, INT64_MIN

\* A list entry of a good table is determined by its elements.
LEMMA GoodListShape ==
  ASSUME NEW e \in GoodEntry, e.type = "list"
  PROVE  /\ e.list \in Seq(Elems) /\ e.list # << >>
         /\ e = [type |-> "list", list |-> e.list, expires_at |-> 0]
  BY EntryCases DEF GoodEntry, ListEntry

\* Replacing the elements of a good list by others.
LEMMA ListReplaceGood ==
  ASSUME NEW e, NEW m, NEW l \in Seq(Elems), l # << >>,
         e = [type |-> "list", list |-> m, expires_at |-> 0]
  PROVE  [e EXCEPT !.list = l] \in GoodEntry
  <1>1. [e EXCEPT !.list = l] = [type |-> "list", list |-> l, expires_at |-> 0]
    OBVIOUS
  <1> QED
    BY <1>1, ListGood

\* A push, refused or not, leaves a good table.
LEMMA ListPushTable ==
  ASSUME NEW r, r.s \in Table, NEW k \in Keys, NEW v \in Elems,
         NEW at_head \in BOOLEAN, NEW t
  PROVE  store_list_push(r, k, v, at_head, t).s \in Table
  <1> DEFINE s == Lookup(r.s, k, t)
             e == IF s[k].type = "none" THEN NewList ELSE s[k]
             l == IF at_head THEN <<v>> \o e.list ELSE Append(e.list, v)
  <1>1. s \in Table
    BY LookupTable
  <1>2. CASE e.type = "list"
    <2>1. s[k] \in GoodEntry
      BY <1>1 DEF Table
    <2>2. /\ e.list \in Seq(Elems)
          /\ e = [type |-> "list", list |-> e.list, expires_at |-> 0]
      BY <1>2, <2>1, GoodListShape DEF NewList
    <2>3. l \in Seq(Elems) /\ l # << >> /\ Len(l) \in Nat
      BY <2>2
    <2>4. [e EXCEPT !.list = l] \in GoodEntry
      BY <2>2, <2>3, ListReplaceGood, Zenon
    <2>5. [s EXCEPT ![k] = [e EXCEPT !.list = l]] \in Table
      BY <1>1, <2>4 DEF Table
    <2> QED
      BY <1>2, <2>3, <2>5, Zenon DEF store_list_push
  <1>3. CASE e.type # "list"
    BY <1>1, <1>3 DEF store_list_push
  <1> QED
    BY <1>2, <1>3

\* A pop leaves a shorter list, or no entry at all.
LEMMA ListPopTable ==
  ASSUME NEW s \in Table, NEW k \in Keys, NEW at_head \in BOOLEAN,
         s[k].type = "list"
  PROVE  store_list_pop(s, k, at_head) \in Table
  <1> DEFINE l == s[k].list
             rest == IF at_head THEN Tail(l) ELSE SubSeq(l, 1, Len(l) - 1)
  <1>1. s[k] \in GoodEntry
    BY DEF Table
  <1>2. /\ l \in Seq(Elems) /\ l # << >>
        /\ s[k] = [type |-> "list", list |-> l, expires_at |-> 0]
    BY <1>1, GoodListShape
  <1>3. rest \in Seq(Elems)
    BY <1>2
  <1>4. rest # << >> => [s[k] EXCEPT !.list = rest] \in GoodEntry
    BY <1>2, <1>3, ListReplaceGood, Zenon
  <1> QED
    BY <1>4, AbsentGood DEF store_list_pop, Table

\* A hash with at least one field is a good entry.
LEMMA HashGood ==
  ASSUME NEW h \in [Fields -> Elems \cup {Nil}], \E f \in Fields : h[f] # Nil
  PROVE  [type |-> "hash", hash |-> h, expires_at |-> 0] \in GoodEntry
  BY KeyTypesAssumption DEF GoodEntry, Entry, HashEntry, HashFields, Int64, INT64_MIN

\* A hash entry of a good table is determined by its fields.
LEMMA GoodHashShape ==
  ASSUME NEW e \in GoodEntry, e.type = "hash"
  PROVE  /\ e.hash \in [Fields -> Elems \cup {Nil}]
         /\ e = [type |-> "hash", hash |-> e.hash, expires_at |-> 0]
  BY EntryCases DEF GoodEntry, HashEntry

\* Assigning or clearing one field gives a good entry unless no field is left.
LEMMA HashReplaceGood ==
  ASSUME NEW e, NEW h \in [Fields -> Elems \cup {Nil}],
         NEW f \in Fields, NEW v \in Elems \cup {Nil},
         e = [type |-> "hash", hash |-> h, expires_at |-> 0],
         HashFields([e EXCEPT !.hash[f] = v]) # {}
  PROVE  [e EXCEPT !.hash[f] = v] \in GoodEntry
  <1> DEFINE g == [h EXCEPT ![f] = v]
  <1>1. [e EXCEPT !.hash[f] = v] = [type |-> "hash", hash |-> g, expires_at |-> 0]
    OBVIOUS
  <1>2. g \in [Fields -> Elems \cup {Nil}]
    OBVIOUS
  <1>3. \E x \in Fields : g[x] # Nil
    BY <1>1 DEF HashFields
  <1> QED
    BY <1>1, <1>2, <1>3, HashGood

\* HSET of one field, refused or not, leaves a good table.
LEMMA HashSetTable ==
  ASSUME NEW s0 \in Table, NEW k \in Keys, NEW f \in Fields, NEW v \in Elems, NEW t
  PROVE  store_hash_set(s0, k, f, v, t).s \in Table
  <1> DEFINE s == Lookup(s0, k, t)
             e == IF s[k].type = "none" THEN NewHash ELSE s[k]
  <1>1. s \in Table
    BY LookupTable
  <1>2. CASE e.type = "hash"
    <2>1. s[k] \in GoodEntry
      BY <1>1 DEF Table
    <2>2. /\ e.hash \in [Fields -> Elems \cup {Nil}]
          /\ e = [type |-> "hash", hash |-> e.hash, expires_at |-> 0]
      BY <1>2, <2>1, GoodHashShape DEF NewHash
    <2> DEFINE g == [e EXCEPT !.hash[f] = v]
    <2>3. g.hash[f] = v
      BY <2>2
    <2>4. HashFields(g) # {}
      BY <2>3, KeyTypesAssumption DEF HashFields
    <2>5. g \in GoodEntry
      BY <2>2, <2>4, HashReplaceGood
    <2> QED
      BY <1>1, <1>2, <2>5 DEF store_hash_set, Table
  <1>3. CASE e.type # "hash"
    BY <1>1, <1>3 DEF store_hash_set
  <1> QED
    BY <1>2, <1>3

\* HDEL of one field leaves a good table.
LEMMA HashDelTable ==
  ASSUME NEW s0 \in Table, NEW k \in Keys, NEW f \in Fields, NEW t
  PROVE  store_hash_del(s0, k, f, t).s \in Table
  <1> DEFINE s == Lookup(s0, k, t)
             e == s[k]
             g == [e EXCEPT !.hash[f] = Nil]
  <1>1. s \in Table /\ e \in GoodEntry
    BY LookupTable DEF Table
  <1>2. CASE e.type = "hash"
    <2>1. /\ e.hash \in [Fields -> Elems \cup {Nil}]
          /\ e = [type |-> "hash", hash |-> e.hash, expires_at |-> 0]
      BY <1>1, <1>2, GoodHashShape
    <2>2. HashFields(g) # {} => g \in GoodEntry
      BY <2>1, HashReplaceGood, Zenon
    <2> QED
      BY <1>1, <1>2, <2>2, AbsentGood DEF store_hash_del, Table
  <1>3. CASE e.type # "hash"
    BY <1>1, <1>3 DEF store_hash_del
  <1> QED
    BY <1>2, <1>3

-------------------------------------------------------------------------------
(* The commands *)

\* Every reading of the clock is a time.
LEMMA ReadingsType ==
  ASSUME NEW n, NEW ts \in Readings(n), NEW i \in 1 .. n
  PROVE  ts[i] \in Time
  BY DEF Readings

\* A variadic command has one or two arguments.
LEMMA ArgsLen ==
  ASSUME NEW S, NEW xs \in Args(S)
  PROVE  /\ Len(xs) \in 1 .. 2
         /\ xs[1] \in S
         /\ Len(xs) = 2 => xs[2] \in S
  BY DEF Args

\* The sum of two non-negative int64_t wraps to an int64_t.
LEMMA WrapType ==
  ASSUME NEW a \in 0 .. INT64_MAX, NEW b \in 0 .. INT64_MAX
  PROVE  Wrap(a + b) \in Int64
  BY KeyTypesAssumption DEF Wrap, Int64, INT64_MIN

\* An expiry that SET computes fits an int64_t; the sum may have wrapped.
LEMMA ExpiryType ==
  ASSUME NEW opts \in SetOptions, NEW i \in 1 .. Len(opts), ~BadOption(opts[i]),
         NEW t \in Time
  PROVE  Expiry(opts[i], t) \in Int64
  <1> DEFINE o == opts[i]
             R == [unit : {"EX", "PX", "unknown"}, n : Int64 \cup {Nil}]
  <1>0. opts \in Seq(R)
    BY KeyspaceAssumption, Zenon
  <1>1. o \in R
    <2> HIDE DEF R
    <2> QED  BY <1>0
  <1>2. o.unit \in {"EX", "PX"} /\ o.n \in 1 .. INT64_MAX
    BY <1>1, KeyTypesAssumption DEF BadOption, Int64, INT64_MIN
  <1>3. t \in 1 .. INT64_MAX
    BY KeyspaceAssumption, KeyTypesAssumption DEF Time
  <1>4. CASE o.unit = "PX"
    BY <1>2, <1>3, <1>4, WrapType, KeyTypesAssumption DEF Expiry
  <1>5. CASE o.unit = "EX"
    <2>1. o.n <= (INT64_MAX \div Second) \div 2
      BY <1>2, <1>5, KeyTypesAssumption, KeyspaceAssumption DEF BadOption
    <2> DEFINE q == INT64_MAX \div Second
    <2>2. q \in Nat /\ q * Second <= INT64_MAX
      BY KeyTypesAssumption, KeyspaceAssumption, SMT
    <2>3. o.n \in Nat \ {0} /\ o.n <= q
      BY <1>2, <2>1, <2>2, KeyTypesAssumption
    <2> DEFINE m == o.n * Second
    <2>4. m <= q * Second /\ m \in Nat
      BY <2>2, <2>3, KeyspaceAssumption
    <2>5. Expiry(o, t) = Wrap(t + m)
      BY <1>5 DEF Expiry
    <2>6. q * Second \in Nat
      BY <2>2, KeyspaceAssumption
    <2> HIDE DEF m
    <2>7. t \in 0 .. INT64_MAX /\ m \in 0 .. INT64_MAX
      BY <1>3, <2>2, <2>4, <2>6, KeyTypesAssumption
    <2> QED
      BY <2>5, <2>7, WrapType
  <1> QED
    BY <1>2, <1>4, <1>5

\* Any command preserves the inductive invariant.
LEMMA NextIInv == IInv /\ [Next]_vars => IInv'
  <1> SUFFICES ASSUME IInv, [Next]_vars PROVE IInv'
    OBVIOUS
  <1> USE DEF IInv
  <1>0. ASSUME NEW s \in Table, NEW call, NEW r, NEW t \in Time, Return(s, call, r, t)
        PROVE  IInv'
    BY <1>0 DEF Return
  <1>1. ASSUME NEW k \in Keys, NEW v \in SetValues, NEW opts \in SetOptions,
               cmd_set(k, v, opts)
        PROVE  IInv'
    <2>1. PICK ts \in Readings(2) :
            IF \E i \in 1 .. Len(opts) : BadOption(opts[i])
            THEN Return(store, <<"set", k, v, opts>>, ErrorReply, ts[1])
            ELSE LET at == IF opts = << >> THEN 0 ELSE Expiry(opts[Len(opts)], ts[1])
                 IN  Return(store_set(store, k, v, at), <<"set", k, v, opts>>,
                            OkReply, ts[2])
      BY <1>1 DEF cmd_set
    <2>2. ts[1] \in Time /\ ts[2] \in Time
      BY ReadingsType
    <2>3. CASE \E i \in 1 .. Len(opts) : BadOption(opts[i])
      BY <1>0, <2>1, <2>2, <2>3
    <2>4. CASE ~\E i \in 1 .. Len(opts) : BadOption(opts[i])
      <3> DEFINE at == IF opts = << >> THEN 0 ELSE Expiry(opts[Len(opts)], ts[1])
      <3>1. opts # << >> => Len(opts) \in 1 .. Len(opts)
        BY KeyspaceAssumption
      <3>2. at \in Int64
        BY <2>2, <2>4, <3>1, ExpiryType, KeyTypesAssumption DEF Int64, INT64_MIN
      <3>3. store_set(store, k, v, at) \in Table
        BY <3>2, StoreSetTable, KeyspaceAssumption
      <3> QED
        BY <1>0, <2>1, <2>2, <2>4, <3>3
    <2> QED
      BY <2>3, <2>4
  <1>2. ASSUME NEW k \in Keys, cmd_get(k)
        PROVE  IInv'
    BY <1>0, <1>2, ReadingsType, LookupTable DEF cmd_get
  <1>3. ASSUME NEW k \in Keys, NEW delta \in Int, incr_common(k, delta)
        PROVE  IInv'
    <2>1. ASSUME NEW s \in Table, NEW val \in Int64,
                 s[k].type \in {"none", "string"},
                 ~Overflows(val, delta)
          PROVE  StoreSum(s, k, val + delta) \in Table
      <3>1. val + delta \in Int64 /\ 0 \in Int64
        BY <2>1, KeyTypesAssumption DEF Int64, INT64_MIN, Overflows
      <3> QED
        BY <2>1, <3>1, IncrTable, StoreSetTable DEF Text, StoreSum
    <2>2. ASSUME NEW ts \in Readings(2)
          PROVE  /\ Lookup(store, k, ts[1]) \in Table
                 /\ Lookup(store, k, ts[1])[k].type \in {"none", "string", "list", "hash"}
                 /\ 0 \in Int64
                 /\ ts[1] \in Time /\ ts[2] \in Time
      BY LookupTable, ReadingsType, EntryCases, KeyTypesAssumption
         DEF Table, GoodEntry, Int64, INT64_MIN
    <2> QED
      BY <1>0, <1>3, <2>1, <2>2 DEF incr_common
  <1>4. ASSUME NEW k \in Keys, NEW delta \in Deltas, cmd_decrby(k, delta)
        PROVE  IInv'
    <2>1. delta \in Int
      BY KeyspaceAssumption, KeyTypesAssumption DEF Int64, INT64_MIN
    <2> QED
      BY <1>0, <1>3, <1>4, <2>1 DEF cmd_decrby
  <1>5. ASSUME NEW ks \in Args(Keys), cmd_del(ks)
        PROVE  IInv'
    BY <1>5, ArgsLen, ReadingsType, AbsentGood DEF cmd_del, Return, Table
  <1>6. ASSUME NEW ks \in Args(Keys), cmd_exists(ks)
        PROVE  IInv'
    BY <1>6, ArgsLen, ReadingsType, AbsentGood DEF cmd_exists, Return, Table
  <1>7. ASSUME NEW k \in Keys, cmd_type(k)
        PROVE  IInv'
    BY <1>0, <1>7, ReadingsType, LookupTable DEF cmd_type
  <1>8. ASSUME NEW k \in Keys, NEW in_ms \in BOOLEAN, ttl_common(k, in_ms)
        PROVE  IInv'
    BY <1>0, <1>8, ReadingsType, LookupTable DEF ttl_common
  <1>9. ASSUME NEW pattern \in SUBSET Keys, cmd_keys(pattern)
        PROVE  IInv'
    BY <1>0, <1>9, ReadingsType DEF cmd_keys
  <1>10. ASSUME NEW k \in Keys, NEW vs \in Args(Elems), NEW at_head \in BOOLEAN,
                push_common(k, vs, at_head)
         PROVE  IInv'
    <2>1. PICK ts \in Readings(2 + Len(vs)) :
            LET s1 == Lookup(store, k, ts[1])
                s2 == IF s1[k].type = "none" THEN s1 ELSE Lookup(s1, k, ts[2])
                r1 == store_list_push([s |-> s2, len |-> 0], k, vs[1], at_head, ts[3])
                r2 == IF Len(vs) = 1 THEN r1
                      ELSE store_list_push(r1, k, vs[2], at_head, ts[4])
            IN  \/ Return(s2, <<"push", k, vs, at_head>>, ErrorReply, ts[2])
                \/ Return(r2.s, <<"push", k, vs, at_head>>, IntReply(r2.len),
                          ts[2 + Len(vs)])
      BY <1>10, Zenon DEF push_common
    <2> DEFINE s1 == Lookup(store, k, ts[1])
               s2 == IF s1[k].type = "none" THEN s1 ELSE Lookup(s1, k, ts[2])
               r1 == store_list_push([s |-> s2, len |-> 0], k, vs[1], at_head, ts[3])
               r2 == IF Len(vs) = 1 THEN r1
                     ELSE store_list_push(r1, k, vs[2], at_head, ts[4])
    <2>2. /\ Len(vs) \in 1 .. 2
          /\ vs[1] \in Elems
          /\ Len(vs) = 2 => vs[2] \in Elems
      BY ArgsLen
    <2>3. ts[2] \in Time /\ ts[2 + Len(vs)] \in Time
      BY <2>2, ReadingsType
    <2>4. s2 \in Table
      BY LookupTable
    <2>5. r1.s \in Table
      BY <2>2, <2>4, ListPushTable
    <2>6. r2.s \in Table
      BY <2>2, <2>5, ListPushTable
    <2> QED
      BY <1>0, <2>1, <2>3, <2>4, <2>6, Zenon
  <1>11. ASSUME NEW k \in Keys, NEW at_head \in BOOLEAN, pop_common(k, at_head)
         PROVE  IInv'
    BY <1>0, <1>11, ReadingsType, LookupTable, ListPopTable DEF pop_common
  <1>12. ASSUME NEW k \in Keys, cmd_llen(k)
         PROVE  IInv'
    BY <1>0, <1>12, ReadingsType, LookupTable DEF cmd_llen
  <1>13. ASSUME NEW k \in Keys, NEW start, NEW stop, cmd_lrange(k, start, stop)
         PROVE  IInv'
    BY <1>0, <1>13, ReadingsType, LookupTable DEF cmd_lrange
  <1>14. ASSUME NEW k \in Keys, NEW fvs \in Args(Fields \X Elems), cmd_hset(k, fvs)
         PROVE  IInv'
    <2>1. PICK ts \in Readings(Len(fvs)) :
            LET r1 == store_hash_set(store, k, fvs[1][1], fvs[1][2], ts[1])
                r2 == store_hash_set(r1.s, k, fvs[2][1], fvs[2][2], ts[2])
            IN  \/ \E r : Return(r1.s, <<"hset", k, fvs>>, r, ts[1])
                \/ /\ Len(fvs) = 2
                   /\ \E r : Return(r2.s, <<"hset", k, fvs>>, r, ts[2])
      <3>1. Len(fvs) = 1 \/ Len(fvs) = 2
        BY ArgsLen
      <3> QED
        BY <1>14, <3>1, Zenon DEF cmd_hset
    <2> DEFINE r1 == store_hash_set(store, k, fvs[1][1], fvs[1][2], ts[1])
               r2 == store_hash_set(r1.s, k, fvs[2][1], fvs[2][2], ts[2])
    <2>2. /\ Len(fvs) \in 1 .. 2
          /\ fvs[1] \in Fields \X Elems
          /\ Len(fvs) = 2 => fvs[2] \in Fields \X Elems
      BY ArgsLen
    <2>3. ts[1] \in Time /\ (Len(fvs) = 2 => ts[2] \in Time)
      BY <2>2, ReadingsType
    <2>4. r1.s \in Table
      BY <2>2, HashSetTable
    <2>5. Len(fvs) = 2 => r2.s \in Table
      BY <2>2, <2>4, HashSetTable
    <2> QED
      BY <1>0, <2>1, <2>3, <2>4, <2>5, Zenon
  <1>15. ASSUME NEW k \in Keys, NEW f \in Fields, cmd_hget(k, f)
         PROVE  IInv'
    BY <1>0, <1>15, ReadingsType, LookupTable DEF cmd_hget
  <1>16. ASSUME NEW k \in Keys, cmd_hgetall(k)
         PROVE  IInv'
    BY <1>0, <1>16, ReadingsType, LookupTable DEF cmd_hgetall
  <1>17. ASSUME NEW k \in Keys, NEW fs \in Args(Fields), cmd_hmget(k, fs)
         PROVE  IInv'
    <2>1. PICK ts \in Readings(2 + Len(fs)) :
            LET s1 == Lookup(store, k, ts[1])
                s2 == IF s1[k].type = "none" THEN s1 ELSE Lookup(s1, k, ts[2])
                s3 == Lookup(s2, k, ts[3])
                s4 == IF Len(fs) = 1 THEN s3 ELSE Lookup(s3, k, ts[4])
            IN  \E r : \/ Return(s2, <<"hmget", k, fs>>, r, ts[2])
                       \/ Return(s4, <<"hmget", k, fs>>, r, ts[2 + Len(fs)])
      BY <1>17, Zenon DEF cmd_hmget
    <2>2. ts[2] \in Time /\ ts[2 + Len(fs)] \in Time
      BY ArgsLen, ReadingsType
    <2> QED
      BY <1>0, <2>1, <2>2, LookupTable
  <1>18. ASSUME NEW k \in Keys, NEW fs \in Args(Fields), cmd_hdel(k, fs)
         PROVE  IInv'
    <2>1. PICK ts \in Readings(Len(fs)) :
            LET r1 == store_hash_del(store, k, fs[1], ts[1])
                r2 == store_hash_del(r1.s, k, fs[2], ts[2])
            IN  \/ \E r : Return(r1.s, <<"hdel", k, fs>>, r, ts[1])
                \/ /\ Len(fs) = 2
                   /\ \E r : Return(r2.s, <<"hdel", k, fs>>, r, ts[2])
      <3>1. Len(fs) \in 1 .. 2
        BY ArgsLen
      <3> QED
        BY <1>18, <3>1 DEF cmd_hdel
    <2> DEFINE r1 == store_hash_del(store, k, fs[1], ts[1])
               r2 == store_hash_del(r1.s, k, fs[2], ts[2])
    <2>2. /\ Len(fs) \in 1 .. 2
          /\ fs[1] \in Fields
          /\ Len(fs) = 2 => fs[2] \in Fields
      BY ArgsLen
    <2>3. ts[1] \in Time /\ (Len(fs) = 2 => ts[2] \in Time)
      BY <2>2, ReadingsType
    <2>4. r1.s \in Table
      BY <2>2, HashDelTable
    <2>5. Len(fs) = 2 => r2.s \in Table
      BY <2>2, <2>4, HashDelTable
    <2> QED
      BY <1>0, <2>1, <2>3, <2>4, <2>5
  <1>19. ASSUME NEW k \in Keys, cmd_hlen(k)
         PROVE  IInv'
    BY <1>0, <1>19, ReadingsType, LookupTable DEF cmd_hlen
  <1>20. CASE BadArguments
    BY <1>0, <1>20 DEF BadArguments
  <1>21. CASE UNCHANGED vars
    BY <1>21 DEF vars
  <1>22. Deltas \subseteq Int
    BY KeyspaceAssumption, KeyTypesAssumption DEF Int64, INT64_MIN
  <1> QED
    BY <1>1, <1>2, <1>3, <1>4, <1>5, <1>6, <1>7, <1>8, <1>9, <1>10, <1>11, <1>12,
       <1>13, <1>14, <1>15, <1>16, <1>17, <1>18, <1>19, <1>20, <1>21, <1>22, Zenon
    DEF Next, cmd_incrby

\* The inductive invariant holds in every reachable state.
LEMMA Invariance == Spec => []IInv
  <1>1. Init => IInv
    BY AbsentGood, KeyspaceAssumption DEF Init, IInv, Table, Time
  <1> QED
    BY <1>1, NextIInv, PTL DEF Spec

-------------------------------------------------------------------------------
\* Every reachable table is well typed: no INCR result and no expiry that SET
\* stores leaves the range of int64_t, for every width and every argument.
THEOREM TypeCorrect == Spec => []TypeOK
  <1>1. IInv => TypeOK
    BY DEF IInv, TypeOK, Table, GoodEntry
  <1> QED
    BY <1>1, Invariance, PTL

\* Only strings ever carry an expiry, even if the clock is set back, so a list
\* or hash handler can rely on the type it checked for the rest of its run.
THEOREM OnlyStringsCarryExpiry == Spec => []OnlyStringsExpire
  <1>1. IInv => OnlyStringsExpire
    BY DEF IInv, OnlyStringsExpire, Table, GoodEntry
  <1> QED
    BY <1>1, Invariance, PTL

\* No sequence of commands leaves an empty list or hash behind.
THEOREM CollectionsNeverEmpty == Spec => []NoEmptyCollection
  <1>1. IInv => NoEmptyCollection
    BY DEF IInv, NoEmptyCollection, Table, GoodEntry
  <1> QED
    BY <1>1, Invariance, PTL

-------------------------------------------------------------------------------
(* Pushes *)

\* A lookup finds what is in the table, unless that has expired.
LEMMA LookupFinds ==
  ASSUME NEW s \in Table, NEW k \in Keys, NEW t
  PROVE  /\ \/ Lookup(s, k, t) = s
            \/ s[k].type = "string" /\ Lookup(s, k, t) = [s EXCEPT ![k] = Absent]
         /\ s[k].type # "string" => Lookup(s, k, t) = s
<1>1. s[k] \in GoodEntry
  BY DEF Table
<1>2. s[k].type # "string" => s[k].expires_at = 0
  BY <1>1 DEF GoodEntry
<1> QED
  BY <1>2 DEF Lookup, entry_is_expired

\* A push on a list, or on no entry, adds the value and reports the new length.
LEMMA PushAdds ==
  ASSUME NEW r, r.s \in Table, NEW k \in Keys, NEW v \in Elems, NEW at_head \in BOOLEAN,
         NEW t, r.s[k].type \in {"none", "list"}
  PROVE  LET q == store_list_push(r, k, v, at_head, t)
             n == IF r.s[k].type = "none" THEN 0 ELSE Len(r.s[k].list)
         IN  q.s[k].type = "list" /\ q.len = Len(q.s[k].list) /\ q.len = n + 1 /\ n \in Nat
<1> DEFINE q == store_list_push(r, k, v, at_head, t)
           e == IF r.s[k].type = "none" THEN NewList ELSE r.s[k]
           l == IF at_head THEN <<v>> \o e.list ELSE Append(e.list, v)
<1>1. Lookup(r.s, k, t) = r.s
  BY LookupFinds
<1>2. /\ e.list \in Seq(Elems) /\ e.type = "list"
      /\ e = [type |-> "list", list |-> e.list, expires_at |-> 0]
  <2>1. r.s[k] \in GoodEntry
    BY DEF Table
  <2> QED
    BY <2>1, GoodListShape DEF NewList
<1>3. q = [s |-> [r.s EXCEPT ![k] = [e EXCEPT !.list = l]], len |-> Len(l)]
  BY <1>1, <1>2 DEF store_list_push
<1>4. Len(l) = Len(e.list) + 1 /\ Len(e.list) \in Nat
  BY <1>2
<1>5. Len(e.list) = IF r.s[k].type = "none" THEN 0 ELSE Len(r.s[k].list)
  BY DEF NewList
<1> HIDE DEF l
<1>6. [e EXCEPT !.list = l].type = "list" /\ [e EXCEPT !.list = l].list = l
  BY <1>2
<1> HIDE DEF e
<1>7. q.s[k] = [e EXCEPT !.list = l] /\ q.len = Len(l)
  BY <1>3 DEF Table
<1> QED
  BY <1>4, <1>5, <1>6, <1>7, Zenon

\* A push that is not refused leaves a list of the length it reports.
LEMMA PushStep ==
  ASSUME IInv, NEW k \in Keys, NEW vs \in Args(Elems), NEW at_head \in BOOLEAN,
         push_common(k, vs, at_head), reply' # ErrorReply
  PROVE  LET e == store'[k]
         IN  e.type = "list" /\ reply'.n = Len(e.list) /\ reply'.n >= Len(vs)
<1>1. PICK ts \in Readings(2 + Len(vs)) :
        LET s1 == Lookup(store, k, ts[1])
            s2 == IF s1[k].type = "none" THEN s1 ELSE Lookup(s1, k, ts[2])
            r1 == store_list_push([s |-> s2, len |-> 0], k, vs[1], at_head, ts[3])
            r2 == IF Len(vs) = 1 THEN r1
                  ELSE store_list_push(r1, k, vs[2], at_head, ts[4])
        IN  IF s1[k].type # "none" /\ s2[k].type # "list"
            THEN reply' = ErrorReply
            ELSE store' = r2.s /\ reply' = IntReply(r2.len)
  BY Zenon DEF push_common, Return
<1> DEFINE s1 == Lookup(store, k, ts[1])
           s2 == IF s1[k].type = "none" THEN s1 ELSE Lookup(s1, k, ts[2])
           r0 == [s |-> s2, len |-> 0]
           r1 == store_list_push(r0, k, vs[1], at_head, ts[3])
           r2 == IF Len(vs) = 1 THEN r1
                 ELSE store_list_push(r1, k, vs[2], at_head, ts[4])
<1>2. /\ Len(vs) \in 1 .. 2 /\ vs[1] \in Elems
      /\ Len(vs) = 2 => vs[2] \in Elems
  BY ArgsLen
<1>3. s1 \in Table /\ s2 \in Table
  BY LookupTable DEF IInv
<1>4. /\ s2[k].type \in {"none", "list"}
      /\ store' = r2.s /\ reply' = IntReply(r2.len)
  BY <1>1, Zenon
<1> HIDE DEF s1, s2
<1>5. r0.s = s2 /\ r0.s \in Table /\ r0.s[k].type \in {"none", "list"}
  BY <1>3, <1>4, Zenon
<1> HIDE DEF r0
<1>6. r1.s \in Table /\ r1.s[k].type = "list" /\ r1.len = Len(r1.s[k].list) /\ r1.len >= 1
      /\ r1.len \in Nat
  BY <1>2, <1>5, PushAdds, ListPushTable
<1> HIDE DEF r1
<1>7. r2.s[k].type = "list" /\ r2.len = Len(r2.s[k].list) /\ r2.len >= Len(vs)
  <2>1. CASE Len(vs) = 1
    BY <1>6, <2>1
  <2>2. CASE Len(vs) = 2
    <3> DEFINE q == store_list_push(r1, k, vs[2], at_head, ts[4])
    <3>1. q.s[k].type = "list" /\ q.len = Len(q.s[k].list) /\ q.len = r1.len + 1
      BY <1>2, <1>6, <2>2, PushAdds
    <3> HIDE DEF q
    <3>2. r2 = q
      BY <2>2 DEF q
    <3>3. r1.len + 1 >= Len(vs)
      BY <1>6, <2>2
    <3> HIDE DEF r2
    <3> QED
      BY <3>1, <3>2, <3>3, Zenon
  <2> QED
    BY <1>2, <2>1, <2>2
<1> HIDE DEF r2
<1> QED
  BY <1>4, <1>7 DEF IntReply

\* Only push_common records a push.
LEMMA OnlyPushes ==
  ASSUME Next, cmd'[1] = "push"
  PROVE  \E k \in Keys, vs \in Args(Elems), at_head \in BOOLEAN :
           push_common(k, vs, at_head) /\ cmd' = <<"push", k, vs, at_head>>
<1> USE DEF Return
<1>1. ASSUME NEW k \in Keys, NEW v \in SetValues, NEW opts \in SetOptions, cmd_set(k, v, opts)
      PROVE  cmd'[1] # "push"
  BY <1>1 DEF cmd_set
<1>2. ASSUME NEW k \in Keys, NEW delta, incr_common(k, delta) \/ cmd_decrby(k, delta)
      PROVE  cmd'[1] # "push"
  <2>1. CASE incr_common(k, delta)
    BY <2>1 DEF incr_common
  <2>2. CASE cmd_decrby(k, delta)
    BY <2>2 DEF cmd_decrby, incr_common
  <2> QED
    BY <1>2, <2>1, <2>2, Zenon
<1>3. ASSUME NEW k \in Keys, NEW at_head \in BOOLEAN, pop_common(k, at_head)
      PROVE  cmd'[1] # "push"
  BY <1>3 DEF pop_common
<1>4. ASSUME NEW k \in Keys, NEW start, NEW stop, cmd_lrange(k, start, stop)
      PROVE  cmd'[1] # "push"
  BY <1>4 DEF cmd_lrange
<1>5. ASSUME NEW k \in Keys, NEW fvs, cmd_hset(k, fvs)
      PROVE  cmd'[1] # "push"
  BY <1>5 DEF cmd_hset
<1>6. ASSUME NEW k \in Keys, NEW fs, cmd_hget(k, fs) \/ cmd_hmget(k, fs) \/ cmd_hdel(k, fs)
      PROVE  cmd'[1] # "push"
  <2>1. cmd' \in {<<"hget", k, fs>>, <<"hmget", k, fs>>, <<"hdel", k, fs>>}
    BY <1>6, Zenon DEF cmd_hget, cmd_hmget, cmd_hdel
  <2> QED
    BY <2>1
<1>7. ASSUME NEW k \in Keys, NEW in_ms \in BOOLEAN, ttl_common(k, in_ms)
      PROVE  cmd'[1] # "push"
  BY <1>7 DEF ttl_common
<1>8. ASSUME NEW k \in Keys,
             cmd_get(k) \/ cmd_type(k) \/ cmd_llen(k) \/ cmd_hgetall(k) \/ cmd_hlen(k)
      PROVE  cmd'[1] # "push"
  BY <1>8 DEF cmd_get, cmd_type, cmd_llen, cmd_hgetall, cmd_hlen
<1>9. ASSUME NEW ks, cmd_del(ks) \/ cmd_exists(ks) \/ cmd_keys(ks)
      PROVE  cmd'[1] # "push"
  <2>1. cmd' \in {<<"del", ks>>, <<"exists", ks>>, <<"keys", ks>>}
    BY <1>9, Zenon DEF cmd_del, cmd_exists, cmd_keys
  <2> QED
    BY <2>1
<1>10. ASSUME BadArguments
       PROVE  cmd'[1] # "push"
  BY <1>10 DEF BadArguments
<1>11. ASSUME NEW k \in Keys, NEW vs \in Args(Elems), NEW at_head \in BOOLEAN,
              push_common(k, vs, at_head)
       PROVE  cmd' = <<"push", k, vs, at_head>>
  BY <1>11, Zenon DEF push_common
<1> QED
  BY <1>1, <1>2, <1>3, <1>4, <1>5, <1>6, <1>7, <1>8, <1>9, <1>10, <1>11, Zenon
  DEF Next, cmd_incrby

\* Every push that is not refused adds all its values: push_common ignores the
\* status of store_list_push, and needs nothing else to be sure of it.  This holds
\* even if the clock is set back while the command runs.
THEOREM PushesApplyAll == Spec => PushAppliesAll
<1>1. ASSUME IInv, [Next]_vars
      PROVE  [cmd'[1] = "push" /\ reply' # ErrorReply =>
                LET e == store'[cmd'[2]]
                IN  e.type = "list" /\ reply'.n = Len(e.list) /\ reply'.n >= Len(cmd'[3])]_vars
  <2>1. CASE UNCHANGED vars
    BY <2>1
  <2>2. ASSUME Next, cmd'[1] = "push", reply' # ErrorReply
        PROVE  LET e == store'[cmd'[2]]
               IN  e.type = "list" /\ reply'.n = Len(e.list) /\ reply'.n >= Len(cmd'[3])
    <3>1. PICK k \in Keys, vs \in Args(Elems), at_head \in BOOLEAN :
            push_common(k, vs, at_head) /\ cmd' = <<"push", k, vs, at_head>>
      BY <2>2, OnlyPushes
    <3>2. cmd'[2] = k /\ cmd'[3] = vs
      BY <3>1
    <3> QED
      BY <1>1, <2>2, <3>1, <3>2, PushStep, Zenon
  <2> QED
    BY <1>1, <2>1, <2>2, Zenon
<1> QED
  BY <1>1, Invariance, PTL DEF Spec, PushAppliesAll

-------------------------------------------------------------------------------
(* Errors *)

\* The readings of a clock that is not set back, in order.
LEMMA ReadingsOrdered ==
  ASSUME ~ClockSteps, now \in Time, NEW n \in Nat, NEW ts \in Readings(n)
  PROVE  /\ n >= 1 => ts[1] \in Time /\ now <= ts[1]
         /\ n >= 2 => ts[2] \in Time /\ ts[1] <= ts[2]
         /\ n >= 3 => ts[3] \in Time /\ ts[2] <= ts[3]
         /\ n >= 4 => ts[4] \in Time /\ ts[3] <= ts[4]
BY DEF Readings, Time

\* What has expired stays expired.
LEMMA ExpiredLater ==
  ASSUME NEW s \in Table, NEW k \in Keys, NEW a \in Time, NEW b \in Time, a <= b,
         entry_is_expired(s[k], a)
  PROVE  entry_is_expired(s[k], b)
<1>1. s[k].expires_at \in Int /\ a \in Int /\ b \in Int
  BY EntryCases, KeyTypesAssumption
     DEF Time, Table, GoodEntry, StringEntry, ListEntry, HashEntry, Absent, Int64, INT64_MIN
<1> QED
  BY <1>1 DEF entry_is_expired

\* A lookup removes nothing that is live then or later.
LEMMA LookupLive ==
  ASSUME NEW s \in Table, NEW k \in Keys, NEW t \in Time, NEW u \in Time, t <= u
  PROVE  Live(Lookup(s, k, t), u) = Live(s, u)
<1> DEFINE q == Lookup(s, k, t)
<1>1. CASE ~entry_is_expired(s[k], t)
  BY <1>1 DEF Lookup
<1>2. CASE entry_is_expired(s[k], t)
  <2>1. q = [s EXCEPT ![k] = Absent] /\ DOMAIN s = Keys
    BY <1>2 DEF Lookup, Table
  <2>2. entry_is_expired(s[k], u)
    BY <1>2, ExpiredLater
  <2>3. ~entry_is_expired(Absent, u)
    BY DEF entry_is_expired, Absent
  <2> HIDE DEF q
  <2>4. ASSUME NEW x \in Keys
        PROVE  (IF entry_is_expired(q[x], u) THEN Absent ELSE q[x])
                 = (IF entry_is_expired(s[x], u) THEN Absent ELSE s[x])
    <3>1. CASE x = k
      BY <2>1, <2>2, <2>3, <3>1
    <3>2. CASE x # k
      BY <2>1, <3>2
    <3> QED
      BY <3>1, <3>2
  <2> QED
    BY <2>4, Zenon DEF Live, q
<1> QED
  BY <1>1, <1>2

\* HSET of one field succeeds on a hash and on no entry, and leaves a hash.
LEMMA HashSetOk ==
  ASSUME NEW s \in Table, NEW k \in Keys, NEW f \in Fields, NEW v \in Elems, NEW t \in Time
  PROVE  LET r == store_hash_set(s, k, f, v, t)
         IN  /\ r.ok => r.s[k].type = "hash"
             /\ ~r.ok => r.s = Lookup(s, k, t)
             /\ s[k].type = "hash" => r.ok
<1> DEFINE q == Lookup(s, k, t)
           e == IF q[k].type = "none" THEN NewHash ELSE q[k]
           r == store_hash_set(s, k, f, v, t)
<1>1. q \in Table
  BY LookupTable
<1>2. CASE e.type = "hash"
  <2>1. r.s = [q EXCEPT ![k] = [e EXCEPT !.hash[f] = v]] /\ r.ok = TRUE
    BY <1>2 DEF store_hash_set
  <2>2. r.s[k] = [e EXCEPT !.hash[f] = v]
    BY <1>1, <2>1 DEF Table
  <2>3. [e EXCEPT !.hash[f] = v].type = "hash"
    <3>1. q[k] \in GoodEntry
      BY <1>1 DEF Table
    <3>2. e = [type |-> "hash", hash |-> e.hash, expires_at |-> 0]
      BY <1>2, <3>1, GoodHashShape DEF NewHash
    <3> QED
      BY <3>2
  <2> QED
    BY <2>1, <2>2, <2>3, Zenon
<1>3. CASE e.type # "hash"
  <2>1. r.s = q /\ r.ok = FALSE
    BY <1>3 DEF store_hash_set
  <2>2. s[k].type # "hash"
    BY <1>3, LookupFinds
  <2> QED
    BY <2>1, <2>2
<1> QED
  BY <1>2, <1>3, Zenon

\* HDEL of one field succeeds on a hash and on no entry, and leaves one of the two.
LEMMA HashDelOk ==
  ASSUME NEW s \in Table, NEW k \in Keys, NEW f \in Fields, NEW t \in Time
  PROVE  LET r == store_hash_del(s, k, f, t)
         IN  /\ r.ok => r.s[k].type \in {"none", "hash"}
             /\ ~r.ok => r.s = Lookup(s, k, t)
             /\ s[k].type \in {"none", "hash"} => r.ok
<1> DEFINE q == Lookup(s, k, t)
           e == q[k]
           g == [e EXCEPT !.hash[f] = Nil]
           r == store_hash_del(s, k, f, t)
<1>1. q \in Table
  BY LookupTable
<1>2. CASE e.type = "hash"
  <2>1. r.s = [q EXCEPT ![k] = IF HashFields(g) = {} THEN Absent ELSE g] /\ r.ok = TRUE
    BY <1>2 DEF store_hash_del
  <2>2. r.s[k] = IF HashFields(g) = {} THEN Absent ELSE g
    BY <1>1, <2>1 DEF Table
  <2>3. g.type = "hash"
    <3>1. q[k] \in GoodEntry
      BY <1>1 DEF Table
    <3>2. e = [type |-> "hash", hash |-> e.hash, expires_at |-> 0]
      BY <1>2, <3>1, GoodHashShape
    <3> QED
      BY <3>2
  <2> QED
    BY <2>1, <2>2, <2>3 DEF Absent
<1>3. CASE e.type # "hash"
  <2>1. r.s = q /\ r.ok = (e.type = "none")
    BY <1>3 DEF store_hash_del
  <2>2. s[k].type \in {"none", "hash"} => q = s
    BY LookupFinds
  <2> QED
    BY <1>3, <2>1, <2>2, Zenon
<1> QED
  BY <1>2, <1>3, Zenon

\* A command that answers with an error has only looked keys up.
LEMMA ErrorsStep ==
  ASSUME IInv, Next, reply' = ErrorReply
  PROVE  Live(store', now') = Live(store, now')
<1> USE DEF IInv
<1> DEFINE Goal == Live(store', now') = Live(store, now')
<1>1. ASSUME NEW s, NEW call, NEW r, NEW t, Return(s, call, r, t),
             r = ErrorReply => Live(s, t) = Live(store, t)
      PROVE  Goal
  BY <1>1 DEF Return
<1>2. ASSUME NEW n \in Nat, n >= 1, NEW ts \in Readings(n), NEW k \in Keys
      PROVE  Live(Lookup(store, k, ts[1]), ts[1]) = Live(store, ts[1])
  BY <1>2, ReadingsType, LookupLive DEF Time
<1>3. /\ OkReply # ErrorReply /\ NilReply # ErrorReply
      /\ \A x : /\ IntReply(x) # ErrorReply /\ BulkReply(x) # ErrorReply
                /\ TypeReply(x) # ErrorReply /\ ArrayReply(x) # ErrorReply
                /\ KeysReply(x) # ErrorReply /\ PairsReply(x) # ErrorReply
  BY DEF OkReply, NilReply, ErrorReply, IntReply, BulkReply, TypeReply, ArrayReply,
         KeysReply, PairsReply
<1> HIDE DEF Goal
<1>4. ASSUME NEW k \in Keys, NEW v \in SetValues, NEW opts \in SetOptions, cmd_set(k, v, opts)
      PROVE  Goal
  BY <1>1, <1>4, <1>3, Zenon DEF cmd_set
<1>5. ASSUME NEW k \in Keys, NEW delta, incr_common(k, delta)
      PROVE  Goal
  <2>1. PICK ts \in Readings(2) :
          \/ \E call : Return(Lookup(store, k, ts[1]), call, ErrorReply, ts[1])
          \/ \E s, call, x : Return(s, call, IntReply(x), ts[2])
    BY <1>5, Zenon DEF incr_common
  <2> QED
    BY <1>1, <1>2, <1>3, <2>1
<1>6. ASSUME NEW k \in Keys, NEW delta, cmd_decrby(k, delta)
      PROVE  Goal
  BY <1>1, <1>5, <1>6, Zenon DEF cmd_decrby
<1>7. ASSUME NEW k \in Keys, NEW vs \in Args(Elems), NEW at_head \in BOOLEAN,
             push_common(k, vs, at_head)
      PROVE  Goal
  <2>1. PICK ts \in Readings(2 + Len(vs)) :
          LET s1 == Lookup(store, k, ts[1])
              s2 == IF s1[k].type = "none" THEN s1 ELSE Lookup(s1, k, ts[2])
          IN  \/ s1[k].type # "none" /\ \E call : Return(s2, call, ErrorReply, ts[2])
              \/ \E s, call, x, t : Return(s, call, IntReply(x), t)
    BY <1>7, ZenonT(40) DEF push_common
  <2> DEFINE s1 == Lookup(store, k, ts[1])
             s2 == IF s1[k].type = "none" THEN s1 ELSE Lookup(s1, k, ts[2])
  <2>2. ts[2] \in Time
    BY ArgsLen, ReadingsType
  <2>3. s1[k].type # "none" => s1 = store
    BY LookupFinds DEF Absent, Table
  <2>4. s1[k].type # "none" => Live(s2, ts[2]) = Live(store, ts[2])
    BY <2>2, <2>3, LookupLive DEF Time
  <2> QED
    BY <1>1, <1>3, <2>1, <2>4, Zenon
<1>8. ASSUME NEW k \in Keys, NEW at_head \in BOOLEAN, pop_common(k, at_head)
      PROVE  Goal
  <2>1. PICK ts \in Readings(1) :
          \/ \E call, r : Return(Lookup(store, k, ts[1]), call, r, ts[1])
          \/ \E s, call, x : Return(s, call, BulkReply(x), ts[1])
    BY <1>8, Zenon DEF pop_common
  <2> QED
    BY <1>1, <1>2, <1>3, <2>1
<1>9. ASSUME NEW k \in Keys, NEW ts \in Readings(1), NEW call, NEW r,
             Return(Lookup(store, k, ts[1]), call, r, ts[1])
      PROVE  Goal
  BY <1>1, <1>9, <1>2
<1>10. ASSUME NEW k \in Keys, NEW fvs \in Args(Fields \X Elems), cmd_hset(k, fvs)
      PROVE  Goal
  <2>1. PICK ts \in Readings(Len(fvs)) :
          LET r1 == store_hash_set(store, k, fvs[1][1], fvs[1][2], ts[1])
              r2 == store_hash_set(r1.s, k, fvs[2][1], fvs[2][2], ts[2])
          IN  IF Len(fvs) = 1 \/ ~r1.ok
              THEN Return(r1.s, <<"hset", k, fvs>>,
                          IF r1.ok THEN IntReply(r1.created) ELSE ErrorReply, ts[1])
              ELSE Return(r2.s, <<"hset", k, fvs>>,
                          IF r2.ok THEN IntReply(r1.created + r2.created) ELSE ErrorReply,
                          ts[2])
    BY <1>10, Zenon DEF cmd_hset
  <2> DEFINE r1 == store_hash_set(store, k, fvs[1][1], fvs[1][2], ts[1])
             r2 == store_hash_set(r1.s, k, fvs[2][1], fvs[2][2], ts[2])
  <2>2. /\ Len(fvs) \in 1 .. 2
        /\ fvs[1] \in Fields \X Elems
        /\ Len(fvs) = 2 => fvs[2] \in Fields \X Elems
    BY ArgsLen
  <2>3. ts[1] \in Time /\ (Len(fvs) = 2 => ts[2] \in Time)
    BY <2>2, ReadingsType
  <2>4. /\ r1.s \in Table /\ (~r1.ok => r1.s = Lookup(store, k, ts[1]))
        /\ r1.ok => r1.s[k].type = "hash"
    BY <2>2, <2>3, HashSetTable, HashSetOk
  <2>5. CASE ~r1.ok
    <3>1. \E r : Return(Lookup(store, k, ts[1]), <<"hset", k, fvs>>, r, ts[1])
      BY <2>1, <2>4, <2>5, Zenon
    <3> QED
      BY <1>1, <1>2, <2>2, <3>1
  <2>6. CASE r1.ok /\ Len(fvs) = 1
    BY <1>1, <1>3, <2>1, <2>6, Zenon
  <2>7. CASE r1.ok /\ Len(fvs) = 2
    <3>1. r2.ok
      BY <2>2, <2>3, <2>4, <2>7, HashSetOk, Zenon
    <3>2. \E s, call, x : Return(s, call, IntReply(x), ts[2])
      BY <2>1, <2>7, <3>1, Zenon
    <3> QED
      BY <1>1, <1>3, <3>2, Zenon
  <2> QED
    BY <2>2, <2>5, <2>6, <2>7
<1>11. ASSUME NEW k \in Keys, NEW f, cmd_hget(k, f)
      PROVE  Goal
  BY <1>9, <1>11, Zenon DEF cmd_hget
<1>12. ASSUME NEW k \in Keys, NEW fs \in Args(Fields), cmd_hmget(k, fs)
      PROVE  Goal
  <2>1. PICK ts \in Readings(2 + Len(fs)) :
          LET s1 == Lookup(store, k, ts[1])
              s2 == IF s1[k].type = "none" THEN s1 ELSE Lookup(s1, k, ts[2])
          IN  \/ s1[k].type # "none" /\ \E call : Return(s2, call, ErrorReply, ts[2])
              \/ \E s, call, x, t : Return(s, call, ArrayReply(x), t)
    BY <1>12, Zenon DEF cmd_hmget
  <2> DEFINE s1 == Lookup(store, k, ts[1])
             s2 == IF s1[k].type = "none" THEN s1 ELSE Lookup(s1, k, ts[2])
  <2>2. ts[2] \in Time
    BY ArgsLen, ReadingsType
  <2>3. s1[k].type # "none" => s1 = store
    BY LookupFinds DEF Absent, Table
  <2>4. s1[k].type # "none" => Live(s2, ts[2]) = Live(store, ts[2])
    BY <2>2, <2>3, LookupLive DEF Time
  <2> QED
    BY <1>1, <1>3, <2>1, <2>4, Zenon
<1>13. ASSUME NEW k \in Keys, NEW fs \in Args(Fields), cmd_hdel(k, fs)
       PROVE  Goal
  <2>1. PICK ts \in Readings(Len(fs)) :
          LET r1 == store_hash_del(store, k, fs[1], ts[1])
              r2 == store_hash_del(r1.s, k, fs[2], ts[2])
          IN  IF Len(fs) = 1 \/ ~r1.ok
              THEN Return(r1.s, <<"hdel", k, fs>>,
                          IF r1.ok THEN IntReply(r1.deleted) ELSE ErrorReply, ts[1])
              ELSE Return(r2.s, <<"hdel", k, fs>>,
                          IF r2.ok THEN IntReply(r1.deleted + r2.deleted) ELSE ErrorReply,
                          ts[2])
    BY <1>13, Zenon DEF cmd_hdel
  <2> DEFINE r1 == store_hash_del(store, k, fs[1], ts[1])
             r2 == store_hash_del(r1.s, k, fs[2], ts[2])
  <2>2. /\ Len(fs) \in 1 .. 2 /\ fs[1] \in Fields
        /\ Len(fs) = 2 => fs[2] \in Fields
    BY ArgsLen
  <2>3. ts[1] \in Time /\ (Len(fs) = 2 => ts[2] \in Time)
    BY <2>2, ReadingsType
  <2>4. /\ r1.s \in Table /\ (~r1.ok => r1.s = Lookup(store, k, ts[1]))
        /\ r1.ok => r1.s[k].type \in {"none", "hash"}
    BY <2>2, <2>3, HashDelTable, HashDelOk, Zenon
  <2>5. CASE ~r1.ok
    <3>1. \E r : Return(Lookup(store, k, ts[1]), <<"hdel", k, fs>>, r, ts[1])
      BY <2>1, <2>4, <2>5, Zenon
    <3> QED
      BY <1>1, <1>2, <2>2, <3>1
  <2>6. CASE r1.ok /\ Len(fs) = 1
    BY <1>1, <1>3, <2>1, <2>6, Zenon
  <2>7. CASE r1.ok /\ Len(fs) = 2
    <3>1. r2.ok
      BY <2>2, <2>3, <2>4, <2>7, HashDelOk, Zenon
    <3>2. \E s, call, x : Return(s, call, IntReply(x), ts[2])
      BY <2>1, <2>7, <3>1, Zenon
    <3> QED
      BY <1>1, <1>3, <3>2, Zenon
  <2> QED
    BY <2>2, <2>5, <2>6, <2>7
<1>14. ASSUME NEW k \in Keys,
              cmd_get(k) \/ cmd_type(k) \/ cmd_llen(k) \/ cmd_hgetall(k) \/ cmd_hlen(k)
       PROVE  Goal
  BY <1>9, <1>14, Zenon DEF cmd_get, cmd_type, cmd_llen, cmd_hgetall, cmd_hlen
<1>15. ASSUME NEW k \in Keys, NEW in_ms, ttl_common(k, in_ms)
       PROVE  Goal
  <2>1. \E ts \in Readings(2) : \E s, call, x : Return(s, call, IntReply(x), ts[2])
    BY <1>15, Zenon DEF ttl_common
  <2> QED
    BY <1>1, <1>3, <2>1, Zenon
<1>16. ASSUME NEW k \in Keys, NEW start, NEW stop, cmd_lrange(k, start, stop)
       PROVE  Goal
  BY <1>9, <1>16, Zenon DEF cmd_lrange
<1>17. ASSUME NEW ks, cmd_del(ks) \/ cmd_exists(ks) \/ cmd_keys(ks)
       PROVE  Goal
  BY <1>1, <1>3, <1>17, Zenon DEF cmd_del, cmd_exists, cmd_keys
<1>18. ASSUME BadArguments
       PROVE  Goal
  BY <1>1, <1>18, Zenon DEF BadArguments
<1>19. Goal
  BY <1>4, <1>5, <1>6, <1>7, <1>8, <1>10, <1>11, <1>12, <1>13, <1>14, <1>15, <1>16, <1>17,
     <1>18, Zenon
     DEF Next, cmd_incrby
<1> QED
  BY <1>19 DEF Goal

\* A command that answers with an error has changed no live key, whatever expired
\* while it ran, and even if the clock is set back between two of its lookups.
THEOREM ErrorsAreHarmless == Spec => ErrorsChangeNothing
<1>1. IInv /\ [Next]_vars =>
        [reply' = ErrorReply => Live(store', now') = Live(store, now')]_vars
  BY ErrorsStep
<1> QED
  BY <1>1, Invariance, PTL DEF Spec, ErrorsChangeNothing

-------------------------------------------------------------------------------
(* Expiry *)

\* Every string of u is in s, with its expiry.
Tame(s, u) == \A k \in Keys : u[k].type = "string" => u[k] = s[k]

\* Tame steps compose.
LEMMA TameTrans ==
  ASSUME NEW s, NEW u, NEW w, Tame(s, u), Tame(u, w)
  PROVE  Tame(s, w)
BY Zenon DEF Tame

\* The store calls of the list and hash commands are tame.
LEMMA TameReplace ==
  ASSUME NEW s \in Table, NEW k \in Keys, NEW e, e.type # "string"
  PROVE  Tame(s, [s EXCEPT ![k] = e])
BY DEF Tame, Table

\* A lookup stores no string.
LEMMA TameLookup ==
  ASSUME NEW s \in Table, NEW k \in Keys, NEW t
  PROVE  Tame(s, Lookup(s, k, t))
<1>1. Absent.type # "string" /\ Tame(s, s)
  BY DEF Absent, Tame
<1> QED
  BY <1>1, LookupFinds, TameReplace

\* Nor does a push.
LEMMA TamePush ==
  ASSUME NEW r, r.s \in Table, NEW k \in Keys, NEW v \in Elems, NEW at_head \in BOOLEAN, NEW t
  PROVE  Tame(r.s, store_list_push(r, k, v, at_head, t).s)
<1> DEFINE s == Lookup(r.s, k, t)
           e == IF s[k].type = "none" THEN NewList ELSE s[k]
           l == IF at_head THEN <<v>> \o e.list ELSE Append(e.list, v)
<1>1. s \in Table /\ Tame(r.s, s)
  BY LookupTable, TameLookup
<1>2. CASE e.type = "list"
  <2>1. s[k] \in GoodEntry
    BY <1>1 DEF Table
  <2>2. e = [type |-> "list", list |-> e.list, expires_at |-> 0]
    BY <1>2, <2>1, GoodListShape DEF NewList
  <2>3. [e EXCEPT !.list = l].type # "string"
    <3> HIDE DEF l
    <3> QED
      BY <2>2
  <2>4. store_list_push(r, k, v, at_head, t).s = [s EXCEPT ![k] = [e EXCEPT !.list = l]]
    BY <1>2 DEF store_list_push
  <2> HIDE DEF s, e, l
  <2> QED
    BY <1>1, <2>3, <2>4, TameReplace, TameTrans, Zenon
<1>3. CASE e.type # "list"
  BY <1>1, <1>3 DEF store_list_push
<1> QED
  BY <1>2, <1>3, Zenon

\* Nor does a pop.
LEMMA TamePop ==
  ASSUME NEW s \in Table, NEW k \in Keys, NEW at_head \in BOOLEAN, s[k].type = "list"
  PROVE  Tame(s, store_list_pop(s, k, at_head))
<1> DEFINE l == s[k].list
           rest == IF at_head THEN Tail(l) ELSE SubSeq(l, 1, Len(l) - 1)
           e == IF rest = << >> THEN Absent ELSE [s[k] EXCEPT !.list = rest]
<1>1. s[k] \in GoodEntry
  BY DEF Table
<1>2. s[k] = [type |-> "list", list |-> l, expires_at |-> 0]
  BY <1>1, GoodListShape
<1>3. e.type # "string"
  <2> HIDE DEF rest
  <2> QED
    BY <1>2 DEF Absent
<1>4. store_list_pop(s, k, at_head) = [s EXCEPT ![k] = e]
  BY DEF store_list_pop
<1> HIDE DEF e
<1>5. Tame(s, [s EXCEPT ![k] = e])
  BY <1>3, TameReplace
<1> QED
  BY <1>4, <1>5, Zenon

\* Nor does HSET of a field.
LEMMA TameHashSet ==
  ASSUME NEW s0 \in Table, NEW k \in Keys, NEW f \in Fields, NEW v \in Elems, NEW t \in Time
  PROVE  Tame(s0, store_hash_set(s0, k, f, v, t).s)
<1> DEFINE s == Lookup(s0, k, t)
           e == IF s[k].type = "none" THEN NewHash ELSE s[k]
           r == store_hash_set(s0, k, f, v, t)
<1>1. s \in Table /\ Tame(s0, s)
  BY LookupTable, TameLookup
<1>2. CASE e.type = "hash"
  <2>1. s[k] \in GoodEntry
    BY <1>1 DEF Table
  <2>2. e = [type |-> "hash", hash |-> e.hash, expires_at |-> 0]
    BY <1>2, <2>1, GoodHashShape DEF NewHash
  <2>3. [e EXCEPT !.hash[f] = v].type # "string"
    BY <2>2
  <2>4. r.s = [s EXCEPT ![k] = [e EXCEPT !.hash[f] = v]]
    BY <1>2 DEF store_hash_set
  <2> HIDE DEF s, e, r
  <2> QED
    BY <1>1, <2>3, <2>4, TameReplace, TameTrans, Zenon DEF r
<1>3. CASE e.type # "hash"
  BY <1>1, <1>3 DEF store_hash_set
<1> QED
  BY <1>2, <1>3

\* Nor does HDEL of a field.
LEMMA TameHashDel ==
  ASSUME NEW s0 \in Table, NEW k \in Keys, NEW f \in Fields, NEW t \in Time
  PROVE  Tame(s0, store_hash_del(s0, k, f, t).s)
<1> DEFINE s == Lookup(s0, k, t)
           e == s[k]
           g == [e EXCEPT !.hash[f] = Nil]
           d == IF HashFields(g) = {} THEN Absent ELSE g
           r == store_hash_del(s0, k, f, t)
<1>1. s \in Table /\ Tame(s0, s)
  BY LookupTable, TameLookup
<1>2. CASE e.type = "hash"
  <2>1. s[k] \in GoodEntry
    BY <1>1 DEF Table
  <2>2. e = [type |-> "hash", hash |-> e.hash, expires_at |-> 0]
    BY <1>2, <2>1, GoodHashShape
  <2>3. d.type # "string"
    BY <2>2 DEF Absent
  <2>4. r.s = [s EXCEPT ![k] = d]
    BY <1>2 DEF store_hash_del
  <2> HIDE DEF s, d, r
  <2> QED
    BY <1>1, <2>3, <2>4, TameReplace, TameTrans DEF r
<1>3. CASE e.type # "hash"
  BY <1>1, <1>3 DEF store_hash_del
<1> QED
  BY <1>2, <1>3

\* INCR keeps the expiry of the string it finds.
LEMMA IncrKeeps ==
  ASSUME ~ClockSteps, IInv, NEW k \in Keys, NEW delta, incr_common(k, delta),
         NEW x \in Keys, store[x].type = "string", ~entry_is_expired(store[x], now'),
         store'[x].type = "string"
  PROVE  store'[x].expires_at = store[x].expires_at
<1>1. PICK ts \in Readings(2) :
        \/ store' = Lookup(store, k, ts[1])
        \/ /\ now' = ts[2]
           /\ \E sum : store' = StoreSum(Lookup(store, k, ts[1]), k, sum)
  BY Zenon DEF incr_common, Return
<1> DEFINE s == Lookup(store, k, ts[1])
<1>2. s \in Table /\ Tame(store, s) /\ ts[1] \in Time /\ ts[2] \in Time /\ ts[1] <= ts[2]
  BY LookupTable, TameLookup, ReadingsOrdered DEF IInv
<1>3. CASE store' = s
  BY <1>2, <1>3, Zenon DEF Tame
<1>4. ASSUME now' = ts[2], NEW sum, store' = StoreSum(s, k, sum)
      PROVE  store'[x].expires_at = store[x].expires_at
  <2>1. CASE x # k
    <3>1. store'[x] = s[x]
      BY <1>2, <1>4, <2>1 DEF StoreSum, store_set, Table
    <3> QED
      BY <1>2, <3>1, Zenon DEF Tame
  <2>2. CASE x = k /\ s[k].type = "string"
    <3>1. s[k] = store[k] /\ store' = [s EXCEPT ![k].str = sum]
      BY <1>2, <1>4, <2>2 DEF Tame, StoreSum
    <3>2. s[k] \in StringEntry
      BY <1>2, <2>2, EntryCases, Zenon DEF Table, GoodEntry
    <3>3. store'[k] = [s[k] EXCEPT !.str = sum]
      BY <1>2, <3>1 DEF Table
    <3>4. store'[k].expires_at = s[k].expires_at
      BY <3>2, <3>3 DEF StringEntry
    <3> QED
      BY <2>2, <3>1, <3>4
  <2>3. CASE x = k /\ s[k].type # "string"
    <3>1. entry_is_expired(store[k], ts[1])
      BY <2>3 DEF Lookup
    <3>2. store[k].expires_at \in Int
      <4>1. store[k] \in StringEntry
        BY <2>3, EntryCases, Zenon DEF IInv, Table, GoodEntry
      <4> QED
        BY <4>1, KeyTypesAssumption DEF StringEntry, Int64, INT64_MIN
    <3>3. entry_is_expired(store[k], ts[2])
      BY <1>2, <3>1, <3>2 DEF entry_is_expired, Time
    <3> QED
      BY <1>4, <2>3, <3>3, Zenon
  <2> QED
    BY <2>1, <2>2, <2>3, Zenon
<1> HIDE DEF s
<1> QED
  BY <1>1, <1>3, <1>4, Zenon DEF s

\* No command but SET and INCR stores a string.
LEMMA TameStep ==
  ASSUME IInv, Next
  PROVE  \/ Tame(store, store') \/ cmd'[1] = "set"
         \/ \E k \in Keys : \E delta : incr_common(k, delta)
<1> USE DEF IInv
<1>1. Tame(store, store)
  BY DEF Tame
<1>2. ASSUME NEW ts, NEW k \in Keys, store' = Lookup(store, k, ts)
      PROVE  Tame(store, store')
  BY <1>2, TameLookup
<1>3. ASSUME NEW k \in Keys, NEW v \in SetValues, NEW opts \in SetOptions, cmd_set(k, v, opts)
      PROVE  cmd'[1] = "set"
  BY <1>3 DEF cmd_set, Return
<1>4. ASSUME NEW k \in Keys, NEW delta, cmd_decrby(k, delta)
      PROVE  Tame(store, store') \/ \E d : incr_common(k, d)
  BY <1>1, <1>4, Zenon DEF cmd_decrby, Return
<1>5. ASSUME NEW k \in Keys, NEW vs \in Args(Elems), NEW at_head \in BOOLEAN,
             push_common(k, vs, at_head)
      PROVE  Tame(store, store')
  <2>1. PICK ts \in Readings(2 + Len(vs)) :
          LET s1 == Lookup(store, k, ts[1])
              s2 == IF s1[k].type = "none" THEN s1 ELSE Lookup(s1, k, ts[2])
              r1 == store_list_push([s |-> s2, len |-> 0], k, vs[1], at_head, ts[3])
              r2 == IF Len(vs) = 1 THEN r1
                    ELSE store_list_push(r1, k, vs[2], at_head, ts[4])
          IN  store' = s2 \/ store' = r2.s
    BY <1>5, Zenon DEF push_common, Return
  <2> DEFINE s1 == Lookup(store, k, ts[1])
             s2 == IF s1[k].type = "none" THEN s1 ELSE Lookup(s1, k, ts[2])
             r0 == [s |-> s2, len |-> 0]
             r1 == store_list_push(r0, k, vs[1], at_head, ts[3])
             r2 == store_list_push(r1, k, vs[2], at_head, ts[4])
  <2>2. store' = s2 \/ store' = r1.s \/ (Len(vs) # 1 /\ store' = r2.s)
    BY <2>1, Zenon
  <2>3. /\ Len(vs) \in 1 .. 2 /\ vs[1] \in Elems
        /\ Len(vs) = 2 => vs[2] \in Elems
    BY ArgsLen
  <2>4. s1 \in Table /\ s2 \in Table /\ Tame(store, s1) /\ Tame(s1, s2)
    BY <1>1, LookupTable, TameLookup DEF Tame
  <2> HIDE DEF s1, s2
  <2>5. r0.s = s2 /\ r0.s \in Table
    BY <2>4
  <2> HIDE DEF r0
  <2>6. r1.s \in Table /\ Tame(s2, r1.s)
    BY <2>3, <2>5, ListPushTable, TamePush, Zenon
  <2> HIDE DEF r1
  <2>7. Len(vs) # 1 => Tame(r1.s, r2.s)
    BY <2>3, <2>6, TamePush
  <2> HIDE DEF r2
  <2> QED
    BY <2>2, <2>4, <2>6, <2>7, TameTrans
<1>6. ASSUME NEW k \in Keys, NEW at_head \in BOOLEAN, pop_common(k, at_head)
      PROVE  Tame(store, store')
  <2>1. PICK ts \in Readings(1) :
          \/ store' = Lookup(store, k, ts[1])
          \/ /\ Lookup(store, k, ts[1])[k].type = "list"
             /\ store' = store_list_pop(Lookup(store, k, ts[1]), k, at_head)
    BY <1>6 DEF pop_common, Return
  <2> DEFINE s == Lookup(store, k, ts[1])
  <2>2. s \in Table /\ Tame(store, s)
    BY LookupTable, TameLookup
  <2> HIDE DEF s
  <2>3. s[k].type = "list" => Tame(s, store_list_pop(s, k, at_head))
    BY <2>2, TamePop
  <2> QED
    BY <2>1, <2>2, <2>3, TameTrans DEF s
<1>7. ASSUME NEW k \in Keys, NEW fvs \in Args(Fields \X Elems), cmd_hset(k, fvs)
      PROVE  Tame(store, store')
  <2>1. PICK ts \in Readings(Len(fvs)) :
          LET r1 == store_hash_set(store, k, fvs[1][1], fvs[1][2], ts[1])
              r2 == store_hash_set(r1.s, k, fvs[2][1], fvs[2][2], ts[2])
          IN  store' = r1.s \/ (Len(fvs) # 1 /\ store' = r2.s)
    BY <1>7, Zenon DEF cmd_hset, Return
  <2> DEFINE r1 == store_hash_set(store, k, fvs[1][1], fvs[1][2], ts[1])
             r2 == store_hash_set(r1.s, k, fvs[2][1], fvs[2][2], ts[2])
  <2>2. /\ Len(fvs) \in 1 .. 2 /\ fvs[1] \in Fields \X Elems
        /\ Len(fvs) = 2 => fvs[2] \in Fields \X Elems
    BY ArgsLen, Zenon
  <2>3. ts[1] \in Time /\ (Len(fvs) = 2 => ts[2] \in Time)
    BY <2>2, ReadingsType
  <2>4. r1.s \in Table /\ Tame(store, r1.s)
    BY <2>2, <2>3, HashSetTable, TameHashSet, Zenon
  <2> HIDE DEF r1
  <2>5. Len(fvs) # 1 => Tame(r1.s, r2.s)
    BY <2>2, <2>3, <2>4, TameHashSet
  <2> QED
    BY <2>1, <2>4, <2>5, TameTrans DEF r1
<1>8. ASSUME NEW k \in Keys, NEW fs \in Args(Fields), cmd_hdel(k, fs)
      PROVE  Tame(store, store')
  <2>1. PICK ts \in Readings(Len(fs)) :
          LET r1 == store_hash_del(store, k, fs[1], ts[1])
              r2 == store_hash_del(r1.s, k, fs[2], ts[2])
          IN  store' = r1.s \/ (Len(fs) # 1 /\ store' = r2.s)
    BY <1>8, Zenon DEF cmd_hdel, Return
  <2> DEFINE r1 == store_hash_del(store, k, fs[1], ts[1])
             r2 == store_hash_del(r1.s, k, fs[2], ts[2])
  <2>2. /\ Len(fs) \in 1 .. 2 /\ fs[1] \in Fields
        /\ Len(fs) = 2 => fs[2] \in Fields
    BY ArgsLen
  <2>3. ts[1] \in Time /\ (Len(fs) = 2 => ts[2] \in Time)
    BY <2>2, ReadingsType
  <2>4. r1.s \in Table /\ Tame(store, r1.s)
    BY <2>2, <2>3, HashDelTable, TameHashDel
  <2> HIDE DEF r1
  <2>5. Len(fs) # 1 => Tame(r1.s, r2.s)
    BY <2>2, <2>3, <2>4, TameHashDel
  <2> QED
    BY <2>1, <2>4, <2>5, TameTrans DEF r1
<1>9. ASSUME NEW k \in Keys, NEW fs \in Args(Fields), cmd_hmget(k, fs)
      PROVE  Tame(store, store')
  <2>1. PICK ts :
          LET s1 == Lookup(store, k, ts[1])
              s2 == IF s1[k].type = "none" THEN s1 ELSE Lookup(s1, k, ts[2])
              s3 == Lookup(s2, k, ts[3])
              s4 == IF Len(fs) = 1 THEN s3 ELSE Lookup(s3, k, ts[4])
          IN  store' = s2 \/ store' = s4
    BY <1>9, Zenon DEF cmd_hmget, Return
  <2> DEFINE s1 == Lookup(store, k, ts[1])
             s2 == IF s1[k].type = "none" THEN s1 ELSE Lookup(s1, k, ts[2])
             s3 == Lookup(s2, k, ts[3])
             s4 == IF Len(fs) = 1 THEN s3 ELSE Lookup(s3, k, ts[4])
  <2>2. s1 \in Table /\ s2 \in Table /\ Tame(store, s1) /\ Tame(s1, s2)
    BY <1>1, LookupTable, TameLookup DEF Tame
  <2>3. store' = s2 \/ store' = s4
    BY <2>1, Zenon
  <2> HIDE DEF s1, s2
  <2>4. s3 \in Table /\ Tame(s2, s3)
    BY <2>2, LookupTable, TameLookup
  <2> HIDE DEF s3
  <2>5. Tame(s3, s4)
    BY <2>4, TameLookup DEF Tame
  <2> HIDE DEF s4
  <2> QED
    BY <2>2, <2>3, <2>4, <2>5, TameTrans
<1>10. ASSUME NEW k \in Keys,
             \/ cmd_get(k) \/ cmd_type(k) \/ cmd_llen(k) \/ cmd_hgetall(k) \/ cmd_hlen(k)
             \/ \E f \in Fields : cmd_hget(k, f)
             \/ \E in_ms \in BOOLEAN : ttl_common(k, in_ms)
             \/ \E start, stop \in Indexes : cmd_lrange(k, start, stop)
      PROVE  Tame(store, store')
  <2>1. \E ts : store' = Lookup(store, k, ts)
    BY <1>10, Zenon DEF cmd_get, cmd_type, cmd_llen, cmd_hgetall, cmd_hlen, cmd_hget, ttl_common,
                       cmd_lrange, Return
  <2> QED
    BY <1>2, <2>1, Zenon
<1>11. ASSUME NEW ks, cmd_del(ks) \/ cmd_exists(ks)
      PROVE  Tame(store, store')
  <2>1. ASSUME NEW k \in Keys
        PROVE  store'[k] = Absent \/ store'[k] = store[k]
    BY <1>11, Zenon DEF cmd_del, cmd_exists, Return
  <2> QED
    BY <2>1 DEF Tame, Absent
<1>12. ASSUME BadArguments \/ \E pattern \in SUBSET Keys : cmd_keys(pattern)
       PROVE  Tame(store, store')
  BY <1>1, <1>12, Zenon DEF BadArguments, cmd_keys, Return
<1> QED
  BY <1>3, <1>4, <1>5, <1>6, <1>7, <1>8, <1>9, <1>10, <1>11, <1>12, Zenon DEF Next, cmd_incrby

\* A command other than SET keeps the expiry of every live string that stays one.
LEMMA ExpiryStep ==
  ASSUME ~ClockSteps, IInv, Next, cmd'[1] # "set", NEW k \in Keys,
         store[k].type = "string", ~entry_is_expired(store[k], now'),
         store'[k].type = "string"
  PROVE  store'[k].expires_at = store[k].expires_at
BY TameStep, IncrKeeps DEF Tame

\* As long as the wall clock is not set back, no command but SET changes when a live
\* string expires: store_incr puts the expiry back that store_set cleared.
THEOREM ExpiryComesFromSet ==
  ASSUME ~ClockSteps
  PROVE  Spec => ExpiryOnlyFromSet
<1>1. IInv /\ [Next]_vars =>
        [\A k \in Keys :
           (/\ cmd'[1] # "set"
            /\ store[k].type = "string" /\ ~entry_is_expired(store[k], now')
            /\ store'[k].type = "string")
             => store'[k].expires_at = store[k].expires_at]_vars
  BY ExpiryStep
<1> QED
  BY <1>1, Invariance, PTL DEF Spec, ExpiryOnlyFromSet

-------------------------------------------------------------------------------
(* Instants *)

\* What is live later was live before.
LEMMA AtLive ==
  ASSUME NEW s \in Table, NEW a \in Time, NEW t \in Time, a <= t
  PROVE  Eager!At(Live(s, a), t) = Live(s, t)
<1>1. ASSUME NEW k \in Keys
      PROVE  (IF entry_is_expired(Live(s, a)[k], t) THEN Absent ELSE Live(s, a)[k])
               = IF entry_is_expired(s[k], t) THEN Absent ELSE s[k]
  <2>1. Live(s, a)[k] = IF entry_is_expired(s[k], a) THEN Absent ELSE s[k]
    BY DEF Live
  <2>2. ~entry_is_expired(Absent, t)
    BY DEF entry_is_expired, Absent
  <2>3. entry_is_expired(s[k], a) => entry_is_expired(s[k], t)
    BY ExpiredLater
  <2> QED
    BY <2>1, <2>2, <2>3
<1> QED
  BY <1>1, Zenon DEF Live, Eager!At, Eager!entry_is_expired, entry_is_expired, Eager!Absent, Absent

\* What a lookup of k finds is what is live of k.
LEMMA LiveKey ==
  ASSUME NEW s \in Table, NEW k \in Keys, NEW t \in Time
  PROVE  Live(s, t)[k] = Lookup(s, k, t)[k]
BY DEF Live, Lookup, Table

\* What is live is a table.
LEMMA LiveTable ==
  ASSUME NEW s \in Table, NEW t
  PROVE  Live(s, t) \in Table
BY AbsentGood DEF Live, Table

\* An entry that is absent is one of type none.
LEMMA AbsentType ==
  ASSUME NEW s \in Table, NEW k \in Keys
  PROVE  s[k] = Absent <=> s[k].type = "none"
BY EntryCases DEF Table, GoodEntry, Absent

\* A handler that looks one key up once sees what is live at that instant, and leaves it.
LEMMA OneLookup ==
  ASSUME ~ClockSteps, IInv, NEW k \in Keys, NEW n \in Nat \ {0}, NEW ts \in Readings(n)
  PROVE  /\ ts[1] \in now .. MaxTime /\ ts[1] \in ts[1] .. MaxTime /\ ts[1] \in Time
         /\ Live(store, ts[1])[k] = Lookup(store, k, ts[1])[k]
         /\ Live(Lookup(store, k, ts[1]), ts[1]) = Live(store, ts[1])
         /\ Eager!At(Live(store, now), ts[1]) = Live(store, ts[1])
         /\ Eager!At(Live(store, ts[1]), ts[1]) = Live(store, ts[1])
<1>1. ts[1] \in Time /\ now <= ts[1] /\ now \in Time /\ store \in Table
  BY ReadingsOrdered DEF IInv
<1> QED
  BY <1>1, LiveKey, LookupLive, AtLive DEF Time

\* Replacing one entry, seen at a later instant.
LEMMA ReplaceLive ==
  ASSUME NEW s \in Table, NEW k \in Keys, NEW x, NEW t \in Time, NEW u \in Time, t <= u
  PROVE  Live([s EXCEPT ![k] = x], u) = Eager!At([Live(s, t) EXCEPT ![k] = x], u)
<1> DEFINE a == [s EXCEPT ![k] = x]
           L == Live(s, t)
           b == [L EXCEPT ![k] = x]
           Gone(y) == IF entry_is_expired(y, u) THEN Absent ELSE y
<1>1. DOMAIN s = Keys /\ DOMAIN L = Keys
  BY DEF Live, Table
<1>2. ASSUME NEW j \in Keys
      PROVE  Gone(a[j]) = Gone(b[j])
  <2>1. CASE j = k
    <3>1. a[j] = x /\ b[j] = x
      BY <1>1, <2>1
    <3> QED
      BY <3>1
  <2>2. CASE j # k
    <3>1. a[j] = s[j] /\ b[j] = L[j]
      BY <1>1, <2>2
    <3>2. Eager!At(L, u)[j] = Live(s, u)[j]
      BY AtLive
    <3>3. Gone(L[j]) = Gone(s[j])
      BY <3>2, Zenon DEF Live, Eager!At, Eager!entry_is_expired, entry_is_expired, Eager!Absent, Absent
    <3> QED
      BY <3>1, <3>3
  <2> QED
    BY <2>1, <2>2
<1> HIDE DEF a, b, L
<1>3. Live(a, u) = Eager!At(b, u)
  BY <1>2, Zenon DEF Live, Eager!At, Eager!entry_is_expired, entry_is_expired, Eager!Absent, Absent
<1> QED
  BY <1>3 DEF a, b, L

\* The readings of a command with one or two arguments, in order.
LEMMA ArgReadings ==
  ASSUME ~ClockSteps, IInv, NEW S, NEW xs \in Args(S), NEW ts \in Readings(Len(xs))
  PROVE  LET n == Len(xs)
         IN  /\ n \in 1 .. 2 /\ now \in Time /\ store \in Table
             /\ ts[1] \in Time /\ now <= ts[1] /\ ts[n] \in Time /\ ts[1] <= ts[n] /\ now <= ts[n]
             /\ ts \in [1 .. n -> now .. ts[n]]
             /\ \A i \in 2 .. n : ts[i] >= ts[i - 1]
             /\ ts[n] \in now .. MaxTime
             /\ \A i \in 1 .. n : /\ ts[i] \in Time /\ now <= ts[i] /\ ts[i] <= ts[n]
                                  /\ xs[i] \in S
                                  /\ \A j \in 1 .. i : ts[j] <= ts[i]
<1>1. Len(xs) \in 1 .. 2
  BY ArgsLen
<1> DEFINE n == Len(xs)
<1> HIDE DEF n
<1>2. n \in 1 .. 2 /\ n \in Nat /\ ts \in Readings(n)
  BY <1>1 DEF n
<1>3. /\ ts[1] \in Time /\ now <= ts[1]
      /\ n >= 2 => ts[2] \in Time /\ ts[1] <= ts[2]
      /\ now \in Time /\ store \in Table
  BY <1>2, ReadingsOrdered DEF IInv
<1>4. ts \in [1 .. n -> Time]
  BY <1>2, Zenon DEF Readings
<1>5. ts[n] \in Time /\ ts[1] <= ts[n] /\ now <= ts[n]
  BY <1>2, <1>3 DEF Time
<1>6. ASSUME NEW i \in 1 .. n PROVE ts[i] \in now .. ts[n]
  BY <1>2, <1>3, <1>5 DEF Time
<1>7. ts \in [1 .. n -> now .. ts[n]]
  BY <1>4, <1>6
<1>8. \A i \in 2 .. n : ts[i] >= ts[i - 1]
  BY <1>2, <1>3 DEF Time
<1>9. ts[n] \in now .. MaxTime
  BY <1>3, <1>5 DEF Time
<1>10. \A i \in 1 .. n : xs[i] \in S
  BY ArgsLen DEF n
<1>11. ASSUME NEW i \in 1 .. n
       PROVE  /\ ts[i] \in Time /\ now <= ts[i] /\ ts[i] <= ts[n] /\ xs[i] \in S
              /\ \A j \in 1 .. i : ts[j] <= ts[i]
  <2>1. ts[i] \in Time /\ now <= ts[i] /\ ts[i] <= ts[n] /\ xs[i] \in S
    <3>1. ts[i] \in now .. ts[n] /\ ts[i] \in Time
      BY <1>4, <1>6
    <3> QED
      BY <1>3, <1>5, <1>10, <3>1 DEF Time
  <2>2. ASSUME NEW j \in 1 .. i
        PROVE  ts[j] <= ts[i]
    <3>1. \/ j = i
          \/ i = 2 /\ j = 1 /\ n = 2
      BY <1>2
    <3>2. n = 2 => ts[1] <= ts[2]
      BY <1>3
    <3> QED
      BY <2>1, <3>1, <3>2 DEF Time
  <2> QED
    BY <2>1, <2>2
<1> QED
  BY <1>2, <1>3, <1>5, <1>7, <1>8, <1>9, <1>11, Zenon DEF n

\* Cardinality is the same operator on both sides.
LEMMA EagerCardinality ==
  ASSUME NEW S
  PROVE  Eager!Cardinality(S) = Cardinality(S)
BY DEF Eager!Cardinality, Cardinality

\* The argument lists are the same on both sides.
LEMMA ArgsSame == \A S : Eager!Args(S) = Args(S)
  BY DEF Args, Eager!Args

\* A refused command shows nothing but the passing of time.
LEMMA RefusedRefines ==
  ASSUME IInv, NEW t \in Time, now <= t, NEW call, Return(store, call, ErrorReply, t)
  PROVE  Eager!Refuse(call)
<1> DEFINE L == Live(store, t)
<1>1. /\ t \in now .. MaxTime /\ now' \in t .. MaxTime
      /\ Eager!At(Live(store, now), t) = L
      /\ Live(store', now') = Eager!At(L, now')
  BY AtLive DEF IInv, Time, Return
<1>2. cmd' = call /\ reply' = ErrorReply
  BY DEF Return
<1> HIDE DEF L
<1> QED
  BY <1>1, <1>2 DEF Eager!Refuse, Eager!Do, Eager!Same, Eager!ErrorReply, ErrorReply

-------------------------------------------------------------------------------
(* Commands that read, seen eagerly *)

\* GET reads the entry that is live at the instant of its lookup.
LEMMA GetRefines ==
  ASSUME ~ClockSteps, IInv, NEW k \in Keys, cmd_get(k)
  PROVE  Eager!Get(k)
<1>1. PICK ts \in Readings(1) :
        LET s == Lookup(store, k, ts[1])
        IN  Return(s, <<"get", k>>,
                   CASE s[k].type = "string" -> BulkReply(s[k].str)
                     [] s[k].type = "none"   -> NilReply
                     [] OTHER                -> ErrorReply,
                   ts[1])
  BY DEF cmd_get
<1> DEFINE t == ts[1]
           L == Live(store, t)
<1>2. /\ t \in now .. MaxTime /\ now' \in t .. MaxTime
      /\ Eager!At(Live(store, now), t) = L
  BY <1>1, OneLookup DEF Return
<1>3. cmd' = <<"get", k>>
  BY <1>1 DEF Return
<1>4. reply' = CASE L[k].type = "string" -> BulkReply(L[k].str)
                 [] L[k].type = "none"   -> NilReply
                 [] OTHER                -> ErrorReply
  BY <1>1, OneLookup DEF Return
<1>5. Live(store', now') = Eager!At(L, now')
  BY <1>1, OneLookup DEF Return
<1> HIDE DEF t, L
<1> QED
  BY <1>2, <1>3, <1>4, <1>5
     DEF Eager!Get, Eager!Read, Eager!Do, Eager!Same,
         Eager!NilReply, NilReply, Eager!BulkReply, BulkReply, Eager!ErrorReply, ErrorReply

\* So does LLEN.
LEMMA LlenRefines ==
  ASSUME ~ClockSteps, IInv, NEW k \in Keys, cmd_llen(k)
  PROVE  Eager!Llen(k)
<1>1. PICK ts \in Readings(1) :
        LET s == Lookup(store, k, ts[1])
        IN  Return(s, <<"llen", k>>,
                   CASE s[k].type = "list" -> IntReply(Len(s[k].list))
                     [] s[k].type = "none" -> IntReply(0)
                     [] OTHER              -> ErrorReply,
                   ts[1])
  BY DEF cmd_llen
<1> DEFINE t == ts[1]
           L == Live(store, t)
<1>2. /\ t \in now .. MaxTime /\ now' \in t .. MaxTime
      /\ Eager!At(Live(store, now), t) = L
  BY <1>1, OneLookup DEF Return
<1>3. cmd' = <<"llen", k>>
  BY <1>1 DEF Return
<1>4. reply' = CASE L[k].type = "list" -> IntReply(Len(L[k].list))
                 [] L[k].type = "none" -> IntReply(0)
                 [] OTHER              -> ErrorReply
  BY <1>1, OneLookup DEF Return
<1>5. Live(store', now') = Eager!At(L, now')
  BY <1>1, OneLookup DEF Return
<1> HIDE DEF t, L
<1> QED
  BY <1>2, <1>3, <1>4, <1>5
     DEF Eager!Llen, Eager!Read, Eager!Do, Eager!Same,
         Eager!IntReply, IntReply, Eager!ErrorReply, ErrorReply

\* So does HGETALL.
LEMMA HgetallRefines ==
  ASSUME ~ClockSteps, IInv, NEW k \in Keys, cmd_hgetall(k)
  PROVE  Eager!Hgetall(k)
<1>1. PICK ts \in Readings(1) :
        LET s == Lookup(store, k, ts[1])
        IN  Return(s, <<"hgetall", k>>,
                   CASE s[k].type = "hash" -> PairsReply(s[k].hash)
                     [] s[k].type = "none" -> ArrayReply(<< >>)
                     [] OTHER              -> ErrorReply,
                   ts[1])
  BY DEF cmd_hgetall
<1> DEFINE t == ts[1]
           L == Live(store, t)
<1>2. /\ t \in now .. MaxTime /\ now' \in t .. MaxTime
      /\ Eager!At(Live(store, now), t) = L
  BY <1>1, OneLookup DEF Return
<1>3. cmd' = <<"hgetall", k>>
  BY <1>1 DEF Return
<1>4. reply' = CASE L[k].type = "hash" -> PairsReply(L[k].hash)
                 [] L[k].type = "none" -> ArrayReply(<< >>)
                 [] OTHER              -> ErrorReply
  BY <1>1, OneLookup DEF Return
<1>5. Live(store', now') = Eager!At(L, now')
  BY <1>1, OneLookup DEF Return
<1> HIDE DEF t, L
<1> QED
  BY <1>2, <1>3, <1>4, <1>5
     DEF Eager!Hgetall, Eager!Read, Eager!Do, Eager!Same,
         Eager!PairsReply, PairsReply, Eager!ArrayReply, ArrayReply, Eager!ErrorReply, ErrorReply

\* So does HLEN.
LEMMA HlenRefines ==
  ASSUME ~ClockSteps, IInv, NEW k \in Keys, cmd_hlen(k)
  PROVE  Eager!Hlen(k)
<1>1. PICK ts \in Readings(1) :
        LET s == Lookup(store, k, ts[1])
        IN  Return(s, <<"hlen", k>>,
                   CASE s[k].type = "hash" -> IntReply(Cardinality(HashFields(s[k])))
                     [] s[k].type = "none" -> IntReply(0)
                     [] OTHER              -> ErrorReply,
                   ts[1])
  BY DEF cmd_hlen
<1> DEFINE t == ts[1]
           L == Live(store, t)
<1>2. /\ t \in now .. MaxTime /\ now' \in t .. MaxTime
      /\ Eager!At(Live(store, now), t) = L
  BY <1>1, OneLookup DEF Return
<1>3. cmd' = <<"hlen", k>>
  BY <1>1 DEF Return
<1>4. reply' = CASE L[k].type = "hash" -> IntReply(Cardinality(HashFields(L[k])))
                 [] L[k].type = "none" -> IntReply(0)
                 [] OTHER              -> ErrorReply
  BY <1>1, OneLookup DEF Return
<1>5. Live(store', now') = Eager!At(L, now')
  BY <1>1, OneLookup DEF Return
<1> HIDE DEF t, L
<1> QED
  BY <1>2, <1>3, <1>4, <1>5, ZenonT(30)
     DEF Eager!Hlen, Eager!Read, Eager!Do, Eager!Same,
         Eager!IntReply, IntReply, Eager!ErrorReply, ErrorReply, Eager!HashFields, HashFields,
         Eager!Cardinality, Cardinality

\* So does TYPE.
LEMMA TypeRefines ==
  ASSUME ~ClockSteps, IInv, NEW k \in Keys, cmd_type(k)
  PROVE  Eager!Type(k)
<1>1. PICK ts \in Readings(1) :
        LET s == Lookup(store, k, ts[1])
        IN  Return(s, <<"type", k>>,
                   TypeReply(s[k].type),
                   ts[1])
  BY DEF cmd_type
<1> DEFINE t == ts[1]
           L == Live(store, t)
<1>2. /\ t \in now .. MaxTime /\ now' \in t .. MaxTime
      /\ Eager!At(Live(store, now), t) = L
  BY <1>1, OneLookup DEF Return
<1>3. cmd' = <<"type", k>>
  BY <1>1 DEF Return
<1>4. reply' = TypeReply(L[k].type)
  BY <1>1, OneLookup DEF Return
<1>5. Live(store', now') = Eager!At(L, now')
  BY <1>1, OneLookup DEF Return
<1> HIDE DEF t, L
<1> QED
  BY <1>2, <1>3, <1>4, <1>5
     DEF Eager!Type, Eager!Do, Eager!Same,
         Eager!TypeReply, TypeReply

\* So does HGET.
LEMMA HgetRefines ==
  ASSUME ~ClockSteps, IInv, NEW k \in Keys, NEW f \in Fields, cmd_hget(k, f)
  PROVE  Eager!Hget(k, f)
<1>1. PICK ts \in Readings(1) :
        LET s == Lookup(store, k, ts[1])
        IN  Return(s, <<"hget", k, f>>,
                   IF s[k].type \in {"none", "hash"}
                   THEN BulkOrNil(store_hash_get(s, k, f))
                   ELSE ErrorReply,
                   ts[1])
  BY Zenon DEF cmd_hget
<1> DEFINE t == ts[1]
           L == Live(store, t)
<1>2. /\ t \in now .. MaxTime /\ now' \in t .. MaxTime
      /\ Eager!At(Live(store, now), t) = L
  BY <1>1, OneLookup DEF Return
<1>3. cmd' = <<"hget", k, f>>
  BY <1>1, Zenon DEF Return
<1>4. reply' = CASE L[k].type = "hash" -> BulkOrNil(L[k].hash[f])
                 [] L[k].type = "none" -> NilReply
                 [] OTHER              -> ErrorReply
  BY <1>1, OneLookup DEF Return, store_hash_get, BulkOrNil
<1>5. Live(store', now') = Eager!At(L, now')
  BY <1>1, OneLookup DEF Return
<1> HIDE DEF t, L
<1> QED
  BY <1>2, <1>3, <1>4, <1>5
     DEF Eager!Hget, Eager!Read, Eager!Do, Eager!Same, Eager!BulkOrNil, BulkOrNil,
         Eager!NilReply, NilReply, Eager!BulkReply, BulkReply, Eager!ErrorReply, ErrorReply

\* HMGET looks its key up again for every field; a hash cannot expire in between.
LEMMA HmgetRefines ==
  ASSUME ~ClockSteps, IInv, NEW k \in Keys, NEW fs \in Args(Fields), cmd_hmget(k, fs)
  PROVE  Eager!Hmget(k, fs)
<1> DEFINE call == <<"hmget", k, fs>>
<1>1. PICK ts \in Readings(2 + Len(fs)) :
        LET s1 == Lookup(store, k, ts[1])
            s2 == IF s1[k].type = "none" THEN s1 ELSE Lookup(s1, k, ts[2])
            s3 == Lookup(s2, k, ts[3])
            s4 == IF Len(fs) = 1 THEN s3 ELSE Lookup(s3, k, ts[4])
            seen(i) == IF i = 1 THEN s3 ELSE s4
        IN  IF s1[k].type # "none" /\ s2[k].type # "hash"
            THEN Return(s2, call, ErrorReply, ts[2])
            ELSE Return(s4, call,
                        ArrayReply([i \in 1 .. Len(fs) |->
                                      BulkOrNil(store_hash_get(seen(i), k, fs[i]))]),
                        ts[2 + Len(fs)])
  BY Zenon DEF cmd_hmget
<1> DEFINE t == ts[1]
           L == Live(store, t)
           s1 == Lookup(store, k, t)
           s2 == IF s1[k].type = "none" THEN s1 ELSE Lookup(s1, k, ts[2])
           s3 == Lookup(s2, k, ts[3])
           s4 == IF Len(fs) = 1 THEN s3 ELSE Lookup(s3, k, ts[4])
           seen(i) == IF i = 1 THEN s3 ELSE s4
           n == 2 + Len(fs)
<1>2. Len(fs) \in 1 .. 2 /\ n \in {3, 4}
  <2>1. Len(fs) \in 1 .. 2
    BY ArgsLen
  <2> DEFINE m == Len(fs)
  <2>2. m \in 1 .. 2
    BY <2>1
  <2> HIDE DEF m
  <2>3. m \in 1 .. 2 /\ 2 + m \in {3, 4}
    BY <2>2
  <2> QED
    BY <2>3 DEF m
<1>3. /\ t \in Time /\ ts[2] \in Time /\ ts[3] \in Time /\ ts[n] \in Time
      /\ now <= t /\ t <= ts[2] /\ ts[2] <= ts[3] /\ ts[3] <= ts[n]
      /\ now \in Time /\ store \in Table
  <2>1. now \in Time /\ n \in Nat
    BY <1>2 DEF IInv
  <2> QED
    BY <1>2, <2>1, ReadingsOrdered DEF IInv, Time
<1>4. /\ s1 \in Table /\ s2 \in Table /\ s3 \in Table /\ s4 \in Table
      /\ s1[k] = L[k]
  BY <1>3, LookupTable, LiveKey, Zenon
<1>5. /\ Live(s2, ts[2]) = Live(store, ts[2])
      /\ Live(s4, ts[n]) = Live(store, ts[n])
  <2> HIDE DEF t, s1, s2, s3, s4, n
  <2>1. ASSUME NEW u \in Time, t <= u
        PROVE  Live(s1, u) = Live(store, u)
    BY <1>3, <2>1, LookupLive DEF s1
  <2>2. ASSUME NEW u \in Time, ts[2] <= u
        PROVE  Live(s2, u) = Live(store, u)
    BY <1>3, <1>4, <2>1, <2>2, LookupLive DEF s2, Time
  <2>3. ASSUME NEW u \in Time, ts[3] <= u
        PROVE  Live(s3, u) = Live(store, u)
    BY <1>3, <1>4, <2>2, <2>3, LookupLive DEF s3, Time
  <2>4. Live(s4, ts[n]) = Live(store, ts[n])
    <3>1. CASE Len(fs) = 1
      BY <1>3, <2>3, <3>1, Zenon DEF s4
    <3>2. CASE Len(fs) = 2
      BY <1>3, <1>4, <2>3, <3>2, LookupLive DEF s4, n, Time
    <3> QED
      BY <1>2, <3>1, <3>2
  <2> QED
    BY <1>3, <2>2, <2>4 DEF Time
<1>6. \/ L[k].type = "none" /\ s3[k].type = "none" /\ s4[k].type = "none"
      \/ L[k].type = "hash" /\ s2[k] = L[k] /\ s3[k] = L[k] /\ s4[k] = L[k]
      \/ L[k].type \in {"string", "list"} /\ s2[k].type # "hash"
  <2> DEFINE e == L[k]
  <2>1. e \in GoodEntry /\ e.type \in {"none", "string", "list", "hash"}
    BY <1>4, EntryCases, Zenon DEF Table, GoodEntry
  <2>2. CASE e.type \in {"none", "hash"}
    <3>1. e.expires_at = 0
      BY <2>1, <2>2, Zenon DEF GoodEntry
    <3>2. ASSUME NEW s \in Table, s[k] = e, NEW u
          PROVE  Lookup(s, k, u) = s
      BY <3>1, <3>2, Zenon DEF Lookup, entry_is_expired
    <3> HIDE DEF e
    <3>3. s2[k] = e /\ s3[k] = e /\ s4[k] = e
      BY <1>4, <3>2, Zenon DEF e
    <3> QED
      BY <2>2, <3>3, Zenon DEF e
  <2>3. CASE e.type \in {"string", "list"}
    BY <1>4, <2>3, Zenon DEF Lookup, Absent, Table
  <2> QED
    BY <2>1, <2>2, <2>3, Zenon
<1>7. /\ t \in now .. MaxTime
      /\ Eager!At(Live(store, now), t) = L
      /\ cmd' = call
  <2>1. cmd' = call
    BY <1>1, Zenon DEF Return
  <2> QED
    BY <1>3, <2>1, AtLive DEF Time
<1>8. /\ now' \in t .. MaxTime
      /\ Live(store', now') = Eager!At(L, now')
  <2>1. \/ store' = s2 /\ now' = ts[2]
        \/ store' = s4 /\ now' = ts[n]
    BY <1>1, Zenon DEF Return
  <2>2. t <= ts[n] /\ ts[2] <= ts[n]
    BY <1>3 DEF Time
  <2> HIDE DEF t, s1, s2, s3, s4, n
  <2> QED
    BY <1>3, <1>5, <2>1, <2>2, AtLive DEF Time
<1>9. reply' = CASE L[k].type = "hash" ->
                      ArrayReply([i \in 1 .. Len(fs) |-> BulkOrNil(L[k].hash[fs[i]])])
                 [] L[k].type = "none" -> ArrayReply([i \in 1 .. Len(fs) |-> NilReply])
                 [] OTHER -> ErrorReply
  <2> DEFINE items == [i \in 1 .. Len(fs) |-> BulkOrNil(store_hash_get(seen(i), k, fs[i]))]
  <2>1. reply' = IF s1[k].type # "none" /\ s2[k].type # "hash" THEN ErrorReply
                 ELSE ArrayReply(items)
    BY <1>1, Zenon DEF Return
  <2>2. CASE L[k].type = "hash"
    <3>1. s2[k] = L[k] /\ s3[k] = L[k] /\ s4[k] = L[k]
      BY <1>6, <2>2, Zenon
    <3> HIDE DEF s3, s4, L, s2, s1
    <3>2. items = [i \in 1 .. Len(fs) |-> BulkOrNil(L[k].hash[fs[i]])]
      BY <2>2, <3>1, Zenon DEF store_hash_get
    <3> HIDE DEF items
    <3> QED
      BY <1>4, <2>1, <2>2, <3>1, <3>2
  <2>3. CASE L[k].type = "none"
    <3>1. s3[k].type = "none" /\ s4[k].type = "none" /\ s1[k].type = "none"
      BY <1>4, <1>6, <2>3, Zenon
    <3> HIDE DEF s3, s4, L, s2, s1
    <3>2. items = [i \in 1 .. Len(fs) |-> NilReply]
      BY <3>1, Zenon DEF store_hash_get, BulkOrNil
    <3> HIDE DEF items
    <3> QED
      BY <2>1, <2>3, <3>1, <3>2
  <2>4. CASE L[k].type \in {"string", "list"}
    <3>1. s1[k].type # "none" /\ s2[k].type # "hash"
      BY <1>4, <1>6, <2>4, Zenon
    <3> HIDE DEF L, s2, s1, items
    <3> QED
      BY <2>1, <2>4, <3>1
  <2> QED
    BY <1>6, <2>2, <2>3, <2>4, Zenon
<1> HIDE DEF t, L
<1> QED
  BY <1>7, <1>8, <1>9, Zenon
     DEF Eager!Hmget, Eager!Read, Eager!Do, Eager!Same, Eager!BulkOrNil, BulkOrNil,
         Eager!NilReply, NilReply, Eager!BulkReply, BulkReply, Eager!ErrorReply, ErrorReply,
         Eager!ArrayReply, ArrayReply

\* KEYS takes one reading of the clock for all keys.
LEMMA KeysRefines ==
  ASSUME ~ClockSteps, IInv, NEW pattern \in SUBSET Keys, cmd_keys(pattern)
  PROVE  Eager!KeysMatching(pattern)
<1>1. PICK ts \in Readings(1) :
        Return(store, <<"keys", pattern>>,
               KeysReply({k \in pattern : /\ store[k].type # "none"
                                          /\ ~entry_is_expired(store[k], ts[1])}),
               ts[1])
  BY Zenon DEF cmd_keys
<1> DEFINE t == ts[1]
           L == Live(store, t)
<1>2. t \in Time /\ now <= t /\ now \in Time /\ store \in Table /\ now' = t
  <2>1. now' = t
    BY <1>1, Zenon DEF Return
  <2> QED
    BY <2>1, ReadingsOrdered DEF IInv
<1>3. /\ t \in now .. MaxTime /\ now' \in t .. MaxTime
      /\ Eager!At(Live(store, now), t) = L
  BY <1>2, AtLive DEF Time
<1>4. cmd' = <<"keys", pattern>>
  BY <1>1, Zenon DEF Return
<1>5. ASSUME NEW k \in pattern
      PROVE  L[k] # Absent <=> store[k].type # "none" /\ ~entry_is_expired(store[k], t)
  BY <1>2, AbsentType, Zenon DEF Live
<1>6. reply' = KeysReply({k \in pattern : L[k] # Absent})
  BY <1>1, <1>5, Zenon DEF Return
<1>7. Live(store', now') = Eager!At(L, now')
  BY <1>1, <1>2, AtLive DEF Return, Time
<1> HIDE DEF t, L
<1> QED
  BY <1>3, <1>4, <1>6, <1>7, Zenon
     DEF Eager!KeysMatching, Eager!Do, Eager!Same, Eager!KeysReply, KeysReply, Eager!Absent, Absent

\* TTL and PTTL find the entry at one instant and measure from a later one.
LEMMA TtlRefines ==
  ASSUME ~ClockSteps, IInv, NEW k \in Keys, NEW in_ms \in BOOLEAN, ttl_common(k, in_ms)
  PROVE  Eager!Ttl(k, in_ms)
<1>1. PICK ts \in Readings(2) :
        LET s         == Lookup(store, k, ts[1])
            expiry    == store_get_expiry(s[k])
            remaining == IF expiry < ts[2] THEN 0 ELSE expiry - ts[2]
        IN  Return(s, <<"ttl", k, in_ms>>,
                   CASE expiry < 0 -> IntReply(expiry)
                     [] expiry >= 0 /\ in_ms -> IntReply(remaining)
                     [] OTHER -> IntReply((remaining + Second \div 2) \div Second),
                   ts[2])
  BY DEF ttl_common
<1> DEFINE t == ts[1]
           u == ts[2]
           L == Live(store, t)
           e == L[k]
           left == IF e.expires_at < u THEN 0 ELSE e.expires_at - u
<1>2. /\ t \in Time /\ u \in Time /\ now <= t /\ t <= u /\ now \in Time /\ store \in Table
      /\ now' = u
  BY <1>1, ReadingsOrdered DEF IInv, Return
<1>3. /\ t \in now .. MaxTime /\ now' \in t .. MaxTime
      /\ Eager!At(Live(store, now), t) = L
      /\ Eager!At(Live(store, now), now') = Live(store, u)
  BY <1>2, AtLive DEF Time
<1>4. cmd' = <<"ttl", k, in_ms>>
  BY <1>1 DEF Return
<1>5. e \in GoodEntry /\ e = Lookup(store, k, t)[k]
  BY <1>2, LiveTable, LiveKey, Zenon DEF Table
<1>6. e.expires_at \in Int
  BY <1>5, EntryCases, KeyTypesAssumption
     DEF GoodEntry, StringEntry, ListEntry, HashEntry, Absent, Int64, INT64_MIN
<1>7. e.expires_at >= 0
  <2>1. ~entry_is_expired(e, t)
    BY Zenon DEF Live, entry_is_expired, Absent
  <2> QED
    BY <1>2, <1>6, <2>1 DEF Time, entry_is_expired
<1>8. reply' = CASE e.type = "none" -> IntReply(-2)
                 [] e.type # "none" /\ e.expires_at = 0 -> IntReply(-1)
                 [] OTHER -> IntReply(IF in_ms THEN left
                                      ELSE (left + Second \div 2) \div Second)
  <2> DEFINE x == store_get_expiry(e)
             r == IF x < u THEN 0 ELSE x - u
  <2>1. reply' = CASE x < 0 -> IntReply(x)
                   [] x >= 0 /\ in_ms -> IntReply(r)
                   [] OTHER -> IntReply((r + Second \div 2) \div Second)
    BY <1>1, <1>5 DEF Return
  <2>2. CASE e.type = "none"
    <3>1. x = -2
      BY <2>2 DEF store_get_expiry
    <3> HIDE DEF x, e
    <3> QED
      BY <2>1, <2>2, <3>1
  <2>3. CASE e.type # "none" /\ e.expires_at = 0
    <3>1. x = -1
      BY <2>3 DEF store_get_expiry
    <3> HIDE DEF x, e
    <3> QED
      BY <2>1, <2>3, <3>1
  <2>4. CASE e.type # "none" /\ e.expires_at # 0
    <3>1. x = e.expires_at
      BY <2>4 DEF store_get_expiry
    <3> HIDE DEF x, e
    <3> QED
      BY <1>6, <1>7, <2>1, <2>4, <3>1
  <2> QED
    BY <2>2, <2>3, <2>4, Zenon
<1>9. Live(store', now') = Live(store, u)
  BY <1>1, <1>2, LookupLive DEF Return
<1> HIDE DEF t, L
<1> QED
  BY <1>2, <1>3, <1>4, <1>8, <1>9
     DEF Eager!Ttl, Eager!IntReply, IntReply

\* EXISTS looks each key up at an instant of its own.
LEMMA ExistsRefines ==
  ASSUME ~ClockSteps, IInv, NEW ks \in Args(Keys), cmd_exists(ks)
  PROVE  Eager!Exists(ks)
<1> DEFINE call == <<"exists", ks>>
           n == Len(ks)
<1>1. PICK ts \in Readings(Len(ks)) :
        LET dropped(k, m) == \E i \in 1 .. m :
                               ks[i] = k /\ entry_is_expired(store[k], ts[i])
            found == {i \in 1 .. Len(ks) : /\ store[ks[i]].type # "none"
                                           /\ ~dropped(ks[i], i)}
        IN  Return([k \in Keys |-> IF dropped(k, Len(ks)) THEN Absent ELSE store[k]],
                   call, IntReply(Cardinality(found)), ts[Len(ks)])
  BY Zenon DEF cmd_exists
<1> DEFINE dropped(k, m) == \E i \in 1 .. m :
                              ks[i] = k /\ entry_is_expired(store[k], ts[i])
           found == {i \in 1 .. n : store[ks[i]].type # "none" /\ ~dropped(ks[i], i)}
           live == {i \in 1 .. n : Eager!At(Live(store, now), ts[i])[ks[i]] # Absent}
<1>2. /\ n \in 1 .. 2 /\ now \in Time /\ store \in Table
      /\ ts[n] \in Time /\ now <= ts[n] /\ ts \in [1 .. n -> now .. ts[n]]
      /\ \A i \in 2 .. n : ts[i] >= ts[i - 1]
      /\ ts[n] \in now .. MaxTime
  BY ArgReadings, Zenon
<1>3. \A i \in 1 .. n : /\ ts[i] \in Time /\ now <= ts[i] /\ ts[i] <= ts[n] /\ ks[i] \in Keys
                         /\ \A j \in 1 .. i : ts[j] <= ts[i]
  BY ArgReadings
<1> HIDE DEF n
<1>4. ASSUME NEW k \in Keys, NEW a \in Time, NEW b \in Time, a <= b, entry_is_expired(store[k], a)
      PROVE  entry_is_expired(store[k], b)
  BY <1>2, <1>4, ExpiredLater
<1>5. found = live
  <2>1. ASSUME NEW i \in 1 .. n
        PROVE  (store[ks[i]].type # "none" /\ ~dropped(ks[i], i))
                 <=> Eager!At(Live(store, now), ts[i])[ks[i]] # Absent
    <3>1. Eager!At(Live(store, now), ts[i])[ks[i]] = Live(store, ts[i])[ks[i]]
      BY <1>2, <1>3, AtLive, Zenon
    <3>2. dropped(ks[i], i) <=> entry_is_expired(store[ks[i]], ts[i])
      <4>1. i \in 1 .. i /\ \A j \in 1 .. i : j \in 1 .. n
        BY <1>2
      <4> QED
        BY <1>3, <1>4, <4>1, Zenon
    <3>3. Live(store, ts[i])[ks[i]] # Absent
            <=> store[ks[i]].type # "none" /\ ~entry_is_expired(store[ks[i]], ts[i])
      BY <1>2, <1>3, AbsentType, Zenon DEF Live
    <3> QED
      BY <3>1, <3>2, <3>3, Zenon
  <2> QED
    BY <2>1, Zenon
<1>6. /\ cmd' = call /\ now' = ts[n] /\ reply' = IntReply(Cardinality(found))
      /\ store' = [k \in Keys |-> IF dropped(k, n) THEN Absent ELSE store[k]]
  BY <1>1, Zenon DEF Return, n
<1>7. Live(store', now') = Eager!At(Live(store, now), now')
  <2>1. ASSUME NEW k \in Keys
        PROVE  (IF entry_is_expired(store'[k], ts[n]) THEN Absent ELSE store'[k])
                 = IF entry_is_expired(store[k], ts[n]) THEN Absent ELSE store[k]
    <3>1. CASE dropped(k, n)
      <4>1. entry_is_expired(store[k], ts[n])
        BY <1>2, <1>3, <1>4, <3>1, Zenon
      <4>2. store'[k] = Absent
        BY <1>6, <3>1, Zenon
      <4> QED
        BY <4>1, <4>2, Zenon
    <3>2. CASE ~dropped(k, n)
      <4>1. store'[k] = store[k]
        BY <1>6, <3>2, Zenon
      <4> QED
        BY <4>1, Zenon
    <3> QED
      BY <3>1, <3>2, Zenon
  <2>2. Live(store', ts[n]) = Live(store, ts[n])
    BY <2>1, Zenon DEF Live
  <2> QED
    BY <1>2, <1>6, <2>2, AtLive, Zenon
<1>8. ts \in Eager!Instants(n)
  BY <1>2, <1>6, Zenon DEF Eager!Instants
<1>9. reply' = Eager!IntReply(Eager!Cardinality(live))
  BY <1>5, <1>6, EagerCardinality, Zenon DEF IntReply, Eager!IntReply
<1> HIDE DEF dropped, found
<1> QED
  BY <1>2, <1>6, <1>7, <1>8, <1>9, Zenon DEF n, Eager!Exists, Eager!Absent, Absent

-------------------------------------------------------------------------------
(* Strings, seen eagerly *)

\* No expiry that SET accepts leaves the range of int64_t.
NoWrap ==
  \A opts \in SetOptions : \A i \in 1 .. Len(opts) :
    ~BadOption(opts[i]) =>
      MaxTime + (IF opts[i].unit = "EX" THEN opts[i].n * Second ELSE opts[i].n) <= INT64_MAX

\* SET checks its options, then replaces the entry.
LEMMA SetRefines ==
  ASSUME ~ClockSteps, NoWrap, IInv, NEW k \in Keys, NEW v \in SetValues,
         NEW opts \in SetOptions, cmd_set(k, v, opts)
  PROVE  Eager!Set(k, v, opts)
<1> DEFINE R == [unit : {"EX", "PX", "unknown"}, n : Int64 \cup {Nil}]
           call == <<"set", k, v, opts>>
           bad == \E i \in 1 .. Len(opts) : BadOption(opts[i])
<1>1. PICK ts \in Readings(2) :
        IF bad
        THEN Return(store, call, ErrorReply, ts[1])
        ELSE LET at == IF opts = << >> THEN 0 ELSE Expiry(opts[Len(opts)], ts[1])
             IN  Return(store_set(store, k, v, at), call, OkReply, ts[2])
  BY Zenon DEF cmd_set
<1>2. /\ ts[1] \in Time /\ ts[2] \in Time /\ now <= ts[1] /\ ts[1] <= ts[2]
      /\ now \in Time /\ store \in Table
  BY ReadingsOrdered DEF IInv
<1>3. opts \in Seq(R)
  BY KeyspaceAssumption, Zenon
<1>4. ASSUME NEW i \in 1 .. Len(opts)
      PROVE  opts[i] \in R
  <2> HIDE DEF R
  <2> QED
    BY <1>3
<1>5. ASSUME NEW o \in R
      PROVE  BadOption(o) <=> ~(Eager!Positive(o) /\ ~Eager!Refusable(o))
  <2>1. o.unit \in {"EX", "PX", "unknown"} /\ (o.n = Nil \/ o.n \in Int)
    BY KeyTypesAssumption DEF Int64, INT64_MIN
  <2>2. \A n \in Int : n > 0 <=> ~(n <= 0)
    OBVIOUS
  <2> QED
    BY <2>1, <2>2, Zenon DEF BadOption, Eager!Positive, Eager!Refusable
<1>6. bad <=> ~\A i \in 1 .. Len(opts) : Eager!Positive(opts[i]) /\ ~Eager!Refusable(opts[i])
  <2> HIDE DEF R
  <2> QED
    BY <1>4, <1>5, Zenon
<1>7. CASE bad
  <2>1. Eager!Refuse(call)
    BY <1>1, <1>2, <1>7, RefusedRefines, Zenon
  <2> QED
    BY <1>6, <1>7, <2>1, Zenon DEF Eager!Set
<1>8. CASE ~bad
  <2> DEFINE t == ts[1]
             L == Live(store, t)
             o == opts[Len(opts)]
             at == IF opts = << >> THEN 0 ELSE t + Eager!Lifetime(o)
             x == NewString(v, at)
  <2>1. opts # << >> => Expiry(o, t) = t + Eager!Lifetime(o)
    <3> SUFFICES ASSUME opts # << >> PROVE Expiry(o, t) = t + Eager!Lifetime(o)
      OBVIOUS
    <3>1. Len(opts) \in 1 .. Len(opts)
      BY <1>3
    <3>2. ~BadOption(o) /\ o \in R
      BY <1>4, <1>8, <3>1
    <3>3. MaxTime + Eager!Lifetime(o) <= INT64_MAX
      BY <3>1, <3>2, Zenon DEF NoWrap, Eager!Lifetime
    <3>4. o.n \in Int /\ Eager!Lifetime(o) \in Int
      BY <3>2, KeyTypesAssumption, KeyspaceAssumption
         DEF BadOption, Int64, INT64_MIN, Eager!Lifetime
    <3>5. Expiry(o, t) = Wrap(t + Eager!Lifetime(o))
      BY Zenon DEF Expiry, Eager!Lifetime
    <3> QED
      BY <1>2, <3>3, <3>4, <3>5, KeyTypesAssumption, KeyspaceAssumption, SMTT(20) DEF Wrap, Time
  <2>2. Return(store_set(store, k, v, at), call, OkReply, ts[2])
    BY <1>1, <1>8, <2>1
  <2>3. /\ t \in now .. MaxTime /\ now' \in t .. MaxTime
        /\ Eager!At(Live(store, now), t) = L
    BY <1>2, <2>2, AtLive DEF Return, Time
  <2>4. cmd' = call /\ reply' = OkReply
    BY <2>2 DEF Return
  <2>5. Live(store', now') = Eager!At([L EXCEPT ![k] = x], now')
    <3>1. store' = [store EXCEPT ![k] = x] /\ now' = ts[2]
      BY <2>2 DEF Return, store_set
    <3> HIDE DEF x
    <3>2. Live([store EXCEPT ![k] = x], ts[2]) = Eager!At([L EXCEPT ![k] = x], ts[2])
      BY <1>2, ReplaceLive
    <3> QED
      BY <3>1, <3>2
  <2> HIDE DEF t, L, bad
  <2> QED
    BY <1>6, <1>8, <2>3, <2>4, <2>5, Zenon
       DEF Eager!Set, Eager!Do, Eager!OkReply, OkReply, Eager!NewString, NewString
<1> QED
  BY <1>7, <1>8

\* INCR looks its key up once; a later reading of the clock sees what it stored.
LEMMA IncrRefines ==
  ASSUME ~ClockSteps, IInv, NEW k \in Keys, NEW delta \in Int, incr_common(k, delta)
  PROVE  Eager!Incr(k, delta)
<1> DEFINE call == <<"incr", k, delta>>
<1>1. PICK ts \in Readings(2) :
        LET s   == Lookup(store, k, ts[1])
            e   == s[k]
            val == IF e.type = "none" THEN 0 ELSE e.str
        IN  CASE \/ e.type \notin {"none", "string"}
                 \/ e.type = "string" /\ e.str \notin Int64
                 \/ Overflows(val, delta) ->
                   Return(s, call, ErrorReply, ts[1])
              [] OTHER ->
                   Return(StoreSum(s, k, val + delta), call, IntReply(val + delta), ts[2])
  BY DEF incr_common
<1> DEFINE t == ts[1]
           u == ts[2]
           s == Lookup(store, k, t)
           L == Live(store, t)
           e == L[k]
           val == IF e.type = "none" THEN 0 ELSE e.str
           can == /\ e.type \in {"none", "string"}
                  /\ val \in Int64
                  /\ val + delta \in Int64
           x == NewString(val + delta, e.expires_at)
<1>2. /\ t \in Time /\ u \in Time /\ now <= t /\ t <= u /\ now \in Time
      /\ store \in Table /\ s \in Table /\ e = s[k] /\ e \in GoodEntry
  BY ReadingsOrdered, LookupTable, LiveKey, LiveTable DEF IInv, Table
<1>3. can <=> ~(\/ e.type \notin {"none", "string"}
                \/ e.type = "string" /\ e.str \notin Int64
                \/ Overflows(val, delta))
  <2>1. 0 \in Int64 /\ Int64 \subseteq Int
    BY KeyTypesAssumption DEF Int64, INT64_MIN
  <2>2. val \in Int64 => (val + delta \in Int64 <=> ~Overflows(val, delta))
    <3> HIDE DEF val
    <3> QED
      BY KeyTypesAssumption DEF Int64, INT64_MIN, Overflows
  <2> HIDE DEF e
  <2> QED
    BY <2>1, <2>2, Zenon
<1>4. IF can
      THEN Return(StoreSum(s, k, val + delta), call, IntReply(val + delta), u)
      ELSE Return(s, call, ErrorReply, t)
  <2> HIDE DEF can
  <2>1. CASE can
    BY <1>1, <1>2, <1>3, <2>1, Zenon
  <2>2. CASE ~can
    BY <1>1, <1>2, <1>3, <2>2
  <2> QED
    BY <2>1, <2>2, Zenon
<1>5. /\ t \in now .. MaxTime /\ now' \in t .. MaxTime
      /\ Eager!At(Live(store, now), t) = L
  <2>1. now' = t \/ now' = u
    BY <1>4, Zenon DEF Return
  <2> HIDE DEF t, u
  <2> QED
    BY <1>2, <2>1, AtLive DEF Time
<1>6. cmd' = call /\ reply' = IF can THEN IntReply(val + delta) ELSE ErrorReply
  BY <1>4, Zenon DEF Return
<1>7. Live(store', now') = Eager!At(IF can THEN [L EXCEPT ![k] = x] ELSE L, now')
  <2>1. CASE can
    <3>1. StoreSum(s, k, val + delta) = [s EXCEPT ![k] = x]
      <4>1. CASE e.type = "string"
        <5>1. s[k] = [type |-> "string", str |-> e.str, expires_at |-> e.expires_at]
          BY <1>2, <4>1, EntryCases, Zenon DEF GoodEntry, StringEntry
        <5>2. [s[k] EXCEPT !.str = val + delta] = x
          BY <5>1 DEF NewString
        <5>3. StoreSum(s, k, val + delta) = [s EXCEPT ![k] = [s[k] EXCEPT !.str = val + delta]]
          BY <1>2, <4>1 DEF StoreSum
        <5> QED
          BY <5>2, <5>3, Zenon
      <4>2. CASE e.type = "none"
        <5>1. e = Absent
          BY <1>2, <4>2, EntryCases, Zenon DEF GoodEntry
        <5> QED
          BY <1>2, <5>1 DEF StoreSum, store_set, Absent
      <4> QED
        BY <2>1, <4>1, <4>2, Zenon
    <3>2. store' = [s EXCEPT ![k] = x] /\ now' = u
      BY <1>4, <2>1, <3>1, Zenon DEF Return
    <3> HIDE DEF x, t, u, val, can
    <3>3. Live(s, t) = L
      BY <1>2, LookupLive DEF Time
    <3> HIDE DEF s, L
    <3>4. Live([s EXCEPT ![k] = x], u) = Eager!At([Live(s, t) EXCEPT ![k] = x], u)
      BY <1>2, ReplaceLive
    <3> QED
      BY <2>1, <3>2, <3>3, <3>4, Zenon
  <2>2. CASE ~can
    <3>1. store' = s /\ now' = t
      BY <1>4, <2>2, Zenon DEF Return
    <3> HIDE DEF x, t, val, can
    <3> QED
      BY <1>2, <2>2, <3>1, LookupLive, AtLive DEF Time
  <2> QED
    BY <2>1, <2>2, Zenon
<1> HIDE DEF t, L
<1> QED
  BY <1>5, <1>6, <1>7, Zenon
     DEF Eager!Incr, Eager!Do, Eager!IntReply, IntReply, Eager!ErrorReply, ErrorReply,
         Eager!NewString, NewString, Eager!Int64, Int64, Eager!INT64_MIN, INT64_MIN

\* DECRBY refuses the one number it cannot negate.
LEMMA DecrRefines ==
  ASSUME ~ClockSteps, IInv, NEW k \in Keys, NEW delta \in Deltas, cmd_decrby(k, delta)
  PROVE  Eager!Decr(k, delta)
<1>1. CASE delta = INT64_MIN
  <2>1. Return(store, <<"incr", k, -delta>>, ErrorReply, now)
    BY <1>1, Zenon DEF cmd_decrby
  <2>2. Eager!Refuse(<<"incr", k, -delta>>)
    BY <2>1, RefusedRefines DEF IInv, Time
  <2> QED
    BY <1>1, <2>2 DEF Eager!Decr, Eager!INT64_MIN, INT64_MIN
<1>2. CASE delta # INT64_MIN
  <2>1. -delta \in Int
    BY KeyspaceAssumption, KeyTypesAssumption DEF Int64, INT64_MIN
  <2>2. incr_common(k, -delta)
    BY <1>2, Zenon DEF cmd_decrby
  <2>3. Eager!Incr(k, -delta)
    BY <2>1, <2>2, IncrRefines
  <2> QED
    BY <1>2, <2>3 DEF Eager!Decr, Eager!INT64_MIN, INT64_MIN
<1> QED
  BY <1>1, <1>2

===============================================================================

------------------------------- MODULE KeyTable -------------------------------
(***************************************************************************)
(* The hash table of store.c: an array of chains that doubles when it is   *)
(* full, in which lookups unlink what has expired.  The commands here are  *)
(* those of Keyspace that use every operation of the table between them,   *)
(* so that the table can be compared with the function Keyspace uses.      *)
(***************************************************************************)
EXTENDS KeyTypes, SequencesExt

CONSTANTS Hash,            \* hash64 of each key
          InitialBuckets,  \* STORE_INITIAL_BUCKETS (16 in the code)
          SetValues, SetOptions, Second, MaxTime, MaxLen, ClockSteps  \* of Keyspace

ASSUME KeyTableAssumption ==
  /\ Hash \in [Keys -> Nat]
  /\ InitialBuckets \in Nat \ {0}

VARIABLES table,   \* [buckets, count]: the chains, and the number of entries
          now, cmd, reply   \* as in Keyspace

tableVars == <<table, now, cmd, reply>>

-------------------------------------------------------------------------------
(* store.c.  A node of a chain is [key, entry]. *)

store_create == [buckets |-> [b \in 1 .. InitialBuckets |-> << >>], count |-> 0]

\* hash & (size - 1)
Slot(buckets, k) == (Hash[k] % Len(buckets)) + 1

PutInFront(buckets, n) == [buckets EXCEPT ![Slot(buckets, n.key)] = <<n>> \o @]

\* Mutant: only the first node of each chain moves.
GrowMovesHeads(t) ==
  LET heads == SelectSeq(t.buckets, LAMBDA chain : chain # << >>)
      empty == [b \in 1 .. 2 * Len(t.buckets) |-> << >>]
  IN  [t EXCEPT !.buckets = FoldLeft(PutInFront, empty, [i \in 1 .. Len(heads) |-> heads[i][1]])]

\* Bucket by bucket, every node is put in front of its new chain.
store_grow(t) ==
  LET empty == [b \in 1 .. 2 * Len(t.buckets) |-> << >>]
  IN  [t EXCEPT !.buckets = FoldLeft(PutInFront, empty, FlattenSeq(t.buckets))]

Chain(t, k) == t.buckets[Slot(t.buckets, k)]

\* The position of the first node with the key in its chain, 0 if there is none.
Position(t, k) == SelectInSeq(Chain(t, k), LAMBDA n : n.key = k)

EntryAt(t, k) == IF Position(t, k) = 0 THEN Absent ELSE Chain(t, k)[Position(t, k)].entry

Unlink(t, k) ==
  IF Position(t, k) = 0 THEN t
  ELSE [buckets |-> [t.buckets EXCEPT ![Slot(t.buckets, k)] = RemoveAt(@, Position(t, k))],
        count   |-> t.count - 1]

\* The table after lookup(); the entry found is EntryAt of it.
lookup(t, k, at) == IF entry_is_expired(EntryAt(t, k), at) THEN Unlink(t, k) ELSE t

\* Mutant: the slot is that of the table before it grew.
SlotBeforeGrowth(t, k, e) ==
  LET g == IF t.count >= Len(t.buckets) THEN store_grow(t) ELSE t
  IN  [buckets |-> [g.buckets EXCEPT ![Slot(t.buckets, k)] =
                      <<[key |-> k, entry |-> e]>> \o @],
       count   |-> g.count + 1]

\* The table grows first, if it is full.
create_entry(t, k, e) ==
  LET g == IF t.count >= Len(t.buckets) THEN store_grow(t) ELSE t
  IN  [buckets |-> PutInFront(g.buckets, [key |-> k, entry |-> e]), count |-> g.count + 1]

\* An entry found is changed in place.
Put(t, k, e) ==
  IF Position(t, k) = 0 THEN create_entry(t, k, e)
  ELSE [t EXCEPT !.buckets[Slot(t.buckets, k)][Position(t, k)].entry = e]

store_set(t, k, v, expires_at, at) == Put(lookup(t, k, at), k, NewString(v, expires_at))

\* [t, live]: an expired entry is removed as well, but not counted.
store_del(t, k, at) ==
  [t    |-> Unlink(t, k),
   live |-> Position(t, k) # 0 /\ ~entry_is_expired(EntryAt(t, k), at)]

\* The keys of the entries visited, in the order of the array.
store_scan(t, at) ==
  LET live == SelectSeq(FlattenSeq(t.buckets), LAMBDA n : ~entry_is_expired(n.entry, at))
  IN  [i \in 1 .. Len(live) |-> live[i].key]

store_list_push(t0, k, v, at_head, at) ==
  LET t == lookup(t0, k, at)
      e == IF Position(t, k) = 0 THEN NewList ELSE EntryAt(t, k)
      l == IF at_head THEN <<v>> \o e.list ELSE Append(e.list, v)
  IN  IF e.type = "list" THEN Put(t, k, [e EXCEPT !.list = l]) ELSE t

store_list_pop(t, k, at_head, at) ==
  LET l    == EntryAt(t, k).list
      rest == IF at_head THEN Tail(l) ELSE Front(l)
  IN  IF rest = << >> THEN store_del(t, k, at).t
                      ELSE Put(t, k, [EntryAt(t, k) EXCEPT !.list = rest])

-------------------------------------------------------------------------------
(* Handlers, each with the clock readings of its lookups. *)

Readings(n) ==
  {ts \in [1 .. n -> 1 .. MaxTime] :
     \/ ClockSteps
     \/ /\ ts[1] >= now
        /\ \A i \in 2 .. n : ts[i] >= ts[i - 1]}

Return(t, call, r, at) ==
  /\ table' = t
  /\ cmd' = call
  /\ reply' = r
  /\ now' = at

\* The options are valid ones: what cmd_set makes of others is in Keyspace.
cmd_set(k, v, opts) ==
  \E ts \in Readings(2) :
    LET o  == opts[Len(opts)]
        at == IF opts = << >> THEN 0
              ELSE Wrap(ts[1] + (IF o.unit = "EX" THEN o.n * Second ELSE o.n))
    IN  Return(store_set(table, k, v, at, ts[2]), <<"set", k, v, opts>>, OkReply, ts[2])

cmd_get(k) ==
  \E ts \in Readings(1) :
    LET t == lookup(table, k, ts[1])
        e == EntryAt(t, k)
    IN  Return(t, <<"get", k>>,
               CASE e.type = "string" -> BulkReply(e.str)
                 [] e.type = "none"   -> NilReply
                 [] OTHER             -> ErrorReply,
               ts[1])

\* LPUSH or RPUSH of one value.
push_common(k, v, at_head) ==
  \E ts \in Readings(3) :
    LET t1 == lookup(table, k, ts[1])
        t2 == IF Position(t1, k) = 0 THEN t1 ELSE lookup(t1, k, ts[2])
        t3 == store_list_push(t2, k, v, at_head, ts[3])
    IN  IF Position(t1, k) # 0 /\ EntryAt(t2, k).type # "list"
        THEN Return(t2, <<"push", k, <<v>>, at_head>>, ErrorReply, ts[2])
        ELSE /\ Len(EntryAt(t3, k).list) <= MaxLen
             /\ Return(t3, <<"push", k, <<v>>, at_head>>,
                       IntReply(Len(EntryAt(t3, k).list)), ts[3])

pop_common(k, at_head) ==
  \E ts \in Readings(1) :
    LET t == lookup(table, k, ts[1])
        e == EntryAt(t, k)
    IN  CASE e.type = "none"   -> Return(t, <<"pop", k, at_head>>, NilReply, ts[1])
          [] e.type = "string" -> Return(t, <<"pop", k, at_head>>, ErrorReply, ts[1])
          [] OTHER -> Return(store_list_pop(t, k, at_head, ts[1]), <<"pop", k, at_head>>,
                             BulkReply(e.list[IF at_head THEN 1 ELSE Len(e.list)]), ts[1])

cmd_del(k) ==
  \E ts \in Readings(1) :
    LET d == store_del(table, k, ts[1])
    IN  Return(d.t, <<"del", <<k>>>>, IntReply(IF d.live THEN 1 ELSE 0), ts[1])

cmd_exists(k) ==
  \E ts \in Readings(1) :
    LET t == lookup(table, k, ts[1])
    IN  Return(t, <<"exists", <<k>>>>, IntReply(IF Position(t, k) = 0 THEN 0 ELSE 1), ts[1])

\* KEYS *
cmd_keys ==
  \E ts \in Readings(1) :
    Return(table, <<"keys", Keys>>, KeysReply(ToSet(store_scan(table, ts[1]))), ts[1])

TableInit ==
  /\ table = store_create
  /\ now = 1
  /\ cmd = <<"none">>
  /\ reply = OkReply

TableNext ==
  \/ \E k \in Keys :
       \/ \E v \in SetValues, opts \in SetOptions : cmd_set(k, v, opts)
       \/ \E v \in Elems, at_head \in BOOLEAN : push_common(k, v, at_head)
       \/ \E at_head \in BOOLEAN : pop_common(k, at_head)
       \/ cmd_get(k) \/ cmd_del(k) \/ cmd_exists(k)
  \/ cmd_keys

-------------------------------------------------------------------------------
(* Properties *)

\* "a key never appears twice in a bucket chain" (lookup): every key has at most
\* one entry, in the chain that its hash selects in the present array, and count
\* is the number of entries, never more than there are chains, through any growth
\* and expiry.
TableSound ==
  LET nodes == FlattenSeq(table.buckets)
  IN  /\ Cardinality({nodes[i].key : i \in 1 .. Len(nodes)}) = Len(nodes)
      /\ \A b \in 1 .. Len(table.buckets) : \A i \in 1 .. Len(table.buckets[b]) :
           Slot(table.buckets, table.buckets[b][i].key) = b
      /\ table.count = Len(nodes)
      /\ table.count <= Len(table.buckets)

\* The table as the function that Keyspace works on.
Map == INSTANCE Keyspace
         WITH store <- [k \in Keys |-> EntryAt(table, k)], Deltas <- {}, Indexes <- {}

===============================================================================

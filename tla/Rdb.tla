---------------------------------- MODULE Rdb ----------------------------------
(***************************************************************************)
(* The RDB loader of rdb.c, filling the table of KeyTable, one opcode a    *)
(* step.                                                                   *)
(*                                                                         *)
(* A file is a list of items, each the cells it is written as and what it  *)
(* means, and the cells that have reached the disk.  A cell is a byte, or  *)
(* a text, which is read at once.                                          *)
(***************************************************************************)
EXTENDS KeyTable

CONSTANTS SizeOf,      \* length of each text, in bytes
          MaxString,   \* longest string accepted (512 MB in the code)
          Missing      \* no file

VARIABLES file,        \* what fopen found: [items, cells], or Missing
          pos,         \* the next cell to read
          expiry_ms,   \* the expiry for the next key, 0 for none
          result       \* of rdb_load, "none" before it returns

rdbVars == <<file, pos, expiry_ms, result>>

RDB_TYPE_STRING   == 0
RDB_OP_AUX        == 250
RDB_OP_RESIZEDB   == 251
RDB_OP_EXPIRE_MS  == 252
RDB_OP_EXPIRE_SEC == 253
RDB_OP_SELECTDB   == 254
RDB_OP_EOF        == 255

\* "REDIS", and four characters of version.
Magic   == "REDIS"
Version == "0011"

-------------------------------------------------------------------------------
(* Readers map cells and a position to [ok, v, p]: the value, and where the  *)
(* next read begins.                                                         *)

Fail       == [ok |-> FALSE, v |-> 0, p |-> 0, encoded |-> FALSE]
Got(v, p)  == [ok |-> TRUE, v |-> v, p |-> p, encoded |-> FALSE]

BigEndian(bytes) ==
  LET v[i \in 0 .. Len(bytes)] == IF i = 0 THEN 0 ELSE v[i - 1] * 256 + bytes[i]
  IN  v[Len(bytes)]

LittleEndian(bytes) == BigEndian(Reverse(bytes))

\* The last byte carries the sign.
SignedLittleEndian(bytes) ==
  LET top == IF Last(bytes) >= 128 THEN Last(bytes) - 256 ELSE Last(bytes)
  IN  BigEndian(<<top>> \o Tail(Reverse(bytes)))

\* n bytes, or a short read.
fread(s, p, n, Value(_)) ==
  IF p + n - 1 <= Len(s) THEN Got(Value(SubSeq(s, p, p + n - 1)), p + n) ELSE Fail

\* The top two bits of the first byte tell a 6-bit, 14-bit or longer length, or a
\* special encoding.
read_length(s, p) ==
  IF p \notin 1 .. Len(s) THEN Fail
  ELSE CASE s[p] < 64            -> Got(s[p], p + 1)
         [] s[p] \in 64 .. 127   -> fread(s, p + 1, 1, LAMBDA b : BigEndian(<<s[p] % 64>> \o b))
         [] s[p] = 128           -> fread(s, p + 1, 4, BigEndian)
         [] s[p] = 129           -> fread(s, p + 1, 8, BigEndian)
         [] s[p] \in 130 .. 191  -> Fail
         [] OTHER                -> [Got(s[p] % 64, p + 1) EXCEPT !.encoded = TRUE]

\* Called without a place for the encoding, it refuses one.
read_plain_length(s, p) == IF read_length(s, p).encoded THEN Fail ELSE read_length(s, p)

\* Encodings 0, 1 and 2 are integers of 1, 2 and 4 bytes, whose text is their
\* decimal form; others, LZF among them, are not supported.
read_string(s, p) ==
  LET l == read_length(s, p)
  IN  CASE l.ok /\ l.encoded /\ l.v <= 2 -> fread(s, l.p, 2 ^ l.v, SignedLittleEndian)
        [] l.ok /\ ~l.encoded /\ l.v <= MaxString /\ l.p <= Len(s) ->
             IF s[l.p] \in DOMAIN SizeOf /\ SizeOf[s[l.p]] = l.v THEN Got(s[l.p], l.p + 1)
                                                                ELSE Fail
        [] OTHER -> Fail

-------------------------------------------------------------------------------
(* rdb_load *)

\* fopen, magic and version.
rdb_open(f) ==
  /\ file' = f
  /\ pos' = 3
  /\ expiry_ms' = 0
  /\ result' = CASE f = Missing -> "not found"
                 [] f # Missing /\ Len(f.cells) >= 2 /\ f.cells[1] = Magic -> "none"
                 [] OTHER -> "parse error"

Continue(p) == pos' = p /\ UNCHANGED <<file, result, expiry_ms, table, now>>

Finish(r) == result' = r /\ UNCHANGED <<file, pos, expiry_ms, table, now>>

\* Two reads in a row: AUX and RESIZEDB skip what they read.
Skip(first, second) == IF first.ok /\ second.ok THEN Continue(second.p) ELSE Finish("parse error")

Expire(r, unit) ==
  IF r.ok THEN /\ expiry_ms' = r.v * unit
               /\ pos' = r.p
               /\ UNCHANGED <<file, result, table, now>>
          ELSE Finish("parse error")

\* Mutant: the expiry stays for the keys that follow.
LoadStringKeepsExpiry(key, value) ==
  \E ts \in Readings(1) :
    IF key.ok /\ value.ok
    THEN /\ table' = store_set(table, key.v, value.v, expiry_ms, ts[1])
         /\ now' = ts[1]
         /\ pos' = value.p
         /\ UNCHANGED <<file, result, expiry_ms>>
    ELSE Finish("parse error")

\* The pending expiry is for this key only.
LoadString(key, value) ==
  \E ts \in Readings(1) :
    IF key.ok /\ value.ok
    THEN /\ table' = store_set(table, key.v, value.v, expiry_ms, ts[1])
         /\ now' = ts[1]
         /\ pos' = value.p
         /\ expiry_ms' = 0
         /\ UNCHANGED <<file, result>>
    ELSE Finish("parse error")

\* Mutant: the end of the file is not noticed.
ReadPastEnd(s) ==
  IF pos > Len(s) THEN Continue(pos) ELSE Finish("ok")

\* AUX and a string item: two strings.
TwoStrings(s) ==
  \E a \in {read_string(s, pos + 1)} : \E b \in {read_string(s, a.p)} :
    IF s[pos] = RDB_OP_AUX THEN Skip(a, b) ELSE LoadString(a, b)

\* One turn of the loop.
LoadOpcode(s) ==
  LET m == read_plain_length(s, pos + 1)
      n == read_plain_length(s, m.p)
  IN  IF pos > Len(s) THEN Finish("parse error")   \* no EOF marker
      ELSE CASE s[pos] = RDB_OP_EOF -> Finish("ok")
             [] s[pos] \in {RDB_TYPE_STRING, RDB_OP_AUX} -> TwoStrings(s)
             [] s[pos] = RDB_OP_SELECTDB -> Skip(m, m)
             [] s[pos] = RDB_OP_RESIZEDB -> Skip(m, n)
             [] s[pos] = RDB_OP_EXPIRE_MS -> Expire(fread(s, pos + 1, 8, SignedLittleEndian), 1)
             [] s[pos] = RDB_OP_EXPIRE_SEC -> Expire(fread(s, pos + 1, 4, LittleEndian), Second)
             [] OTHER        -> Finish("unsupported")

-------------------------------------------------------------------------------
(* What a file means, read from its items and not from its cells.            *)

\* The number of items that have reached the disk as a whole.
WholeItems(f) ==
  LET size(n) == Len(FlattenSeq([i \in 1 .. n |-> f.items[i].cells]))
  IN  Cardinality({n \in 1 .. Len(f.items) : size(n) <= Len(f.cells)})

\* Every item up to the end marker is there, and of a kind the loader supports.
Loads(f) ==
  /\ f # Missing
  /\ \E n \in 1 .. WholeItems(f) :
       /\ f.items[n].means[1] = "end"
       /\ \A i \in 1 .. n - 1 : f.items[i].means[1] # "refused"

\* The last record of a key counts, with the last expiry since the record before.
Meaning(f) ==
  LET is(i, kind) == f.items[i].means[1] = kind
      records(k)  == {i \in 1 .. Len(f.items) : is(i, "key") /\ f.items[i].means[2] = k}
      expiry(i)   == LET before == {h \in 1 .. i - 1 :
                                      /\ is(h, "expiry")
                                      /\ \A j \in h + 1 .. i - 1 : ~is(j, "key")}
                     IN  IF before = {} THEN 0 ELSE f.items[Max(before)].means[2]
  IN  [k \in Keys |->
         IF records(k) = {} THEN Absent
         ELSE NewString(f.items[Max(records(k))].means[3], expiry(Max(records(k))))]

===============================================================================

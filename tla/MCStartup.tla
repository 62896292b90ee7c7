------------------------------ MODULE MCStartup ------------------------------
(* Instances of Startup for TLC. *)
EXTENDS Startup

CONSTANTS k1, k2, k3, w

\* k1 and k2 collide until there are four buckets.
HashOf == (k1 :> 0) @@ (k2 :> 2) @@ (k3 :> 1)

\* Lengths that need one, two and four bytes.
Sizes == (k1 :> 5) @@ (k2 :> 300) @@ (k3 :> 63) @@ (w :> 70000)

Px(n)   == [unit |-> "PX", n |-> n]
Options == {<< >>, <<Px(1)>>}

\* Strings as Redis writes them.
Short(t) == <<Sizes[t], t>>
Long(t)  == <<64 + Sizes[t] \div 256, Sizes[t] % 256, t>>
Huge(t)  == <<128, 0, Sizes[t] \div 65536, (Sizes[t] \div 256) % 256, Sizes[t] % 256, t>>
Huge64(t) == <<129, 0, 0, 0, 0, 0, 0, 1, 44, t>>   \* 300
Int8(b)  == <<192, b>>
Int16(b, c) == <<193, b, c>>
Int32(b, c) == <<194, b, c, c, c>>
Lzf(t)   == <<195, t>>

Item(cells, means) == [cells |-> cells, means |-> means]
Header    == Item(<<Magic, Version>>, <<"nothing">>)
Aux       == Item(<<RDB_OP_AUX>> \o Short(k3) \o Int8(7), <<"nothing">>)
SelectDb  == Item(<<RDB_OP_SELECTDB, 0>>, <<"nothing">>)
ResizeDb  == Item(<<RDB_OP_RESIZEDB, 65, 0, 1>>, <<"nothing">>)
Ms(n)     == Item(<<RDB_OP_EXPIRE_MS, n, 0, 0, 0, 0, 0, 0, 0>>, <<"expiry", n>>)
Secs(n)   == Item(<<RDB_OP_EXPIRE_SEC, n, 0, 0, 0>>, <<"expiry", n * Second>>)
Key(key, value, k, v) == Item(<<RDB_TYPE_STRING>> \o key \o value, <<"key", k, v>>)
ListItem  == Item(<<1>> \o Short(k1), <<"refused">>)
LzfItem   == Item(<<RDB_TYPE_STRING>> \o Short(k1) \o Lzf(w), <<"refused">>)
OddLength == Item(<<RDB_OP_SELECTDB, 192>>, <<"refused">>)
End       == Item(<<RDB_OP_EOF>>, <<"end">>)

\* Everything once, a key twice, an expiry with something between it and its key,
\* and things that are not supported in the middle.
Dumps ==
  {<<Header, Aux, SelectDb, ResizeDb, Key(Short(k1), Huge(w), k1, w), Ms(2), Aux,
     Key(Long(k2), Int8(255), k2, -1), Key(Short(k3), Int16(254, 255), k3, -2), End>>,
   <<Header, Secs(1), Key(Short(k1), Int32(7, 0), k1, 7), Key(Huge64(k2), Huge(w), k2, w),
     Ms(1), Ms(3), Key(Short(k1), Int32(248, 255), k1, -8), Ms(1), End>>,
   <<Header, Ms(1), Key(Short(k1), Int8(3), k1, 3), Key(Short(k3), Int8(3), k3, 3), ListItem, End>>,
   <<Header, Key(Short(k3), Int8(3), k3, 3), LzfItem, End>>,
   <<Header, Key(Short(k1), Int8(3), k1, 3), OddLength, End>>,
   <<Item(<<"RIFF">>, <<"refused">>), End>>}

CellsOf(items) == FlattenSeq([i \in 1 .. Len(items) |-> items[i].cells])

\* Every dump, broken off at every cell.
Files == UNION {LET all == CellsOf(d)
                IN  {[items |-> d, cells |-> SubSeq(all, 1, n)] : n \in 0 .. Len(all)} : d \in Dumps}

Path(d, n)  == [dir |-> d, dbfilename |-> n]
Here        == Path(".", "dump")
OnDisk      == [p \in {Path(d, n) : d \in {".", "other"}, n \in {"dump", "x"}} |->
                  IF p = Here THEN Files ELSE {Missing}]

Opt(o, v)   == [opt |-> o, val |-> v]
CommandLines == {<< >>, <<Opt("dir", "other"), Opt("port", "1")>>,
                 <<Opt("dir", "other"), Opt("dir", "."), Opt("name", "dump")>>,
                 <<Opt("name", "x"), Opt("help", "")>>, <<Opt("bad", "")>>}

\* No step depends on the last command, its reply or the last exit code.
ProcessView == <<table, now, rdbVars, phase, cfg>>

===============================================================================

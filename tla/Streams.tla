-------------------------------- MODULE Streams --------------------------------
(***************************************************************************)
(* Streams: ID generation and the stream part of store.c, and the handlers *)
(* of cmd_stream.c.                                                        *)
(*                                                                         *)
(* A reader polls one stream with XREAD, each time from the last ID it was *)
(* given, which is how XREAD without BLOCK is meant to be used.            *)
(***************************************************************************)
EXTENDS Integers, Sequences, SequencesExt

CONSTANTS Keys,         \* stream keys
          UINT64_MAX,   \* largest unsigned integer of the width in use
          Specs,        \* ID arguments of XADD
          Bounds,       \* range arguments of XRANGE
          Limits,       \* COUNT arguments of XREAD, 0 for none
          MaxLen        \* bound: longest stream

U64      == 0 .. UINT64_MAX
StreamId == [ms : U64, seq : U64]
Id(m, s) == [ms |-> m, seq |-> s]

\* The text of an ID argument, as the parser tells texts apart: "*", "<ms>-*",
\* "<ms>-<seq>", "<ms>", "-", "+", "$", and what is none of these.
IdText == [form : {"*", "ms-*", "ms-seq", "ms", "-", "+", "$", "bad"}, id : StreamId]

ASSUME StreamsAssumption ==
  /\ UINT64_MAX \in Nat \ {0}
  /\ Specs \subseteq IdText /\ Bounds \subseteq IdText
  /\ Limits \subseteq Nat
  /\ MaxLen \in Nat

VARIABLES db,      \* key -> the IDs of its stream in order; << >> if there is none
          taken,   \* keys that hold a value of another type
          now,     \* the wall clock, which may be set back
          reader,  \* the key a reader polls, the IDs it was given, and its cursor
          reply    \* the last reply

vars == <<db, taken, now, reader, reply>>

Init ==
  /\ db = [k \in Keys |-> << >>]
  /\ taken = {}
  /\ now \in U64
  /\ reader \in [key : Keys, seen : {<< >>}, cursor : {Id(0, 0)}]
  /\ reply = [kind |-> "none"]

Error    == [kind |-> "error"]
Ids(s)   == [kind |-> "entries", ids |-> s]

-------------------------------------------------------------------------------
(* store.c *)

stream_id_cmp(a, b) ==
  CASE a.ms # b.ms -> IF a.ms < b.ms THEN -1 ELSE 1
    [] a.ms = b.ms /\ a.seq # b.seq -> IF a.seq < b.seq THEN -1 ELSE 1
    [] OTHER -> 0

Less(a, b) == stream_id_cmp(a, b) < 0

\* The ID a text stands for, if it parses at all.
Parses(t) == t.form \in {"ms-seq", "ms"}

stream_id_parse(t, default_seq) ==
  IF t.form = "ms" THEN Id(t.id.ms, default_seq) ELSE t.id

last_id(s) == IF s = << >> THEN Id(0, 0) ELSE s[Len(s)]

\* Mutant: the clock is trusted.
AutoIdFromClock(last, t) == [ok |-> TRUE, id |-> Id(t, 0)]

\* XADD *: the clock, or the successor of the last ID if the clock is not ahead.
AutoId(last, t) ==
  CASE t > last.ms -> [ok |-> TRUE, id |-> Id(t, 0)]
    [] t <= last.ms /\ last.seq = UINT64_MAX -> [ok |-> FALSE, id |-> last]
    [] OTHER -> [ok |-> TRUE, id |-> Id(last.ms, last.seq + 1)]

\* XADD <ms>-*
AutoSeq(s, last, ms) ==
  CASE ms < last.ms -> [ok |-> FALSE, id |-> last]
    [] ms = last.ms /\ s # << >> /\ last.seq = UINT64_MAX -> [ok |-> FALSE, id |-> last]
    [] ms = last.ms /\ s # << >> /\ last.seq # UINT64_MAX ->
         [ok |-> TRUE, id |-> Id(ms, last.seq + 1)]
    [] OTHER -> [ok |-> TRUE, id |-> Id(ms, IF ms = 0 THEN 1 ELSE 0)]

resolve_new_id(s, t, clock) ==
  LET last == last_id(s)
      id   == stream_id_parse(t, 0)
  IN  CASE t.form = "*"    -> AutoId(last, clock)
        [] t.form = "ms-*" -> AutoSeq(s, last, t.id.ms)
        [] OTHER -> [ok |-> Parses(t) /\ id # Id(0, 0) /\ Less(last, id), id |-> id]

\* Mutant: the type is not checked.
StreamAddAnyType(k, t) ==
  LET r == resolve_new_id(db[k], t, now)
  IN  [ok |-> r.ok, id |-> r.id, stream |-> Append(db[k], r.id)]

\* Whether the entry goes in, its ID, and the stream with it.
store_stream_add(k, t) ==
  LET r == resolve_new_id(db[k], t, now)
  IN  [ok |-> k \notin taken /\ r.ok, id |-> r.id, stream |-> Append(db[k], r.id)]

-------------------------------------------------------------------------------
(* cmd_stream.c *)

\* An error of any kind leaves the keyspace alone: no empty stream is created.
cmd_xadd(k, t) ==
  LET a == store_stream_add(k, t)
  IN  /\ Len(db[k]) < MaxLen
      /\ IF a.ok
         THEN /\ db' = [db EXCEPT ![k] = a.stream]
              /\ reply' = [kind |-> "id", id |-> a.id]
         ELSE reply' = Error /\ UNCHANGED db
      /\ UNCHANGED <<taken, now, reader>>

\* A scan from the head: what is left once P fails, and what comes before.
SkipWhile(s, P(_)) ==
  SubSeq(s, Max({i \in 1 .. Len(s) + 1 : \A j \in 1 .. i - 1 : P(s[j])}), Len(s))

TakeWhile(s, P(_)) ==
  SubSeq(s, 1, Max({i \in 0 .. Len(s) : \A j \in 1 .. i : P(s[j])}))

\* "-" and "+" are the ends of the ID space; "<ms>" covers the millisecond.
BoundOk(t, open) == t.form = open \/ Parses(t)
RangeStart(t) == IF t.form = "-" THEN Id(0, 0) ELSE stream_id_parse(t, 0)

\* Mutant: a partial end means its first ID.
RangeEndAtZero(t) ==
  IF t.form = "+" THEN Id(UINT64_MAX, UINT64_MAX) ELSE stream_id_parse(t, 0)

RangeEnd(t) ==
  IF t.form = "+" THEN Id(UINT64_MAX, UINT64_MAX) ELSE stream_id_parse(t, UINT64_MAX)

xrange(s, from, to) ==
  TakeWhile(SkipWhile(s, LAMBDA id : Less(id, from)), LAMBDA id : ~Less(to, id))

cmd_xrange(k, from, to) ==
  /\ reply' = IF BoundOk(from, "-") /\ BoundOk(to, "+") /\ k \notin taken
              THEN Ids(xrange(db[k], RangeStart(from), RangeEnd(to)))
              ELSE Error
  /\ UNCHANGED <<db, taken, now, reader>>

\* Mutant: the given ID is included.
XreadInclusive(s, after, limit) ==
  LET found == SkipWhile(s, LAMBDA id : Less(id, after))
  IN  IF limit = 0 \/ Len(found) <= limit THEN found ELSE SubSeq(found, 1, limit)

\* The entries after an ID, at most limit of them unless it is 0.
xread(s, after, limit) ==
  LET found == SkipWhile(s, LAMBDA id : ~Less(after, id))
  IN  IF limit = 0 \/ Len(found) <= limit THEN found ELSE SubSeq(found, 1, limit)

After(k, t) == IF t.form = "$" THEN last_id(db[k]) ELSE stream_id_parse(t, 0)

\* XREAD of several streams: one bad ID or key of another type refuses them all,
\* and streams without news are left out of the reply.
cmd_xread(ks, ts, limit) ==
  /\ Len(ts) = Len(ks)
  /\ reply' = IF \A i \in 1 .. Len(ks) : /\ ks[i] \notin taken
                                         /\ Parses(ts[i]) \/ ts[i].form = "$"
              THEN [kind |-> "streams",
                    news |-> SelectSeq([i \in 1 .. Len(ks) |->
                               <<ks[i], xread(db[ks[i]], After(ks[i], ts[i]), limit)>>],
                               LAMBDA r : r[2] # << >>)]
              ELSE Error
  /\ UNCHANGED <<db, taken, now>>

-------------------------------------------------------------------------------
\* The reader asks for what came after its cursor.
ReaderPolls(limit) ==
  LET got == xread(db[reader.key], reader.cursor, limit)
  IN  /\ cmd_xread(<<reader.key>>, <<[form |-> "ms-seq", id |-> reader.cursor]>>, limit)
      /\ reader' = IF reader.key \in taken THEN reader ELSE
                   [reader EXCEPT !.seen = @ \o got,
                                  !.cursor = IF got = << >> THEN @ ELSE got[Len(got)]]

\* DEL, or SET which leaves a string; a reader of that key starts afresh.
Discard(k, by_set) ==
  /\ db' = [db EXCEPT ![k] = << >>]
  /\ taken' = IF by_set THEN taken \cup {k} ELSE taken \ {k}
  /\ reader' = IF reader.key = k THEN [reader EXCEPT !.seen = << >>, !.cursor = Id(0, 0)]
                                 ELSE reader
  /\ reply' = [kind |-> "ok"]
  /\ UNCHANGED now

\* now_ms() is the wall clock: it may go either way.
Clock == now' \in U64 \ {now} /\ UNCHANGED <<db, taken, reader, reply>>

Next ==
  \/ \E k \in Keys :
       \/ \E t \in Specs : cmd_xadd(k, t)
       \/ \E from, to \in Bounds : cmd_xrange(k, from, to)
       \/ \E by_set \in BOOLEAN : Discard(k, by_set)
  \/ \E ks \in UNION {[1 .. n -> Keys] : n \in 1 .. 2},
        ts \in UNION {[1 .. n -> Bounds] : n \in 1 .. 2}, limit \in Limits :
       cmd_xread(ks, ts, limit) /\ UNCHANGED reader
  \/ \E limit \in Limits : ReaderPolls(limit)
  \/ Clock

Spec == Init /\ [][Next]_vars

-------------------------------------------------------------------------------
(* Properties *)

\* Every stream is a sequence of 64-bit IDs, and a key with another type has none.
TypeOK ==
  /\ db \in [Keys -> Seq(StreamId)]
  /\ taken \subseteq Keys
  /\ now \in U64
  /\ \A k \in taken : db[k] = << >>

\* "append-only list with strictly increasing IDs" (store.h), none of them 0-0,
\* whatever mix of generated and given IDs built the stream, with the clock set
\* back and sequence numbers at their limit.
StrictlyIncreasing ==
  \A k \in Keys :
    /\ \A i \in 1 .. Len(db[k]) : db[k][i] # Id(0, 0)
    /\ \A i, j \in 1 .. Len(db[k]) : i < j => Less(db[k][i], db[k][j])

\* What the bounds of XRANGE mean.  "<ms>" stands for its whole millisecond.
NotBefore(id, t) ==
  CASE t.form = "-" -> TRUE
    [] t.form = "ms" -> id.ms >= t.id.ms
    [] OTHER -> id.ms > t.id.ms \/ (id.ms = t.id.ms /\ id.seq >= t.id.seq)

NotAfter(id, t) ==
  CASE t.form = "+" -> TRUE
    [] t.form = "ms" -> id.ms <= t.id.ms
    [] OTHER -> id.ms < t.id.ms \/ (id.ms = t.id.ms /\ id.seq <= t.id.seq)

\* XRANGE, which stops at the first entry past the end, returns exactly the
\* entries between its bounds, both included, each once and in their order.
RangeExact ==
  \A k \in Keys : \A from, to \in Bounds :
    BoundOk(from, "-") /\ BoundOk(to, "+") =>
      LET r == xrange(db[k], RangeStart(from), RangeEnd(to))
      IN  /\ Range(r) = {id \in Range(db[k]) : NotBefore(id, from) /\ NotAfter(id, to)}
          /\ \A i, j \in 1 .. Len(r) : i < j => Less(r[i], r[j])

\* A reader that polls with XREAD from its last ID is given every entry once and
\* in order, however its polls and the additions interleave.
ReaderSeesAll == IsPrefix(reader.seen, db[reader.key])

===============================================================================

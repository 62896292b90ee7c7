----------------------------- MODULE StreamsProofs -----------------------------
(***************************************************************************)
(* The IDs of a stream are strictly increasing, for every width of the     *)
(* numbers in them, every length and every behaviour of the wall clock;    *)
(* hence what XRANGE and XREAD, which scan a stream from its head, find.   *)
(***************************************************************************)
EXTENDS Streams, WellFoundedInduction, TLAPS

-------------------------------------------------------------------------------
(* The order of IDs and the IDs XADD resolves                               *)

\* stream_id_cmp is transitive.
LEMMA LessTransitive ==
  ASSUME NEW a \in StreamId, NEW b \in StreamId, NEW c \in StreamId,
         Less(a, b), Less(b, c)
  PROVE  Less(a, c)
BY StreamsAssumption DEF Less, stream_id_cmp, StreamId, U64

\* Nothing comes before 0-0, so what comes after some ID is not 0-0.
LEMMA ZeroIsFirst ==
  ASSUME NEW a \in StreamId, NEW b \in StreamId, Less(a, b)
  PROVE  b # Id(0, 0)
BY StreamsAssumption DEF Less, stream_id_cmp, StreamId, U64, Id

\* It is an order, and 0-0 its least ID.
LEMMA LessOrder ==
  ASSUME NEW a \in StreamId, NEW b \in StreamId
  PROVE  /\ ~Less(a, a) /\ (Less(a, b) => ~Less(b, a))
         /\ a # Id(0, 0) => Less(Id(0, 0), a)
BY StreamsAssumption DEF Less, stream_id_cmp, StreamId, U64, Id

LEMMA LastIdType ==
  ASSUME NEW s \in Seq(StreamId)
  PROVE  last_id(s) \in StreamId /\ (s = << >> => last_id(s) = Id(0, 0))
<1>1. Id(0, 0) \in StreamId
  BY StreamsAssumption DEF StreamId, U64, Id
<1>2. s # << >> => s[Len(s)] \in StreamId
  OBVIOUS
<1> QED
  BY <1>1, <1>2 DEF last_id

\* XADD *: an ID after the last one, or none.
LEMMA AutoIdFollows ==
  ASSUME NEW last \in StreamId, NEW t \in U64, AutoId(last, t).ok
  PROVE  AutoId(last, t).id \in StreamId /\ Less(last, AutoId(last, t).id)
BY StreamsAssumption DEF AutoId, Less, stream_id_cmp, StreamId, U64, Id

\* XADD <ms>-*: likewise; in a stream that is empty the last ID is 0-0.
LEMMA AutoSeqFollows ==
  ASSUME NEW s \in Seq(StreamId), NEW ms \in U64, AutoSeq(s, last_id(s), ms).ok
  PROVE  LET id == AutoSeq(s, last_id(s), ms).id
         IN  id \in StreamId /\ Less(last_id(s), id)
<1> DEFINE last == last_id(s)
<1>1. last \in StreamId /\ (s = << >> => last = Id(0, 0))
  BY LastIdType
<1> HIDE DEF last
<1>2. AutoSeq(s, last, ms).ok =>
        /\ AutoSeq(s, last, ms).id \in StreamId
        /\ Less(last, AutoSeq(s, last, ms).id)
  BY <1>1, StreamsAssumption, SMTT(20) DEF AutoSeq, Less, stream_id_cmp, StreamId, U64, Id
<1> QED
  BY <1>2 DEF last

\* Whatever the argument of XADD, an ID that is accepted follows the last one.
LEMMA NewIdFollows ==
  ASSUME NEW s \in Seq(StreamId), NEW t \in IdText, NEW clock \in U64,
         resolve_new_id(s, t, clock).ok
  PROVE  LET id == resolve_new_id(s, t, clock).id
         IN  id \in StreamId /\ Less(last_id(s), id)
<1>1. last_id(s) \in StreamId
  BY LastIdType
<1>2. CASE t.form = "*"
  BY <1>1, <1>2, AutoIdFollows DEF resolve_new_id
<1>3. CASE t.form = "ms-*"
  <2>1. t.id.ms \in U64
    BY DEF IdText, StreamId
  <2> QED
    BY <1>3, <2>1, AutoSeqFollows DEF resolve_new_id
<1>4. CASE t.form \notin {"*", "ms-*"}
  <2>1. stream_id_parse(t, 0) \in StreamId
    BY StreamsAssumption DEF stream_id_parse, IdText, StreamId, U64, Id
  <2> QED
    BY <1>4, <2>1, Zenon DEF resolve_new_id
<1> QED
  BY <1>2, <1>3, <1>4

-------------------------------------------------------------------------------
(* The invariant                                                             *)

Increasing(s) ==
  /\ \A i \in 1 .. Len(s) : s[i] # Id(0, 0)
  /\ \A i, j \in 1 .. Len(s) : i < j => Less(s[i], s[j])

\* Appending an ID that follows the last one keeps a stream increasing.
LEMMA AppendIncreasing ==
  ASSUME NEW s \in Seq(StreamId), Increasing(s),
         NEW id \in StreamId, Less(last_id(s), id)
  PROVE  Append(s, id) \in Seq(StreamId) /\ Increasing(Append(s, id))
<1> DEFINE a == Append(s, id)
           n == Len(s)
<1>1. /\ a \in Seq(StreamId) /\ n \in Nat /\ Len(a) = n + 1
      /\ \A i \in 1 .. n : a[i] = s[i] /\ s[i] \in StreamId
      /\ a[n + 1] = id
  OBVIOUS
<1>2. id # Id(0, 0)
  BY LastIdType, ZeroIsFirst
<1>3. ASSUME NEW i \in 1 .. n
      PROVE  Less(s[i], id)
  <2>1. last_id(s) = s[n] /\ s[n] \in StreamId /\ s[i] \in StreamId
    BY <1>1 DEF last_id
  <2>2. i = n \/ Less(s[i], s[n])
    BY <1>1 DEF Increasing
  <2> QED
    BY <2>1, <2>2, LessTransitive
<1> HIDE DEF a, n
<1>4. Increasing(a)
  <2>1. ASSUME NEW i \in 1 .. n + 1
        PROVE  a[i] # Id(0, 0)
    <3>1. i \in 1 .. n \/ i = n + 1
      BY <1>1
    <3> QED
      BY <1>1, <1>2, <3>1 DEF Increasing, n
  <2>2. ASSUME NEW i \in 1 .. n + 1, NEW j \in 1 .. n + 1, i < j
        PROVE  Less(a[i], a[j])
    <3>1. i \in 1 .. n /\ (j \in 1 .. n \/ j = n + 1)
      BY <1>1, <2>2
    <3> QED
      BY <1>1, <1>3, <2>2, <3>1 DEF Increasing, n
  <2> QED
    BY <1>1, <2>1, <2>2 DEF Increasing
<1> QED
  BY <1>1, <1>4 DEF a

IInv == TypeOK /\ \A k \in Keys : Increasing(db[k])

LEMMA InitIInv == Init => IInv
<1>1. Increasing(<< >>) /\ << >> \in Seq(StreamId)
  BY DEF Increasing
<1> QED
  BY <1>1 DEF Init, IInv, TypeOK

\* Only XADD and the removal of a key change a stream.
LEMMA NextIInv == IInv /\ [Next]_vars => IInv'
<1> SUFFICES ASSUME IInv, [Next]_vars
             PROVE  IInv'
  OBVIOUS
<1> USE DEF IInv, TypeOK
<1>1. ASSUME NEW k \in Keys, NEW t \in Specs, cmd_xadd(k, t)
      PROVE  IInv'
  <2> DEFINE r == resolve_new_id(db[k], t, now)
  <2>1. CASE k \notin taken /\ r.ok
    <3>1. t \in IdText
      BY StreamsAssumption
    <3>2. r.id \in StreamId /\ Less(last_id(db[k]), r.id)
      BY <2>1, <3>1, NewIdFollows
    <3>3. Append(db[k], r.id) \in Seq(StreamId) /\ Increasing(Append(db[k], r.id))
      BY <3>2, AppendIncreasing
    <3>4. /\ db' = [db EXCEPT ![k] = Append(db[k], r.id)]
          /\ UNCHANGED <<taken, now>>
      BY <1>1, <2>1, Zenon DEF cmd_xadd, store_stream_add
    <3> QED
      BY <2>1, <3>3, <3>4
  <2>2. CASE ~(k \notin taken /\ r.ok)
    BY <1>1, <2>2, Zenon DEF cmd_xadd, store_stream_add
  <2> QED
    BY <2>1, <2>2
<1>2. ASSUME NEW k \in Keys, NEW by_set \in BOOLEAN, Discard(k, by_set)
      PROVE  IInv'
  <2>1. Increasing(<< >>) /\ << >> \in Seq(StreamId)
    BY DEF Increasing
  <2> QED
    BY <1>2, <2>1 DEF Discard
<1>3. ASSUME UNCHANGED <<db, taken>>, now' \in U64
      PROVE  IInv'
  BY <1>3
<1>4. CASE \E k \in Keys : \E from, to \in Bounds : cmd_xrange(k, from, to)
  BY <1>3, <1>4 DEF cmd_xrange
<1>5. ASSUME NEW ks, NEW ts, NEW limit, cmd_xread(ks, ts, limit)
      PROVE  IInv'
  BY <1>3, <1>5 DEF cmd_xread
<1>6. CASE \E limit \in Limits : ReaderPolls(limit)
  BY <1>5, <1>6 DEF ReaderPolls
<1>7. CASE Clock
  BY <1>3, <1>7 DEF Clock
<1>8. CASE UNCHANGED vars
  BY <1>3, <1>8 DEF vars
<1> QED
  BY <1>1, <1>2, <1>4, <1>5, <1>6, <1>7, <1>8 DEF Next

LEMMA Invariance == Spec => []IInv
<1>1. Init => IInv
  BY InitIInv
<1>2. IInv /\ [Next]_vars => IInv'
  BY NextIInv
<1> QED
  BY <1>1, <1>2, PTL DEF Spec

-------------------------------------------------------------------------------
(* What XRANGE finds                                                         *)

LEMMA LeastNumber ==
  ASSUME NEW S \in SUBSET Nat, S # {}
  PROVE  \E i \in S : \A h \in S : i <= h
<1>1. PICK n \in S : \A m \in S : ~(<<m, n>> \in OpToRel(<, Nat))
  BY WFMin, NatLessThanWellFounded, Zenon
<1>2. ASSUME NEW m \in S PROVE n <= m
  <2>1. <<m, n>> \notin {ss \in Nat \X Nat : ss[1] < ss[2]}
    BY <1>1 DEF OpToRel
  <2>2. m \in Nat /\ n \in Nat
    OBVIOUS
  <2> QED
    BY <2>1, <2>2
<1> QED
  BY <1>2

\* The least number of a set, from below.
LEMMA MaxIs ==
  ASSUME NEW S \in SUBSET Nat, NEW m \in S, \A y \in S : y <= m
  PROVE  Max(S) = m
<1>1. \A x \in S : (\A y \in S : x >= y) <=> x = m
  OBVIOUS
<1> QED
  BY <1>1, Zenon DEF Max

\* The scan for the start of a range stops at the first entry that is not before it.
LEMMA SkipsBefore ==
  ASSUME NEW s \in Seq(StreamId), Increasing(s), NEW from \in StreamId
  PROVE  \E i \in 1 .. Len(s) + 1 :
           /\ SkipWhile(s, LAMBDA id : Less(id, from)) = SubSeq(s, i, Len(s))
           /\ \A h \in 1 .. Len(s) : Less(s[h], from) <=> h < i
<1> DEFINE F == {i \in 1 .. Len(s) + 1 : i = Len(s) + 1 \/ ~Less(s[i], from)}
           S == {i \in 1 .. Len(s) + 1 : \A j \in 1 .. i - 1 : Less(s[j], from)}
<1>1. F \in SUBSET Nat /\ Len(s) + 1 \in F
  OBVIOUS
<1>2. PICK i \in F : \A h \in F : i <= h
  BY <1>1, LeastNumber, Zenon
<1>3. ASSUME NEW h \in 1 .. Len(s), h < i PROVE Less(s[h], from)
  BY <1>2, <1>3
<1>4. ASSUME NEW h \in 1 .. Len(s), i <= h PROVE ~Less(s[h], from)
  <2>1. /\ i \in 1 .. Len(s) /\ s[i] \in StreamId /\ s[h] \in StreamId
        /\ ~Less(s[i], from)
    BY <1>4
  <2>2. i = h \/ Less(s[i], s[h])
    BY <1>4, <2>1 DEF Increasing
  <2> QED
    BY <2>1, <2>2, LessTransitive
<1>5. S \in SUBSET Nat /\ i \in S
  BY <1>3
<1>6. ASSUME NEW y \in S PROVE y <= i
  BY <1>4
<1>7. Max(S) = i
  BY <1>5, <1>6, MaxIs
<1>8. SkipWhile(s, LAMBDA id : Less(id, from)) = SubSeq(s, i, Len(s))
  BY <1>7, Zenon DEF SkipWhile
<1>9. \A h \in 1 .. Len(s) : Less(s[h], from) <=> h < i
  BY <1>3, <1>4
<1> QED
  BY <1>8, <1>9, Zenon

\* ... and the scan for its end at the first entry that is past it.
LEMMA TakesUpTo ==
  ASSUME NEW s \in Seq(StreamId), Increasing(s), NEW to \in StreamId
  PROVE  \E m \in 0 .. Len(s) :
           /\ TakeWhile(s, LAMBDA id : ~Less(to, id)) = SubSeq(s, 1, m)
           /\ \A h \in 1 .. Len(s) : ~Less(to, s[h]) <=> h <= m
<1> DEFINE F == {i \in 0 .. Len(s) : i = Len(s) \/ Less(to, s[i + 1])}
           S == {i \in 0 .. Len(s) : \A j \in 1 .. i : ~Less(to, s[j])}
<1>1. F \in SUBSET Nat /\ Len(s) \in F
  OBVIOUS
<1>2. PICK m \in F : \A h \in F : m <= h
  BY <1>1, LeastNumber, Zenon
<1>3. ASSUME NEW h \in 1 .. Len(s), h <= m PROVE ~Less(to, s[h])
  <2>1. h - 1 \in 0 .. Len(s) /\ ~(m <= h - 1) /\ (h - 1) + 1 = h
    BY <1>3
  <2>2. h - 1 \notin F
    BY <1>2, <2>1, Zenon
  <2> QED
    BY <2>1, <2>2
<1>4. ASSUME NEW h \in 1 .. Len(s), m < h PROVE Less(to, s[h])
  <2>1. /\ m + 1 \in 1 .. Len(s) /\ s[m + 1] \in StreamId /\ s[h] \in StreamId
        /\ Less(to, s[m + 1])
    BY <1>4
  <2>2. m + 1 = h \/ Less(s[m + 1], s[h])
    BY <1>4, <2>1 DEF Increasing
  <2> QED
    BY <2>1, <2>2, LessTransitive
<1>5. S \in SUBSET Nat /\ m \in S
  BY <1>3
<1>6. ASSUME NEW y \in S PROVE y <= m
  BY <1>4
<1>7. Max(S) = m
  BY <1>5, <1>6, MaxIs
<1>8. TakeWhile(s, LAMBDA id : ~Less(to, id)) = SubSeq(s, 1, m)
  BY <1>7, Zenon DEF TakeWhile
<1>9. \A h \in 1 .. Len(s) : ~Less(to, s[h]) <=> h <= m
  BY <1>3, <1>4
<1> QED
  BY <1>8, <1>9, Zenon

\* XRANGE of an increasing stream.
LEMMA RangeOf ==
  ASSUME NEW s \in Seq(StreamId), Increasing(s), NEW from \in StreamId, NEW to \in StreamId
  PROVE  LET r == xrange(s, from, to)
         IN  /\ Range(r) = {id \in Range(s) : ~Less(id, from) /\ ~Less(to, id)}
             /\ \A i, j \in 1 .. Len(r) : i < j => Less(r[i], r[j])
<1> DEFINE r == xrange(s, from, to)
<1>1. PICK i \in 1 .. Len(s) + 1 :
        /\ SkipWhile(s, LAMBDA id : Less(id, from)) = SubSeq(s, i, Len(s))
        /\ \A h \in 1 .. Len(s) : Less(s[h], from) <=> h < i
  BY SkipsBefore, Zenon
<1> DEFINE t == SubSeq(s, i, Len(s))
<1>2. /\ t \in Seq(StreamId) /\ Len(t) = Len(s) - i + 1
      /\ \A h \in 1 .. Len(t) : i + h - 1 \in 1 .. Len(s) /\ t[h] = s[i + h - 1]
  OBVIOUS
<1> HIDE DEF t
<1>3. Increasing(t)
  <2>1. \A h \in 1 .. Len(t) : t[h] # Id(0, 0)
    BY <1>2, Zenon DEF Increasing
  <2>2. ASSUME NEW h \in 1 .. Len(t), NEW j \in 1 .. Len(t), h < j
        PROVE  Less(t[h], t[j])
    <3>1. i + h - 1 < i + j - 1
      BY <2>2
    <3> QED
      BY <1>2, <3>1, Zenon DEF Increasing
  <2> QED
    BY <2>1, <2>2 DEF Increasing
<1>4. PICK m \in 0 .. Len(t) :
        /\ TakeWhile(t, LAMBDA id : ~Less(to, id)) = SubSeq(t, 1, m)
        /\ \A h \in 1 .. Len(t) : ~Less(to, t[h]) <=> h <= m
  BY <1>2, <1>3, TakesUpTo, Zenon
<1>5. r = SubSeq(t, 1, m)
  BY <1>1, <1>4, Zenon DEF xrange, t
<1>6. Len(r) = m /\ \A h \in 1 .. m : h \in 1 .. Len(t) /\ r[h] = t[h]
  BY <1>2, <1>5
<1> HIDE DEF r
<1>7. \A h, j \in 1 .. Len(r) : h < j => Less(r[h], r[j])
  BY <1>3, <1>6, Zenon DEF Increasing
<1>8. /\ DOMAIN r = 1 .. m /\ DOMAIN s = 1 .. Len(s)
  BY <1>2, <1>5, <1>6
<1>9. ASSUME NEW id \in Range(r)
      PROVE  id \in Range(s) /\ ~Less(id, from) /\ ~Less(to, id)
  <2>1. PICK h \in 1 .. m : id = r[h]
    BY <1>8, <1>9 DEF Range
  <2>2. /\ h \in 1 .. Len(t) /\ id = t[h] /\ i + h - 1 \in 1 .. Len(s)
        /\ id = s[i + h - 1] /\ ~(i + h - 1 < i) /\ h <= m
    BY <1>2, <1>6, <2>1
  <2> QED
    BY <1>1, <1>4, <1>8, <2>2, Zenon DEF Range
<1>10. ASSUME NEW id \in Range(s), ~Less(id, from), ~Less(to, id)
       PROVE  id \in Range(r)
  <2>1. PICK g \in 1 .. Len(s) : id = s[g]
    BY <1>8 DEF Range
  <2>2. ~(g < i)
    BY <1>1, <1>10, <2>1
  <2> DEFINE h == g - i + 1
  <2>3. h \in 1 .. Len(t) /\ i + h - 1 = g
    BY <1>2, <2>2
  <2> HIDE DEF h
  <2>4. t[h] = id
    BY <1>2, <2>1, <2>3, Zenon
  <2>5. h <= m
    BY <1>4, <1>10, <2>3, <2>4
  <2>6. h \in 1 .. m /\ r[h] = id
    BY <1>6, <2>3, <2>4, <2>5
  <2> QED
    BY <1>8, <2>6 DEF Range
<1>11. Range(r) = {id \in Range(s) : ~Less(id, from) /\ ~Less(to, id)}
  BY <1>9, <1>10
<1> QED
  BY <1>7, <1>11 DEF r

\* The bounds as XRANGE resolves them are what they mean.
LEMMA BoundsMean ==
  ASSUME NEW t \in IdText, NEW id \in StreamId
  PROVE  /\ BoundOk(t, "-") => /\ RangeStart(t) \in StreamId
                               /\ NotBefore(id, t) <=> ~Less(id, RangeStart(t))
         /\ BoundOk(t, "+") => /\ RangeEnd(t) \in StreamId
                               /\ NotAfter(id, t) <=> ~Less(RangeEnd(t), id)
<1>1. /\ t.id.ms \in U64 /\ t.id.seq \in U64 /\ id.ms \in U64 /\ id.seq \in U64
      /\ t.id = Id(t.id.ms, t.id.seq)
  BY DEF IdText, StreamId, Id
<1>2. \A a, b \in U64 : /\ Id(a, b) \in StreamId /\ Id(a, b).ms = a /\ Id(a, b).seq = b
  BY DEF Id, StreamId
<1>3. \A x \in U64 : 0 <= x /\ x <= UINT64_MAX /\ 0 \in U64 /\ UINT64_MAX \in U64
  BY StreamsAssumption DEF U64
<1>4. ASSUME BoundOk(t, "-")
      PROVE  RangeStart(t) \in StreamId /\ (NotBefore(id, t) <=> ~Less(id, RangeStart(t)))
  <2>1. CASE t.form = "-"
    BY <1>1, <1>2, <1>3, <2>1 DEF RangeStart, NotBefore, Less, stream_id_cmp, U64
  <2>2. CASE t.form = "ms"
    BY <1>1, <1>2, <1>3, <2>2
       DEF RangeStart, NotBefore, Less, stream_id_cmp, U64, stream_id_parse
  <2>3. CASE t.form = "ms-seq"
    BY <1>1, <1>2, <1>3, <2>3
       DEF RangeStart, NotBefore, Less, stream_id_cmp, U64, stream_id_parse
  <2> QED
    BY <1>4, <2>1, <2>2, <2>3 DEF BoundOk, Parses
<1>5. ASSUME BoundOk(t, "+")
      PROVE  RangeEnd(t) \in StreamId /\ (NotAfter(id, t) <=> ~Less(RangeEnd(t), id))
  <2>1. CASE t.form = "+"
    BY <1>1, <1>2, <1>3, <2>1 DEF RangeEnd, NotAfter, Less, stream_id_cmp, U64
  <2>2. CASE t.form = "ms"
    BY <1>1, <1>2, <1>3, <2>2
       DEF RangeEnd, NotAfter, Less, stream_id_cmp, U64, stream_id_parse
  <2>3. CASE t.form = "ms-seq"
    BY <1>1, <1>2, <1>3, <2>3
       DEF RangeEnd, NotAfter, Less, stream_id_cmp, U64, stream_id_parse
  <2> QED
    BY <1>5, <2>1, <2>2, <2>3 DEF BoundOk, Parses
<1> QED
  BY <1>4, <1>5

-------------------------------------------------------------------------------
(* What a reader that polls with XREAD is given                              *)

\* The cursor of a reader that was given the first n entries.
Cursor(s, n) == IF n = 0 THEN Id(0, 0) ELSE s[n]

\* What a reader has not seen is what it is given, up to the limit.
LEMMA NewsOf ==
  ASSUME NEW s \in Seq(StreamId), Increasing(s), NEW n \in 0 .. Len(s), NEW limit \in Nat
  PROVE  \E m \in n .. Len(s) : xread(s, Cursor(s, n), limit) = SubSeq(s, n + 1, m)
<1> DEFINE after == Cursor(s, n)
<1>0. after = IF n = 0 THEN Id(0, 0) ELSE s[n]
  BY DEF Cursor
<1> HIDE DEF after
<1> DEFINE S == {i \in 1 .. Len(s) + 1 : \A j \in 1 .. i - 1 : ~Less(after, s[j])}
<1>1. ASSUME NEW j \in 1 .. n PROVE ~Less(after, s[j])
  <2>1. after = s[n] /\ s[n] \in StreamId /\ s[j] \in StreamId
    BY <1>0
  <2>2. j = n \/ Less(s[j], s[n])
    BY DEF Increasing
  <2> QED
    BY <2>1, <2>2, LessOrder
<1>2. n < Len(s) => Less(after, s[n + 1])
  <2> SUFFICES ASSUME n < Len(s) PROVE Less(after, s[n + 1])
    OBVIOUS
  <2>1. s[n + 1] \in StreamId /\ n + 1 \in 1 .. Len(s)
    OBVIOUS
  <2>2. s[n + 1] # Id(0, 0) /\ (n > 0 => Less(s[n], s[n + 1]))
    BY <2>1 DEF Increasing
  <2> QED
    BY <1>0, <2>1, <2>2, LessOrder
<1>3. S \in SUBSET Nat /\ n + 1 \in S
  BY <1>1
<1>4. ASSUME NEW y \in S PROVE y <= n + 1
  BY <1>2
<1>5. Max(S) = n + 1
  BY <1>3, <1>4, MaxIs
<1>6. SkipWhile(s, LAMBDA id : ~Less(after, id)) = SubSeq(s, n + 1, Len(s))
  BY <1>5, Zenon DEF SkipWhile
<1>7. xread(s, after, limit)
        = IF limit = 0 \/ Len(SubSeq(s, n + 1, Len(s))) <= limit
          THEN SubSeq(s, n + 1, Len(s))
          ELSE SubSeq(SubSeq(s, n + 1, Len(s)), 1, limit)
  BY <1>6, Zenon DEF xread
<1> HIDE DEF S
<1>8. Len(SubSeq(s, n + 1, Len(s))) = Len(s) - n
  OBVIOUS
<1>9. CASE limit = 0 \/ Len(s) - n <= limit
  <2>1. xread(s, after, limit) = SubSeq(s, n + 1, Len(s))
    BY <1>7, <1>9, <1>8
  <2> QED
    BY <2>1 DEF after
<1>10. CASE limit # 0 /\ limit < Len(s) - n
  <2>1. SubSeq(SubSeq(s, n + 1, Len(s)), 1, limit) = SubSeq(s, n + 1, n + limit)
    BY <1>10
  <2>2. ~(limit = 0 \/ Len(SubSeq(s, n + 1, Len(s))) <= limit)
    BY <1>10, <1>8
  <2>3. xread(s, after, limit) = SubSeq(s, n + 1, n + limit)
    BY <1>7, <2>1, <2>2, Zenon
  <2>4. n + limit \in n .. Len(s)
    BY <1>10
  <2> QED
    BY <2>3, <2>4 DEF after
<1> QED
  BY <1>9, <1>10

\* The reader was given a prefix of the stream, and its cursor is the last of it.
Reads ==
  LET s == db[reader.key]
      n == Len(reader.seen)
  IN  /\ reader \in [key : Keys, seen : Seq(StreamId), cursor : StreamId]
      /\ n <= Len(s)
      /\ \A i \in 1 .. n : reader.seen[i] = s[i]
      /\ reader.cursor = Cursor(s, n)

LEMMA InitReads == Init => Reads
<1>1. Id(0, 0) \in StreamId
  BY StreamsAssumption DEF StreamId, U64, Id
<1>2. << >> \in Seq(StreamId) /\ Len(<< >>) = 0
  OBVIOUS
<1>3. ASSUME Init
      PROVE  /\ reader \in [key : Keys, seen : Seq(StreamId), cursor : StreamId]
             /\ reader.seen = << >> /\ reader.cursor = Id(0, 0) /\ db[reader.key] = << >>
  BY <1>1, <1>2, <1>3, Zenon DEF Init
<1> QED
  BY <1>2, <1>3 DEF Reads, Cursor

\* A poll.
LEMMA PollReads ==
  ASSUME IInv, Reads, NEW limit \in Limits, ReaderPolls(limit)
  PROVE  Reads'
<1> DEFINE s    == db[reader.key]
           n    == Len(reader.seen)
           got  == xread(s, reader.cursor, limit)
           seen == reader.seen
<1>1. /\ s \in Seq(StreamId) /\ Increasing(s) /\ seen \in Seq(StreamId) /\ n \in 0 .. Len(s)
      /\ reader.cursor = Cursor(s, n)
      /\ \A i \in 1 .. n : seen[i] = s[i]
      /\ limit \in Nat /\ reader.cursor \in StreamId
      /\ reader \in [key : Keys, seen : Seq(StreamId), cursor : StreamId]
  BY StreamsAssumption DEF Reads, IInv, TypeOK
<1>2. PICK m \in n .. Len(s) : got = SubSeq(s, n + 1, m)
  <2>1. \E m \in n .. Len(s) : xread(s, Cursor(s, n), limit) = SubSeq(s, n + 1, m)
    BY <1>1, NewsOf, Zenon
  <2> QED
    BY <1>1, <2>1, Zenon
<1>3. db' = db /\ reader' = IF reader.key \in taken THEN reader ELSE
                   [reader EXCEPT !.seen = seen \o got,
                                  !.cursor = IF got = << >> THEN reader.cursor ELSE got[Len(got)]]
  BY DEF ReaderPolls, cmd_xread
<1> HIDE DEF got
<1>4. /\ got \in Seq(StreamId) /\ Len(got) = m - n
      /\ \A i \in 1 .. m - n : got[i] = s[n + i]
  BY <1>1, <1>2, SMTT(20)
<1>5. CASE reader.key \in taken
  BY <1>3, <1>5 DEF Reads
<1>6. CASE reader.key \notin taken
  <2>1. /\ reader' \in [key : Keys, seen : Seq(StreamId), cursor : StreamId]
        /\ reader'.key = reader.key /\ reader'.seen = seen \o got
        /\ reader'.cursor = IF got = << >> THEN reader.cursor ELSE got[Len(got)]
    <3>1. got # << >> => got[Len(got)] \in StreamId
      BY <1>4
    <3>2. seen \o got \in Seq(StreamId)
      BY <1>1, <1>4
    <3> QED
      BY <1>1, <1>3, <1>6, <3>1, <3>2, Zenon
  <2>2. Len(seen \o got) = m
    BY <1>1, <1>4
  <2>3. ASSUME NEW i \in 1 .. m PROVE (seen \o got)[i] = s[i]
    <3>1. CASE i <= n
      BY <1>1, <1>4, <3>1
    <3>2. CASE i > n
      <4>1. (seen \o got)[i] = got[i - n]
        BY <1>1, <1>4, <3>2
      <4>2. i - n \in 1 .. m - n /\ n + (i - n) = i
        BY <1>1, <3>2
      <4> QED
        BY <1>4, <4>1, <4>2, Zenon
    <3>3. i <= n \/ i > n
      BY <1>1
    <3> QED
      BY <3>1, <3>2, <3>3, Zenon
  <2>4. reader'.cursor = Cursor(s, m)
    <3>1. CASE m = n
      BY <1>1, <1>4, <2>1, <3>1
    <3>2. CASE m # n
      <4>1. got # << >> /\ m - n \in 1 .. m - n /\ n + (m - n) = m /\ m # 0
        BY <1>1, <1>4, <3>2
      <4> QED
        BY <1>4, <2>1, <4>1, Zenon DEF Cursor
    <3> QED
      BY <3>1, <3>2
  <2> QED
    BY <1>1, <1>3, <2>1, <2>2, <2>3, <2>4 DEF Reads
<1> QED
  BY <1>5, <1>6

LEMMA NextReads == IInv /\ Reads /\ [Next]_vars => Reads'
<1> SUFFICES ASSUME IInv, Reads, [Next]_vars
             PROVE  Reads'
  OBVIOUS
<1>1. ASSUME NEW k \in Keys, NEW t \in Specs, cmd_xadd(k, t)
      PROVE  Reads'
  <2> DEFINE r == store_stream_add(k, t)
  <2>1. reader' = reader /\ (db' = db \/ db' = [db EXCEPT ![k] = r.stream])
    BY <1>1 DEF cmd_xadd
  <2>2. CASE db' = db
    BY <2>1, <2>2 DEF Reads
  <2>3. CASE db' = [db EXCEPT ![k] = r.stream] /\ db' # db
    <3> DEFINE id == resolve_new_id(db[k], t, now).id
    <3>1. k \notin taken /\ resolve_new_id(db[k], t, now).ok
      BY <1>1, <2>3, Zenon DEF cmd_xadd, store_stream_add
    <3>2. id \in StreamId /\ db[k] \in Seq(StreamId)
      BY <3>1, NewIdFollows, StreamsAssumption DEF IInv, TypeOK
    <3>3. db' = [db EXCEPT ![k] = Append(db[k], id)] /\ db \in [Keys -> Seq(StreamId)]
      BY <2>3 DEF store_stream_add, IInv, TypeOK
    <3> HIDE DEF id
    <3>4. \/ db'[reader.key] = db[reader.key]
          \/ db'[reader.key] = Append(db[reader.key], id)
      BY <3>3 DEF Reads
    <3>5. db[reader.key] \in Seq(StreamId)
      BY <3>3 DEF Reads
    <3>6. /\ Len(db[reader.key]) <= Len(db'[reader.key])
          /\ \A i \in 1 .. Len(db[reader.key]) : db'[reader.key][i] = db[reader.key][i]
      <4>1. \A s \in Seq(StreamId) :
              /\ Len(s) <= Len(s) /\ Len(s) <= Len(Append(s, id))
              /\ \A i \in 1 .. Len(s) : Append(s, id)[i] = s[i]
        BY <3>2
      <4> QED
        BY <3>4, <3>5, <4>1, Zenon
    <3>7. Len(reader.seen) \in Nat /\ Len(db'[reader.key]) \in Nat
      BY <3>2, <3>4, <3>5 DEF Reads
    <3> QED
      BY <2>1, <3>5, <3>6, <3>7 DEF Reads, Cursor
  <2> QED
    BY <2>1, <2>2, <2>3
<1>2. ASSUME NEW k \in Keys, NEW by_set \in BOOLEAN, Discard(k, by_set)
      PROVE  Reads'
  <2>1. Id(0, 0) \in StreamId
    BY StreamsAssumption DEF StreamId, U64, Id
  <2>2. CASE reader.key = k
    <3>1. << >> \in Seq(StreamId) /\ Len(<< >>) = 0
      OBVIOUS
    <3>2. /\ reader' \in [key : Keys, seen : Seq(StreamId), cursor : StreamId]
          /\ reader'.seen = << >> /\ reader'.cursor = Id(0, 0) /\ db'[reader'.key] = << >>
      BY <1>2, <2>1, <2>2, <3>1, Zenon DEF Discard, Reads, IInv, TypeOK
    <3> QED
      BY <3>1, <3>2 DEF Reads, Cursor
  <2>3. CASE reader.key # k
    BY <1>2, <2>3 DEF Discard, Reads, IInv, TypeOK
  <2> QED
    BY <2>2, <2>3
<1>3. CASE UNCHANGED <<db, reader>>
  BY <1>3 DEF Reads
<1>4. CASE \E limit \in Limits : ReaderPolls(limit)
  BY <1>4, PollReads
<1> QED
  BY <1>1, <1>2, <1>3, <1>4, Zenon DEF Next, cmd_xrange, cmd_xread, Clock, vars

-------------------------------------------------------------------------------
(* The theorems                                                              *)

\* Every stream is made of IDs of the machine's width, and a key that holds
\* another type has no stream: no XADD overflows a sequence number.
THEOREM TypeCorrect == Spec => []TypeOK
<1>1. IInv => TypeOK
  BY DEF IInv
<1> QED
  BY <1>1, Invariance, PTL

\* "append-only list with strictly increasing IDs" (store.h): whatever mix of
\* generated and given IDs, and whatever the wall clock does.
THEOREM StreamsIncrease == Spec => []StrictlyIncreasing
<1>1. IInv => StrictlyIncreasing
  BY DEF IInv, StrictlyIncreasing, Increasing
<1> QED
  BY <1>1, Invariance, PTL

\* XRANGE returns exactly the entries between its bounds, each once and in order:
\* stopping at the first entry past the end misses none (cmd_xrange).
THEOREM RangesAreExact == Spec => []RangeExact
<1>1. ASSUME IInv, NEW k \in Keys, NEW from \in Bounds, NEW to \in Bounds,
             BoundOk(from, "-"), BoundOk(to, "+")
      PROVE  LET r == xrange(db[k], RangeStart(from), RangeEnd(to))
             IN  /\ Range(r) = {id \in Range(db[k]) : NotBefore(id, from) /\ NotAfter(id, to)}
                 /\ \A i, j \in 1 .. Len(r) : i < j => Less(r[i], r[j])
  <2> DEFINE r == xrange(db[k], RangeStart(from), RangeEnd(to))
  <2>1. db[k] \in Seq(StreamId) /\ Increasing(db[k]) /\ from \in IdText /\ to \in IdText
    BY <1>1, StreamsAssumption DEF IInv, TypeOK
  <2>2. RangeStart(from) \in StreamId /\ RangeEnd(to) \in StreamId
    <3>1. Id(0, 0) \in StreamId
      BY StreamsAssumption DEF StreamId, U64, Id
    <3> QED
      BY <1>1, <2>1, <3>1, BoundsMean, Zenon
  <2>3. \A id \in Range(db[k]) : id \in StreamId
    BY <2>1 DEF Range
  <2>4. \A id \in Range(db[k]) :
          /\ NotBefore(id, from) <=> ~Less(id, RangeStart(from))
          /\ NotAfter(id, to) <=> ~Less(RangeEnd(to), id)
    BY <1>1, <2>1, <2>3, BoundsMean, Zenon
  <2>5. /\ Range(r) = {id \in Range(db[k]) : ~Less(id, RangeStart(from))
                                             /\ ~Less(RangeEnd(to), id)}
        /\ \A i, j \in 1 .. Len(r) : i < j => Less(r[i], r[j])
    BY <2>1, <2>2, RangeOf, Zenon
  <2> HIDE DEF r
  <2>6. Range(r) = {id \in Range(db[k]) : NotBefore(id, from) /\ NotAfter(id, to)}
    BY <2>4, <2>5
  <2> QED
    BY <2>5, <2>6 DEF r
<1>2. ASSUME IInv
      PROVE  RangeExact
  BY <1>1, <1>2, Zenon DEF RangeExact
<1> QED
  BY <1>2, Invariance, PTL

\* A reader that polls with XREAD from the last ID it was given, with or without
\* COUNT, is given every entry once and in order (cmd_xread).
THEOREM ReadersMissNothing == Spec => []ReaderSeesAll
<1>1. IInv /\ Reads => ReaderSeesAll
  <2> SUFFICES ASSUME IInv, Reads
               PROVE  ReaderSeesAll
    OBVIOUS
  <2> DEFINE s == db[reader.key]
             t == reader.seen
  <2>1. /\ s \in Seq(StreamId) /\ t \in Seq(StreamId) /\ Len(t) <= Len(s)
        /\ \A i \in 1 .. Len(t) : t[i] = s[i]
    BY DEF Reads, IInv, TypeOK
  <2> HIDE DEF s, t
  <2>2. SubSeq(t, 1, Len(t)) = SubSeq(s, 1, Len(t))
    BY <2>1
  <2> QED
    BY <2>1, <2>2 DEF ReaderSeesAll, IsPrefix, s, t
<1>2. Spec => []Reads
  <2>1. Init => Reads
    BY InitReads
  <2>2. IInv /\ Reads /\ [Next]_vars => Reads'
    BY NextReads
  <2> QED
    BY <2>1, <2>2, Invariance, PTL DEF Spec
<1> QED
  BY <1>1, <1>2, Invariance, PTL

===============================================================================
